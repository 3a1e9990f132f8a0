----------------------------- MODULE Rings_proofs -----------------------------
(***************************************************************************)
(* What holds of the two descriptor rings for any number of descriptors,   *)
(* any length of frames and any number of them.                            *)
(***************************************************************************)
EXTENDS TransmitRing, ReceiveRing, Integers, SequenceTheorems, TLAPS

(* One turn of the ring is subtracted from what goes beyond its end.       *)
LEMMA Wrapped ==
    ASSUME NEW m \in Nat \ {0}, NEW x \in 0 .. 2 * m - 1
    PROVE  x % m = IF x < m THEN x ELSE x - m
  <1> DEFINE q == x \div m
             r == x % m
  <1>1. q \in Int /\ r \in 0 .. m - 1 /\ x = q * m + r
    OBVIOUS
  <1> HIDE DEF q, r
  <1>2. q <= 1
    <2>1. SUFFICES ASSUME q >= 2
                   PROVE  FALSE
      BY <1>1
    <2>2. PICK n \in Nat : q = n + 2
      <3>1. q - 2 \in Nat
        BY <1>1, <2>1
      <3> QED
        BY <1>1, <3>1
    <2>3. q * m = n * m + 2 * m /\ n * m >= 0
      BY <2>2
    <2> QED
      BY <1>1, <2>3
  <1>3. q >= 0
    <2>1. SUFFICES ASSUME q <= -1
                   PROVE  FALSE
      BY <1>1
    <2>2. PICK n \in Nat : q = -1 - n
      <3>1. -1 - q \in Nat
        BY <1>1, <2>1
      <3> QED
        BY <1>1, <3>1
    <2>3. q * m = -m - n * m /\ n * m >= 0
      BY <2>2
    <2> QED
      BY <1>1, <2>3
  <1>4. q = 0 \/ q = 1
    BY <1>1, <1>2, <1>3
  <1>5. r = IF x < m THEN x ELSE x - m
    BY <1>1, <1>4
  <1> QED
    BY <1>5 DEF r

(* n descriptors further on in a ring of m.                                *)
Turn(m, slot, n) == (slot + n) % m

LEMMA TurnIs ==
    ASSUME NEW m \in Nat \ {0}, NEW slot \in 0 .. m - 1, NEW k \in 0 .. m
    PROVE  /\ Turn(m, slot, k) = IF slot + k < m THEN slot + k ELSE slot + k - m
           /\ Turn(m, slot, k) \in 0 .. m - 1
  <1> DEFINE x == slot + k
  <1>1. x = slot + k /\ x \in 0 .. 2 * m - 1
    OBVIOUS
  <1>2. Turn(m, slot, k) = x % m
    BY DEF Turn
  <1> HIDE DEF x
  <1>3. x % m = IF x < m THEN x ELSE x - m
    BY <1>1, Wrapped
  <1> QED
    BY <1>1, <1>2, <1>3

LEMMA TurnInjective ==
    ASSUME NEW m \in Nat \ {0}, NEW slot \in 0 .. m - 1, NEW other \in 0 .. m - 1,
           NEW k \in 0 .. m
    PROVE  /\ k < m /\ other < m /\ Turn(m, slot, k) = Turn(m, slot, other) => k = other
           /\ Turn(m, slot, k) = Turn(m, other, k) => slot = other
  <1>1. /\ Turn(m, slot, k) = IF slot + k < m THEN slot + k ELSE slot + k - m
        /\ Turn(m, other, k) = IF other + k < m THEN other + k ELSE other + k - m
    BY TurnIs
  <1>2. other \in 0 .. m
    OBVIOUS
  <1>3. Turn(m, slot, other) = IF slot + other < m THEN slot + other ELSE slot + other - m
    BY <1>2, TurnIs
  <1> QED
    BY <1>1, <1>3

LEMMA TurnTurn ==
    ASSUME NEW m \in Nat \ {0}, NEW slot \in 0 .. m - 1, NEW n \in 0 .. m, NEW k \in 0 .. m
    PROVE  Turn(m, Turn(m, slot, n), k) =
              IF n + k <= m THEN Turn(m, slot, n + k) ELSE Turn(m, slot, n + k - m)
  <1>1. /\ Turn(m, slot, n) = IF slot + n < m THEN slot + n ELSE slot + n - m
        /\ Turn(m, slot, n) \in 0 .. m - 1
    BY TurnIs
  <1>2. Turn(m, Turn(m, slot, n), k) =
            IF Turn(m, slot, n) + k < m THEN Turn(m, slot, n) + k
            ELSE Turn(m, slot, n) + k - m
    BY <1>1, TurnIs
  <1>3. CASE n + k <= m
    <2>1. n + k \in 0 .. m
      BY <1>3
    <2>2. Turn(m, slot, n + k) = IF slot + (n + k) < m THEN slot + (n + k)
                                 ELSE slot + (n + k) - m
      BY <2>1, TurnIs
    <2> QED
      BY <1>1, <1>2, <1>3, <2>2
  <1>4. CASE n + k > m
    <2>1. n + k - m \in 0 .. m
      BY <1>4
    <2>2. Turn(m, slot, n + k - m) =
            IF slot + (n + k - m) < m THEN slot + (n + k - m) ELSE slot + (n + k - m) - m
      BY <2>1, TurnIs
    <2> QED
      BY <1>1, <1>2, <1>4, <2>2
  <1> QED
    BY <1>3, <1>4

(* The length of a sequence that is written as a function.                 *)
LEMMA LengthIs ==
    ASSUME NEW n \in Nat, NEW f, NEW S, f \in [1 .. n -> S]
    PROVE  f \in Seq(S) /\ Len(f) = n
  <1>1. f \in Seq(S) /\ DOMAIN f = 1 .. n
    BY SeqDef
  <1> DEFINE m == Len(f)
  <1>2. m \in Nat /\ DOMAIN f = 1 .. m
    BY <1>1, LenProperties
  <1> HIDE DEF m
  <1>3. \A i : i \in 1 .. m <=> i \in 1 .. n
    BY <1>1, <1>2, Zenon
  <1>4. /\ n \in 1 .. m <=> n \in 1 .. n
        /\ n + 1 \in 1 .. m <=> n + 1 \in 1 .. n
        /\ m \in 1 .. m <=> m \in 1 .. n
    BY <1>3, Zenon
  <1>5. m = n
    BY <1>2, <1>4
  <1> QED
    BY <1>1, <1>5 DEF m

-----------------------------------------------------------------------------
(* The receive ring.  Places in it are counted from the oldest descriptor  *)
(* that was not passed on.                                                 *)
Place(k) == Behind(receivedDescriptor, k)
Stored(k) == receiveRing[Place(k)]

LEMMA BehindIs ==
    ASSUME NEW slot \in ReceiveSlot, NEW k \in 0 .. ReceiveSlots
    PROVE  /\ Behind(slot, k) = IF slot + k < ReceiveSlots THEN slot + k
                                ELSE slot + k - ReceiveSlots
           /\ Behind(slot, k) \in ReceiveSlot
  <1>1. ReceiveSlots \in Nat \ {0} /\ slot \in 0 .. ReceiveSlots - 1
    BY ReceiveSlotsAssumption DEF ReceiveSlot
  <1>2. Behind(slot, k) = Turn(ReceiveSlots, slot, k)
    BY DEF Behind, Turn
  <1> QED
    BY <1>1, <1>2, TurnIs DEF ReceiveSlot

LEMMA BehindInjective ==
    ASSUME NEW slot \in ReceiveSlot, NEW j \in 0 .. ReceiveSlots - 1,
           NEW k \in 0 .. ReceiveSlots - 1, Behind(slot, j) = Behind(slot, k)
    PROVE  j = k
  <1>1. ReceiveSlots \in Nat \ {0} /\ slot \in 0 .. ReceiveSlots - 1
    BY ReceiveSlotsAssumption DEF ReceiveSlot
  <1>2. Turn(ReceiveSlots, slot, j) = Turn(ReceiveSlots, slot, k)
    BY DEF Behind, Turn
  <1>3. j \in 0 .. ReceiveSlots /\ j < ReceiveSlots /\ k < ReceiveSlots
    BY <1>1
  <1> QED
    BY <1>1, <1>2, <1>3, TurnInjective

LEMMA BehindBehind ==
    ASSUME NEW slot \in ReceiveSlot, NEW n \in 0 .. ReceiveSlots,
           NEW k \in 0 .. ReceiveSlots
    PROVE  Behind(Behind(slot, n), k) =
              IF n + k <= ReceiveSlots THEN Behind(slot, n + k)
              ELSE Behind(slot, n + k - ReceiveSlots)
  <1>1. ReceiveSlots \in Nat \ {0} /\ slot \in 0 .. ReceiveSlots - 1
    BY ReceiveSlotsAssumption DEF ReceiveSlot
  <1>2. \A s, l : Behind(s, l) = Turn(ReceiveSlots, s, l)
    BY DEF Behind, Turn
  <1> QED
    BY <1>1, <1>2, TurnTurn

-----------------------------------------------------------------------------
(* The types of the receive side.                                          *)
ReceivePart == (0 .. MaxArrivals) \X (0 .. MaxParts)
ReceiveDescriptor ==
    [DMAOwnership : BOOLEAN, last : BOOLEAN, error : BOOLEAN, holds : ReceivePart]
DeliveredRecord ==
    [frame : 0 .. MaxArrivals, at : ReceiveSlot, parts : Seq(ReceivePart), error : BOOLEAN]
ReceiverRecord ==
    [status : {"Stopped", "Fetching", "FoundNone", "Waiting", "Passing", "Suspended"},
     at : ReceiveSlot, part : 1 .. MaxParts + 1, parts : 0 .. MaxParts]

(* A frame that is being stored has a buffer left to store.                *)
ReceiveShape ==
    /\ receiveRing \in [ReceiveSlot -> ReceiveDescriptor]
    /\ receivedDescriptor \in ReceiveSlot
    /\ poller \in {"idle", "receiving", "returning", "received"}
    /\ receiveLeft \in 0 .. ReceiveBudget
    /\ poller = "returning" => receiveLeft > 0
    /\ receiver \in ReceiverRecord
    /\ arrived \in 0 .. MaxArrivals
    /\ receiver.status = "Passing" => receiver.part <= receiver.parts /\ arrived > 0
    /\ stored \in Seq(1 .. arrived)
    /\ delivered \in Seq(DeliveredRecord)
    /\ spoiled \subseteq ReceiveSlot
    /\ spilled \in BOOLEAN

LEMMA ReceiveConstants ==
    /\ ReceiveSlots \in Nat /\ ReceiveSlots >= 2
    /\ MaxParts \in Nat /\ 1 <= MaxParts /\ MaxParts < ReceiveSlots
    /\ MaxArrivals \in Nat
    /\ ReceiveBudget \in Nat
    /\ 0 \in ReceiveSlot
  <1>1. ReceiveSlots \in Nat \ {0, 1}
    BY ReceiveSlotsAssumption
  <1>2. /\ MaxParts \in Nat /\ 1 <= MaxParts /\ MaxParts < ReceiveSlots
        /\ MaxArrivals \in Nat /\ 0 \in ReceiveSlot
    BY <1>1, ReceivePartsAssumption, ReceiveArrivalsAssumption DEF ReceiveSlot
  <1>3. ReceiveSlots \div 2 \in Nat
    BY <1>1
  <1> QED
    BY <1>1, <1>2, <1>3 DEF ReceiveBudget

LEMMA ReceiveInitialShape ==
    ASSUME ReceiveInit
    PROVE  ReceiveShape
  <1> DEFINE first == [DMAOwnership |-> TRUE, last |-> FALSE, error |-> FALSE,
                       holds |-> <<0, 0>>]
             engine == [status |-> "Fetching", at |-> 0, part |-> 1, parts |-> 0]
  <1>1. first \in ReceiveDescriptor
    BY ReceiveConstants DEF ReceiveDescriptor, ReceivePart
  <1>2. engine \in ReceiverRecord /\ engine.status # "Passing"
    BY ReceiveConstants DEF ReceiverRecord
  <1>3. receiveRing = [slot \in ReceiveSlot |-> first] /\ receiver = engine
    BY DEF ReceiveInit, Foreign
  <1> HIDE DEF first, engine
  <1>4. receiveRing \in [ReceiveSlot -> ReceiveDescriptor]
    BY <1>1, <1>3
  <1>5. /\ receivedDescriptor = 0 /\ poller = "idle" /\ receiveLeft = 0 /\ arrived = 0
        /\ stored = <<>> /\ delivered = <<>> /\ spoiled = {} /\ spilled = FALSE
    BY DEF ReceiveInit
  <1> QED
    BY <1>2, <1>3, <1>4, <1>5, ReceiveConstants DEF ReceiveShape

LEMMA EngineKeepsShape ==
    ASSUME ReceiveShape,
           ReceiverFetch \/ ReceiverSuspend \/ RestartReceiver
    PROVE  ReceiveShape'
  <1>1. /\ receiver' \in ReceiverRecord
        /\ receiver'.status # "Passing" \/ receiver' = receiver
    <2>1. \A status \in {"Waiting", "FoundNone", "Suspended"} :
              LET next == [receiver EXCEPT !.status = status]
              IN  next \in ReceiverRecord /\ next.status # "Passing"
      BY DEF ReceiveShape, ReceiverRecord
    <2>2. \A status \in {"Waiting", "FoundNone"} :
              LET next == [receiver EXCEPT !.status = status, !.at = RestartAt]
              IN  next \in ReceiverRecord /\ next.status # "Passing"
      BY DEF ReceiveShape, ReceiverRecord, RestartAt
    <2>3. CASE ReceiverFetch
      <3>1. receiver' = [receiver EXCEPT !.status = "Waiting"]
            \/ receiver' = [receiver EXCEPT !.status = "FoundNone"]
        BY <2>3 DEF ReceiverFetch
      <3> QED
        BY <2>1, <3>1
    <2>4. CASE ReceiverSuspend
      <3>1. receiver' = [receiver EXCEPT !.status = "Suspended"]
        BY <2>4 DEF ReceiverSuspend
      <3> QED
        BY <2>1, <3>1
    <2>5. CASE RestartReceiver
      <3>1. \/ receiver' = [receiver EXCEPT !.status = "Waiting", !.at = RestartAt]
            \/ receiver' = [receiver EXCEPT !.status = "FoundNone", !.at = RestartAt]
            \/ receiver' = receiver
        BY <2>5 DEF RestartReceiver
      <3> QED
        BY <2>2, <3>1 DEF ReceiveShape
    <2> QED
      BY <2>3, <2>4, <2>5
  <1>2. /\ UNCHANGED <<receiveRing, receivedDescriptor, receiveLeft, arrived, stored,
                       delivered, spoiled, spilled>>
        /\ poller' = poller \/ poller' = "idle"
    BY DEF ReceiverFetch, ReceiverSuspend, RestartReceiver
  <1> QED
    BY <1>1, <1>2 DEF ReceiveShape

LEMMA ArriveKeepsShape ==
    ASSUME ReceiveShape, NEW n \in 1 .. MaxParts, Arrive(n)
    PROVE  ReceiveShape'
  <1>1. /\ receiver' = [receiver EXCEPT !.status = "Passing", !.part = 1, !.parts = n]
        /\ arrived' = arrived + 1 /\ arrived < MaxArrivals
        /\ UNCHANGED <<receiveRing, receivedDescriptor, poller, receiveLeft, stored,
                       delivered, spoiled, spilled>>
    BY DEF Arrive
  <1>2. receiver' \in ReceiverRecord /\ receiver'.part = 1 /\ receiver'.parts = n
    <2>1. receiver \in ReceiverRecord /\ 1 \in 1 .. MaxParts + 1 /\ n \in 0 .. MaxParts
      BY ReceiveConstants DEF ReceiveShape
    <2> QED
      BY <1>1, <2>1 DEF ReceiverRecord
  <1>3. arrived \in Nat /\ arrived' \in 0 .. MaxArrivals /\ arrived' > 0
    BY <1>1, ReceiveConstants DEF ReceiveShape
  <1>4. stored \in Seq(1 .. arrived')
    <2>1. stored \in Seq(1 .. arrived) /\ 1 .. arrived \subseteq 1 .. arrived'
      BY <1>1, <1>3 DEF ReceiveShape
    <2> QED
      BY <2>1, SeqMonotonic
  <1> QED
    BY <1>1, <1>2, <1>3, <1>4 DEF ReceiveShape

LEMMA StoreKeepsShape ==
    ASSUME ReceiveShape, ReceiverStore
    PROVE  ReceiveShape'
  <1> DEFINE complete == receiver.part = receiver.parts
             next == Behind(receiver.at, 1)
             truncated == ~complete /\ ~Free(next)
             new == [DMAOwnership |-> FALSE, last |-> complete \/ truncated,
                     error |-> truncated, holds |-> <<arrived, receiver.part>>]
  <1>1. /\ receiver \in ReceiverRecord /\ receiver.status = "Passing"
        /\ receiver.part \in 1 .. MaxParts /\ receiver.parts \in 0 .. MaxParts
        /\ receiver.part <= receiver.parts
        /\ receiver.at \in ReceiveSlot /\ arrived \in 1 .. MaxArrivals
    BY ReceiveConstants DEF ReceiveShape, ReceiverStore, ReceiverRecord
  <1>2. next \in ReceiveSlot
    BY <1>1, ReceiveConstants, BehindIs
  <1>3. truncated \in BOOLEAN /\ complete \in BOOLEAN
    OBVIOUS
  <1>4. new \in ReceiveDescriptor
    <2>1. <<arrived, receiver.part>> \in ReceivePart
      BY <1>1, ReceiveConstants DEF ReceivePart
    <2> HIDE DEF complete, truncated
    <2> QED
      BY <1>3, <2>1 DEF ReceiveDescriptor
  <1>5. /\ receiveRing' = [receiveRing EXCEPT ![receiver.at] = new]
        /\ receiver' = [receiver EXCEPT
                !.at = next, !.part = @ + 1,
                !.status = IF complete \/ truncated THEN "Fetching" ELSE "Passing"]
        /\ stored' = IF complete \/ truncated THEN Append(stored, arrived) ELSE stored
        /\ UNCHANGED <<receivedDescriptor, poller, receiveLeft, arrived, delivered,
                       spoiled, spilled>>
    BY DEF ReceiverStore
  <1>6. receiver'.status = "Passing" => ~complete
    BY <1>1, <1>5 DEF ReceiverRecord
  <1> HIDE DEF next, truncated, new
  <1>7. /\ receiver' \in ReceiverRecord
        /\ receiver'.part = receiver.part + 1 /\ receiver'.parts = receiver.parts
    <2>1. receiver.part + 1 \in 1 .. MaxParts + 1
      BY <1>1, ReceiveConstants
    <2> DEFINE status == IF complete \/ truncated THEN "Fetching" ELSE "Passing"
               part == receiver.part + 1
    <2>2. status \in {"Fetching", "Passing"}
      OBVIOUS
    <2>3. receiver' = [receiver EXCEPT !.at = next, !.part = part, !.status = status]
      BY <1>5
    <2> HIDE DEF status, part
    <2> QED
      BY <1>1, <1>2, <2>1, <2>2, <2>3 DEF ReceiverRecord, part
  <1>8. receiver'.status = "Passing" => receiver'.part <= receiver'.parts /\ arrived' > 0
    BY <1>1, <1>5, <1>6, <1>7
  <1>9. receiveRing' \in [ReceiveSlot -> ReceiveDescriptor]
    BY <1>1, <1>4, <1>5 DEF ReceiveShape
  <1>10. stored' \in Seq(1 .. arrived')
    <2>1. stored \in Seq(1 .. arrived) /\ arrived \in 1 .. arrived
      BY <1>1 DEF ReceiveShape
    <2>2. Append(stored, arrived) \in Seq(1 .. arrived)
      BY <2>1, AppendProperties
    <2> QED
      BY <1>5, <2>1, <2>2
  <1> QED
    BY <1>5, <1>7, <1>8, <1>9, <1>10 DEF ReceiveShape

LEMMA DeliverKeepsShape ==
    ASSUME ReceiveShape, NEW n \in 1 .. MaxParts, Deliver(n)
    PROVE  ReceiveShape'
  <1> DEFINE slot == Behind(receivedDescriptor, n - 1)
             number == receiveRing[receivedDescriptor].holds[1]
             frame == [frame |-> number, at |-> receivedDescriptor, parts |-> Contents(n),
                       error |-> receiveRing[slot].error]
  <1>1. /\ receiveLeft > 0 /\ poller' = "returning" /\ delivered' = Append(delivered, frame)
        /\ UNCHANGED <<receiveRing, receivedDescriptor, receiveLeft, receiver, arrived, stored,
                       spoiled, spilled>>
    BY DEF Deliver
  <1>2. receiveRing[slot].error \in BOOLEAN
    <2>1. slot \in ReceiveSlot
      BY ReceiveConstants, BehindIs DEF ReceiveShape
    <2> QED
      BY <2>1 DEF ReceiveShape, ReceiveDescriptor
  <1>3. Contents(n) \in Seq(ReceivePart)
    <2>1. \A k \in 1 .. n : receivedDescriptor + k - 1 < ReceiveSlots =>
                receivedDescriptor + k - 1 \in ReceiveSlot
      BY ReceiveConstants DEF ReceiveShape, ReceiveSlot
    <2>2. Foreign \in ReceivePart
      BY ReceiveConstants DEF ReceivePart, Foreign
    <2>3. \A s \in ReceiveSlot : receiveRing[s].holds \in ReceivePart
      BY DEF ReceiveShape, ReceiveDescriptor
    <2>4. Contents(n) \in [1 .. n -> ReceivePart]
      BY <2>1, <2>2, <2>3 DEF Contents
    <2>5. n \in Nat
      BY ReceiveConstants
    <2> QED
      BY <2>4, <2>5, SeqDef
  <1>4. receivedDescriptor \in ReceiveSlot /\ number \in 0 .. MaxArrivals
    BY DEF ReceiveShape, ReceiveDescriptor, ReceivePart
  <1> HIDE DEF slot, number
  <1>5. frame \in DeliveredRecord
    BY <1>2, <1>3, <1>4 DEF DeliveredRecord
  <1> HIDE DEF frame
  <1>6. delivered' \in Seq(DeliveredRecord)
    BY <1>1, <1>5, AppendProperties DEF ReceiveShape
  <1> QED
    BY <1>1, <1>6 DEF ReceiveShape

(* What a spill may reach, and that it does.                               *)
SpillReaches ==
    /\ \A slot \in spoiled : slot \in ReceiveSlot /\ slot < MaxSpill
    /\ spoiled # {} => spilled

LEMMA SpillKeepsShape ==
    ASSUME ReceiveShape, SpillReaches, NEW n \in 1 .. MaxSpill, Spill(n)
    PROVE  ReceiveShape' /\ SpillReaches'
  <1>1. PICK hit \in SUBSET BeingFilled :
            spoiled' = spoiled \cup { slot \in 0 .. (n - 1) : ~Free(slot) \/ slot \in hit }
    BY DEF Spill
  <1>2. /\ spilled' = TRUE
        /\ UNCHANGED <<receiveRing, receivedDescriptor, poller, receiveLeft, receiver, arrived,
                       stored, delivered>>
    BY DEF Spill
  <1>3. \A slot \in 0 .. (n - 1) : slot \in ReceiveSlot /\ slot < MaxSpill
    BY ReceiveConstants, ReceiveSpillAssumption DEF ReceiveSlot
  <1>4. \A slot \in spoiled' : slot \in ReceiveSlot /\ slot < MaxSpill
    BY <1>1, <1>3 DEF SpillReaches
  <1>5. SpillReaches'
    BY <1>2, <1>4 DEF SpillReaches, ReceiveSlot
  <1>6. spoiled' \subseteq ReceiveSlot
    BY <1>4
  <1> QED
    BY <1>2, <1>5, <1>6 DEF ReceiveShape

LEMMA PollKeepsShape ==
    ASSUME ReceiveShape,
           StartReceive \/ EndReceive \/ \E n \in 1 .. MaxParts : GiveBack(n)
    PROVE  ReceiveShape'
  <1>1. CASE StartReceive
    BY <1>1, ReceiveConstants DEF ReceiveShape, StartReceive
  <1>2. CASE EndReceive
    BY <1>2, ReceiveConstants DEF ReceiveShape, EndReceive
  <1>3. CASE \E n \in 1 .. MaxParts : GiveBack(n)
    <2>1. PICK n \in 1 .. MaxParts : GiveBack(n)
      BY <1>3
    <2>2. /\ receiveRing' =
                [slot \in ReceiveSlot |->
                    IF slot \in Returned(n)
                    THEN [receiveRing[slot] EXCEPT !.DMAOwnership = TRUE]
                    ELSE receiveRing[slot]]
          /\ receivedDescriptor' = Behind(receivedDescriptor, n)
          /\ receiveLeft' = receiveLeft - 1 /\ poller = "returning" /\ poller' = "receiving"
          /\ UNCHANGED <<receiver, arrived, stored, delivered, spilled>>
          /\ spoiled' = spoiled \ Returned(n)
      BY <2>1 DEF GiveBack
    <2> DEFINE given(slot) == [receiveRing[slot] EXCEPT !.DMAOwnership = TRUE]
    <2>3. \A slot \in ReceiveSlot :
            receiveRing[slot] \in ReceiveDescriptor /\ given(slot) \in ReceiveDescriptor
      BY DEF ReceiveShape, ReceiveDescriptor
    <2>4. receiveRing' \in [ReceiveSlot -> ReceiveDescriptor]
      <3>1. receiveRing' = [slot \in ReceiveSlot |->
                IF slot \in Returned(n) THEN given(slot) ELSE receiveRing[slot]]
        BY <2>2
      <3>2. \A slot \in ReceiveSlot :
                (IF slot \in Returned(n) THEN given(slot) ELSE receiveRing[slot])
                    \in ReceiveDescriptor
        BY <2>3
      <3> HIDE DEF given
      <3> QED
        BY <3>1, <3>2
    <2>5. receivedDescriptor' \in ReceiveSlot
      <3>1. receivedDescriptor \in ReceiveSlot /\ n \in 0 .. ReceiveSlots
        BY ReceiveConstants DEF ReceiveShape
      <3> QED
        BY <2>2, <3>1, BehindIs
    <2>6. receiveLeft' \in 0 .. ReceiveBudget
      BY <2>2, ReceiveConstants DEF ReceiveShape
    <2> QED
      BY <2>2, <2>4, <2>5, <2>6 DEF ReceiveShape
  <1> QED
    BY <1>1, <1>2, <1>3

LEMMA ReceiveStepKeepsShape ==
    ASSUME ReceiveShape, SpillReaches, [ReceiveNext]_receiveVars
    PROVE  ReceiveShape' /\ SpillReaches'
  <1>1. ASSUME ReceiveShape', UNCHANGED spilled, spoiled' \subseteq spoiled
        PROVE  SpillReaches'
    BY <1>1 DEF SpillReaches, ReceiveSlot
  <1>2. CASE UNCHANGED receiveVars
    BY <1>1, <1>2 DEF receiveVars, ReceiveShape
  <1>3. CASE ReceiverFetch \/ ReceiverSuspend \/ RestartReceiver
    BY <1>1, <1>3, EngineKeepsShape DEF ReceiverFetch, ReceiverSuspend, RestartReceiver
  <1>4. CASE \E n \in 1 .. MaxParts : Arrive(n)
    BY <1>1, <1>4, ArriveKeepsShape DEF Arrive
  <1>5. CASE ReceiverStore
    BY <1>1, <1>5, StoreKeepsShape DEF ReceiverStore
  <1>6. CASE \E n \in 1 .. MaxParts : Deliver(n)
    BY <1>1, <1>6, DeliverKeepsShape DEF Deliver
  <1>7. CASE StartReceive \/ EndReceive \/ \E n \in 1 .. MaxParts : GiveBack(n)
    BY <1>1, <1>7, PollKeepsShape DEF StartReceive, EndReceive, GiveBack
  <1>8. CASE \E n \in 1 .. MaxSpill : Spill(n)
    BY <1>8, SpillKeepsShape
  <1> QED
    BY <1>2, <1>3, <1>4, <1>5, <1>6, <1>7, <1>8 DEF ReceiveNext
-----------------------------------------------------------------------------
(* What is in the receive ring: the first count descriptors were closed    *)
(* and not given back.                                                     *)
Number(k) == Stored(k).holds[1]
PartOf(k) == Stored(k).holds[2]

Occupied(count) ==
    \A k \in 0 .. ReceiveSlots - 1 : Stored(k).DMAOwnership <=> k >= count

(* Frames lie in it whole and one behind the other.                        *)
InFrames(count) ==
    \A k \in 0 .. count - 1 :
        /\ PartOf(k) \in 1 .. k + 1
        /\ \A i \in 0 .. PartOf(k) - 1 :
            /\ Stored(k - i).holds = <<Number(k), PartOf(k) - i>>
            /\ i > 0 => ~Stored(k - i).last
        /\ k >= PartOf(k) => /\ Stored(k - PartOf(k)).last
                             /\ Number(k - PartOf(k)) = Number(k) - 1
        /\ Stored(k).last => Number(k) <= Len(stored)

(* The number of the frame given back last, and of the last in the ring.   *)
PassedOn == IF poller = "returning" THEN Len(delivered) - 1 ELSE Len(delivered)
LastNumber(count) == IF count = 0 THEN PassedOn ELSE Number(count - 1)
Closed == IF receiver.status = "Passing" THEN arrived - 1 ELSE arrived

(* The engine stands behind what is in the ring, unless it found no        *)
(* descriptor; what it has stored of a frame is the last in the ring.      *)
Engine(count) ==
    /\ receiver.status \in {"Fetching", "Waiting", "Passing"} => receiver.at = Place(count)
    /\ receiver.status \in {"Waiting", "Passing"} => count < ReceiveSlots
    /\ (receiver.status = "Passing" /\ receiver.part > 1) =>
            /\ count >= 1
            /\ Stored(count - 1).holds = <<arrived, receiver.part - 1>>
            /\ ~Stored(count - 1).last
    /\ ~(receiver.status = "Passing" /\ receiver.part > 1) =>
            /\ count >= 1 => Stored(count - 1).last
            /\ LastNumber(count) = Closed

(* Frames are stored and delivered by their numbers.                       *)
Queues(count) ==
    /\ count > 0 => Number(0) = PassedOn + 1
    /\ Len(stored) = Closed
    /\ \A i \in 1 .. Len(stored) : stored[i] = i
    /\ \A i \in 1 .. Len(delivered) : delivered[i].frame = i
    /\ poller = "returning" => count > 0

ReceiveRingOK(count) ==
    Occupied(count) /\ InFrames(count) /\ Engine(count) /\ Queues(count)

ReceiveInv ==
    /\ ReceiveShape
    /\ SpillReaches
    /\ \E count \in 0 .. ReceiveSlots : ReceiveRingOK(count)
    /\ FramesReceivedAsStored

-----------------------------------------------------------------------------
LEMMA PlaceIs ==
    ASSUME ReceiveShape
    PROVE  /\ \A k \in 0 .. ReceiveSlots : Place(k) \in ReceiveSlot
           /\ \A k \in 0 .. ReceiveSlots - 1 : Stored(k) \in ReceiveDescriptor
           /\ Place(0) = receivedDescriptor
           /\ Place(ReceiveSlots) = Place(0)
           /\ \A k \in 0 .. ReceiveSlots - 1 : Behind(Place(k), 1) = Place(k + 1)
           /\ \A j, k \in 0 .. ReceiveSlots - 1 : Place(j) = Place(k) => j = k
           /\ \A k \in 1 .. ReceiveSlots : receivedDescriptor + k - 1 < ReceiveSlots =>
                    Place(k - 1) = receivedDescriptor + k - 1
  <1>1. /\ receivedDescriptor \in ReceiveSlot
        /\ receiveRing \in [ReceiveSlot -> ReceiveDescriptor]
    BY DEF ReceiveShape
  <1>2. receivedDescriptor \in Nat /\ receivedDescriptor < ReceiveSlots
    BY <1>1, ReceiveConstants DEF ReceiveSlot
  <1>3. \A k \in 0 .. ReceiveSlots :
            /\ Place(k) = IF receivedDescriptor + k < ReceiveSlots THEN receivedDescriptor + k
                          ELSE receivedDescriptor + k - ReceiveSlots
            /\ Place(k) \in ReceiveSlot
    BY <1>1, BehindIs DEF Place
  <1>4. \A k \in 0 .. ReceiveSlots - 1 : Stored(k) \in ReceiveDescriptor
    BY <1>1, <1>3, ReceiveConstants DEF Stored
  <1>5. Place(0) = receivedDescriptor /\ Place(ReceiveSlots) = Place(0)
    BY <1>2, <1>3, ReceiveConstants
  <1>6. \A k \in 0 .. ReceiveSlots - 1 : Behind(Place(k), 1) = Place(k + 1)
    <2>1. SUFFICES ASSUME NEW k \in 0 .. ReceiveSlots - 1
                   PROVE  Behind(Place(k), 1) = Place(k + 1)
      OBVIOUS
    <2>2. k \in 0 .. ReceiveSlots /\ 1 \in 0 .. ReceiveSlots /\ k + 1 <= ReceiveSlots
      BY ReceiveConstants
    <2> QED
      BY <1>1, <2>2, BehindBehind DEF Place
  <1>7. \A j, k \in 0 .. ReceiveSlots - 1 : Place(j) = Place(k) => j = k
    BY <1>1, BehindInjective DEF Place
  <1>8. \A k \in 1 .. ReceiveSlots : receivedDescriptor + k - 1 < ReceiveSlots =>
                    Place(k - 1) = receivedDescriptor + k - 1
    <2>1. SUFFICES ASSUME NEW k \in 1 .. ReceiveSlots,
                          receivedDescriptor + k - 1 < ReceiveSlots
                   PROVE  Place(k - 1) = receivedDescriptor + k - 1
      OBVIOUS
    <2>2. k - 1 \in 0 .. ReceiveSlots
      BY ReceiveConstants
    <2> QED
      BY <1>2, <1>3, <2>1, <2>2, ReceiveConstants
  <1> QED
    BY <1>3, <1>4, <1>5, <1>6, <1>7, <1>8

(* A frame poll() finds is the oldest in the ring, whole, and was closed.  *)
LEMMA FrameIs ==
    ASSUME ReceiveShape, NEW count \in 0 .. ReceiveSlots, ReceiveRingOK(count),
           NEW n \in 1 .. MaxParts, FrameIn(n)
    PROVE  /\ n <= count
           /\ Stored(n - 1).last
           /\ \A k \in 0 .. n - 1 : Stored(k).holds = <<Number(0), k + 1>>
           /\ Number(0) <= Len(stored)
  <1>1. n \in Nat /\ n >= 1 /\ n < ReceiveSlots /\ count \in Nat /\ ReceiveSlots \in Nat
    BY ReceiveConstants
  <1>2. \A k \in 0 .. n - 1 : ~Stored(k).DMAOwnership /\ (Stored(k).last <=> k = n - 1)
    <2>1. \A k \in 0 .. n - 1 : ~Free(Place(k))
      BY DEF FrameIn, Oldest, Place
    <2>2. \A k \in 0 .. n - 1 : receiveRing[Place(k)].last <=> k = n - 1
      BY DEF FrameIn, Place
    <2> QED
      BY <2>1, <2>2 DEF Free, Stored
  <1>3. n - 1 \in 0 .. n - 1 /\ n - 1 \in 0 .. ReceiveSlots - 1
    BY <1>1
  <1>4. n - 1 < count
    BY <1>1, <1>2, <1>3 DEF ReceiveRingOK, Occupied
  <1> DEFINE j == PartOf(n - 1)
  <1>5. n - 1 \in 0 .. count - 1
    BY <1>1, <1>4
  <1>6. /\ j \in 1 .. n
        /\ \A i \in 0 .. j - 1 : Stored((n - 1) - i).holds = <<Number(n - 1), j - i>>
        /\ n - 1 >= j => Stored((n - 1) - j).last
        /\ Stored(n - 1).last => Number(n - 1) <= Len(stored)
    BY <1>1, <1>5 DEF ReceiveRingOK, InFrames
  <1> HIDE DEF j
  <1>7. j = n
    <2>1. SUFFICES ASSUME j < n
                   PROVE  FALSE
      BY <1>1, <1>6
    <2>2. (n - 1) - j \in 0 .. n - 1 /\ (n - 1) - j # n - 1 /\ n - 1 >= j
      BY <1>1, <1>6, <2>1
    <2> QED
      BY <1>2, <1>6, <2>2
  <1>8. \A k \in 0 .. n - 1 : Stored(k).holds = <<Number(n - 1), k + 1>>
    <2>1. SUFFICES ASSUME NEW k \in 0 .. n - 1
                   PROVE  Stored(k).holds = <<Number(n - 1), k + 1>>
      OBVIOUS
    <2>2. /\ (n - 1) - k \in 0 .. j - 1 /\ (n - 1) - ((n - 1) - k) = k
          /\ j - ((n - 1) - k) = k + 1
      BY <1>1, <1>7
    <2>3. Stored((n - 1) - ((n - 1) - k)).holds = <<Number(n - 1), j - ((n - 1) - k)>>
      BY <1>6, <2>2
    <2> QED
      BY <2>2, <2>3
  <1>9. Number(0) = Number(n - 1)
    BY <1>1, <1>8 DEF Number
  <1>10. Stored(n - 1).last
    BY <1>2, <1>3
  <1> QED
    BY <1>1, <1>4, <1>6, <1>8, <1>9, <1>10

LEMMA ReceiveInitial ==
    ASSUME ReceiveInit
    PROVE  ReceiveInv
  <1>1. ReceiveShape
    BY ReceiveInitialShape
  <1>2. /\ poller = "idle" /\ arrived = 0 /\ stored = <<>> /\ delivered = <<>>
        /\ receiver.status = "Fetching" /\ receiver.at = 0 /\ receivedDescriptor = 0
        /\ \A slot \in ReceiveSlot : receiveRing[slot].DMAOwnership
    BY DEF ReceiveInit
  <1>3. Place(0) = 0
    BY <1>1, <1>2, PlaceIs
  <1>4. Occupied(0)
    <2>1. \A k \in 0 .. ReceiveSlots - 1 : Stored(k).DMAOwnership /\ k >= 0
      BY <1>1, <1>2, PlaceIs, ReceiveConstants DEF Stored
    <2> QED
      BY <2>1 DEF Occupied
  <1>5. InFrames(0)
    BY DEF InFrames
  <1>6. Len(stored) = 0 /\ Len(delivered) = 0 /\ PassedOn = 0 /\ Closed = 0
    BY <1>2 DEF PassedOn, Closed
  <1>7. Engine(0)
    BY <1>2, <1>3, <1>6, ReceiveConstants DEF Engine, LastNumber
  <1>8. Queues(0)
    BY <1>2, <1>6 DEF Queues
  <1>9. FramesReceivedAsStored
    BY <1>6 DEF FramesReceivedAsStored
  <1>10. 0 \in 0 .. ReceiveSlots
    BY ReceiveConstants
  <1>11. SpillReaches
    BY DEF ReceiveInit, SpillReaches
  <1> QED
    BY <1>1, <1>4, <1>5, <1>7, <1>8, <1>9, <1>10, <1>11 DEF ReceiveInv, ReceiveRingOK

(* The steps that leave the ring as it is.                                 *)
LEMMA SameRing ==
    ASSUME UNCHANGED <<receiveRing, receivedDescriptor, stored>>, NEW count,
           Occupied(count), InFrames(count)
    PROVE  /\ Occupied(count)' /\ InFrames(count)'
           /\ \A k : Place(k)' = Place(k) /\ Stored(k)' = Stored(k) /\ Number(k)' = Number(k)
  <1>1. \A k : Place(k)' = Place(k)
    BY DEF Place
  <1>2. \A k : Stored(k)' = Stored(k)
    BY <1>1 DEF Stored
  <1>3. \A k : Number(k)' = Number(k) /\ PartOf(k)' = PartOf(k)
    BY <1>2 DEF Number, PartOf
  <1>4. Occupied(count)'
    BY <1>2 DEF Occupied
  <1>5. InFrames(count)'
    BY <1>2, <1>3 DEF InFrames
  <1> QED
    BY <1>1, <1>2, <1>3, <1>4, <1>5

LEMMA EngineKeepsRing ==
    ASSUME ReceiveShape, NEW count \in 0 .. ReceiveSlots, ReceiveRingOK(count),
           ReceiverFetch \/ ReceiverSuspend \/ RestartReceiver
    PROVE  ReceiveRingOK(count)'
  <1>1. /\ UNCHANGED <<receiveRing, receivedDescriptor, receiveLeft, arrived, stored, delivered>>
        /\ receiver \in ReceiverRecord
    BY DEF ReceiverFetch, ReceiverSuspend, RestartReceiver, ReceiveShape
  <1>2. /\ Occupied(count)' /\ InFrames(count)'
        /\ \A k : Place(k)' = Place(k) /\ Stored(k)' = Stored(k) /\ Number(k)' = Number(k)
    BY <1>1, SameRing DEF ReceiveRingOK
  <1>3. UNCHANGED poller \/ (poller # "returning" /\ poller' # "returning")
    BY <1>1 DEF ReceiverFetch, ReceiverSuspend, RestartReceiver
  <1>4. PassedOn' = PassedOn
    BY <1>1, <1>3 DEF PassedOn
  <1>5. \/ receiver' = receiver
        \/ /\ receiver.status # "Passing" /\ receiver'.status # "Passing"
           /\ receiver'.status \in {"Fetching", "Waiting", "Passing"} =>
                /\ receiver'.status = "Waiting" /\ count < ReceiveSlots
                /\ receiver'.at = Place(count)
    <2>1. \A slot : Free(slot) <=> receiveRing[slot].DMAOwnership
      BY DEF Free
    <2>2. \A k \in 0 .. ReceiveSlots - 1 : Free(Place(k)) => k >= count
      BY DEF Free, ReceiveRingOK, Occupied, Stored
    <2>3. CASE ReceiverFetch
      <3>1. receiver.status = "Fetching" /\ receiver.at = Place(count)
        BY <2>3 DEF ReceiverFetch, ReceiveRingOK, Engine
      <3>2. CASE Free(receiver.at)
        <4>1. receiver' = [receiver EXCEPT !.status = "Waiting"]
          BY <2>3, <3>2 DEF ReceiverFetch
        <4>2. receiver'.status = "Waiting" /\ receiver'.at = Place(count)
          BY <1>1, <3>1, <4>1 DEF ReceiverRecord
        <4>3. count # ReceiveSlots
          <5>1. SUFFICES ASSUME count = ReceiveSlots
                         PROVE  FALSE
            OBVIOUS
          <5>2. Free(Place(0)) /\ 0 \in 0 .. ReceiveSlots - 1 /\ ~(0 >= count)
            BY <3>1, <3>2, <5>1, PlaceIs, ReceiveConstants
          <5> QED
            BY <2>2, <5>2
        <4> QED
          BY <3>1, <4>2, <4>3, ReceiveConstants
      <3>3. CASE ~Free(receiver.at)
        <4>1. receiver' = [receiver EXCEPT !.status = "FoundNone"]
          BY <2>3, <3>3 DEF ReceiverFetch
        <4> QED
          BY <1>1, <3>1, <4>1 DEF ReceiverRecord
      <3> QED
        BY <3>2, <3>3
    <2>4. CASE ReceiverSuspend
      <3>1. /\ receiver.status = "FoundNone"
            /\ receiver' = [receiver EXCEPT !.status = "Suspended"]
        BY <2>4 DEF ReceiverSuspend
      <3> QED
        BY <1>1, <3>1 DEF ReceiverRecord
    <2>5. CASE RestartReceiver /\ Restarts(receiver.status)
      <3>1. receiver.status \in {"Stopped", "Suspended"} /\ RestartAt = Place(0)
        BY <2>5, PlaceIs DEF Restarts, RestartAt
      <3>2. CASE Free(RestartAt)
        <4>1. receiver' = [receiver EXCEPT !.status = "Waiting", !.at = RestartAt]
          BY <2>5, <3>2 DEF RestartReceiver
        <4>2. receiver'.status = "Waiting" /\ receiver'.at = Place(0)
          BY <1>1, <3>1, <4>1 DEF ReceiverRecord
        <4>3. count = 0
          BY <2>2, <3>1, <3>2, ReceiveConstants
        <4> QED
          BY <3>1, <4>2, <4>3, ReceiveConstants
      <3>3. CASE ~Free(RestartAt)
        <4>1. receiver' = [receiver EXCEPT !.status = "FoundNone", !.at = RestartAt]
          BY <2>5, <3>3 DEF RestartReceiver
        <4> QED
          BY <1>1, <3>1, <4>1 DEF ReceiverRecord
      <3> QED
        BY <3>2, <3>3
    <2>6. CASE RestartReceiver /\ ~Restarts(receiver.status)
      BY <2>6 DEF RestartReceiver
    <2> QED
      BY <2>3, <2>4, <2>5, <2>6
  <1>6. Closed' = Closed
    BY <1>1, <1>5 DEF Closed
  <1>7. LastNumber(count)' = LastNumber(count)
    BY <1>2, <1>4 DEF LastNumber
  <1>8. Engine(count)'
    BY <1>1, <1>2, <1>5, <1>6, <1>7 DEF ReceiveRingOK, Engine
  <1>9. Queues(count)'
    BY <1>1, <1>2, <1>3, <1>4, <1>6 DEF ReceiveRingOK, Queues
  <1> QED
    BY <1>2, <1>8, <1>9 DEF ReceiveRingOK

LEMMA ArriveKeepsRing ==
    ASSUME ReceiveShape, NEW count \in 0 .. ReceiveSlots, ReceiveRingOK(count),
           NEW n \in 1 .. MaxParts, Arrive(n)
    PROVE  ReceiveRingOK(count)'
  <1>1. /\ UNCHANGED <<receiveRing, receivedDescriptor, poller, stored, delivered>>
        /\ receiver \in ReceiverRecord /\ arrived \in Nat
        /\ receiver.status = "Waiting" /\ arrived' = arrived + 1
        /\ receiver' = [receiver EXCEPT !.status = "Passing", !.part = 1, !.parts = n]
    BY ReceiveConstants DEF Arrive, ReceiveShape
  <1>2. /\ Occupied(count)' /\ InFrames(count)'
        /\ \A k : Place(k)' = Place(k) /\ Stored(k)' = Stored(k) /\ Number(k)' = Number(k)
    BY <1>1, SameRing DEF ReceiveRingOK
  <1>3. PassedOn' = PassedOn
    BY <1>1 DEF PassedOn
  <1>4. receiver'.status = "Passing" /\ receiver'.part = 1 /\ receiver'.at = receiver.at
    BY <1>1 DEF ReceiverRecord
  <1>5. Closed = arrived /\ Closed' = arrived
    BY <1>1, <1>4 DEF Closed
  <1>6. LastNumber(count)' = LastNumber(count)
    BY <1>2, <1>3 DEF LastNumber
  <1>7. Engine(count)'
    BY <1>1, <1>2, <1>4, <1>5, <1>6 DEF ReceiveRingOK, Engine
  <1>8. Queues(count)'
    BY <1>1, <1>2, <1>3, <1>5 DEF ReceiveRingOK, Queues
  <1> QED
    BY <1>2, <1>7, <1>8 DEF ReceiveRingOK

LEMMA PollKeepsRing ==
    ASSUME ReceiveShape, NEW count \in 0 .. ReceiveSlots, ReceiveRingOK(count),
           StartReceive \/ EndReceive
    PROVE  ReceiveRingOK(count)'
  <1>1. /\ UNCHANGED <<receiveRing, receivedDescriptor, receiver, arrived, stored, delivered>>
        /\ poller # "returning" /\ poller' # "returning"
    BY DEF StartReceive, EndReceive
  <1>2. /\ Occupied(count)' /\ InFrames(count)'
        /\ \A k : Place(k)' = Place(k) /\ Stored(k)' = Stored(k) /\ Number(k)' = Number(k)
    BY <1>1, SameRing DEF ReceiveRingOK
  <1>3. PassedOn' = PassedOn /\ Closed' = Closed
    BY <1>1 DEF PassedOn, Closed
  <1>4. LastNumber(count)' = LastNumber(count)
    BY <1>2, <1>3 DEF LastNumber
  <1>5. Engine(count)' /\ Queues(count)'
    BY <1>1, <1>2, <1>3, <1>4 DEF ReceiveRingOK, Engine, Queues
  <1> QED
    BY <1>2, <1>5 DEF ReceiveRingOK

(* A part of a frame as it was stored, or from an exposed place.           *)
RightPart(received, k) ==
    \/ received.parts[k] = <<received.frame, k>>
    \/ received.parts[k] = Foreign /\ Exposed(received.at + k - 1)

(* What received() gets.                                                   *)
LEMMA DeliveredFrame ==
    ASSUME ReceiveShape, SpillReaches, NEW count \in 0 .. ReceiveSlots, ReceiveRingOK(count),
           NEW n \in 1 .. MaxParts, FrameIn(n)
    PROVE  /\ receiveRing[receivedDescriptor].holds[1] = Number(0)
           /\ Len(Contents(n)) = n
           /\ \A k \in 1 .. n :
                \/ Contents(n)[k] = <<Number(0), k>>
                \/ Contents(n)[k] = Foreign /\ Exposed(receivedDescriptor + k - 1)
  <1>1. n \in Nat /\ n >= 1 /\ n < ReceiveSlots /\ ReceiveSlots \in Nat
    BY ReceiveConstants
  <1>2. \A k \in 0 .. n - 1 : Stored(k).holds = <<Number(0), k + 1>>
    BY FrameIs
  <1>3. receivedDescriptor \in Nat /\ receivedDescriptor < ReceiveSlots
    BY ReceiveConstants DEF ReceiveShape, ReceiveSlot
  <1>4. Contents(n) \in [1 .. n -> {Contents(n)[k] : k \in 1 .. n}]
    BY DEF Contents
  <1>5. Len(Contents(n)) = n
    BY <1>1, <1>4, LengthIs
  <1>6. ASSUME NEW k \in 1 .. n
        PROVE  \/ Contents(n)[k] = <<Number(0), k>>
               \/ Contents(n)[k] = Foreign /\ Exposed(receivedDescriptor + k - 1)
    <2> DEFINE slot == receivedDescriptor + k - 1
    <2>1. k \in Nat /\ slot \in Nat
      BY <1>1, <1>3
    <2>2. Contents(n)[k] = IF slot < ReceiveSlots /\ slot \notin spoiled
                           THEN receiveRing[slot].holds ELSE Foreign
      BY DEF Contents
    <2>3. CASE slot < ReceiveSlots /\ slot \notin spoiled
      <3>1. k - 1 \in 0 .. n - 1 /\ k \in 1 .. ReceiveSlots /\ (k - 1) + 1 = k
        BY <1>1
      <3>2. Place(k - 1) = slot
        BY <2>3, <3>1, PlaceIs
      <3>3. Contents(n)[k] = Stored(k - 1).holds
        BY <2>2, <2>3, <3>2 DEF Stored
      <3>4. Stored(k - 1).holds = <<Number(0), (k - 1) + 1>>
        BY <1>2, <3>1
      <3> QED
        BY <3>1, <3>3, <3>4
    <2>4. CASE slot \in spoiled
      <3>1. spilled /\ slot < MaxSpill
        BY <2>4 DEF SpillReaches
      <3> QED
        BY <2>2, <2>4, <3>1 DEF Exposed
    <2>5. CASE ~(slot < ReceiveSlots)
      <3>1. slot >= ReceiveSlots
        BY <1>1, <2>1, <2>5
      <3> QED
        BY <2>2, <2>5, <3>1 DEF Exposed
    <2> QED
      BY <2>3, <2>4, <2>5
  <1>7. Place(0) = receivedDescriptor
    BY PlaceIs
  <1>8. receiveRing[receivedDescriptor].holds[1] = Number(0)
    BY <1>7 DEF Number, Stored
  <1> QED
    BY <1>5, <1>6, <1>8

(* Nothing that was right turns wrong.                                     *)
LEMMA RightPartStays ==
    ASSUME spilled => spilled', NEW received, NEW k, RightPart(received, k)
    PROVE  RightPart(received, k)'
  BY DEF RightPart, Exposed

LEMMA DeliverKeepsRing ==
    ASSUME ReceiveShape, SpillReaches, NEW count \in 0 .. ReceiveSlots, ReceiveRingOK(count),
           FramesReceivedAsStored, NEW n \in 1 .. MaxParts, Deliver(n)
    PROVE  ReceiveRingOK(count)' /\ FramesReceivedAsStored'
  <1> DEFINE number == receiveRing[receivedDescriptor].holds[1]
             frame == [frame |-> number, at |-> receivedDescriptor, parts |-> Contents(n),
                       error |-> receiveRing[Behind(receivedDescriptor, n - 1)].error]
  <1>1. /\ UNCHANGED <<receiveRing, receivedDescriptor, receiver, arrived, stored, spoiled, spilled>>
        /\ poller = "receiving" /\ poller' = "returning" /\ FrameIn(n)
        /\ delivered' = Append(delivered, frame)
    BY DEF Deliver
  <1>2. /\ Occupied(count)' /\ InFrames(count)'
        /\ \A k : Place(k)' = Place(k) /\ Stored(k)' = Stored(k) /\ Number(k)' = Number(k)
    BY <1>1, SameRing DEF ReceiveRingOK
  <1>3. frame.parts = Contents(n) /\ frame.frame = number /\ frame.at = receivedDescriptor
    OBVIOUS
  <1> HIDE DEF frame
  <1>4. /\ Len(delivered) \in Nat /\ Len(delivered') = Len(delivered) + 1
        /\ \A i \in 1 .. Len(delivered) : delivered'[i] = delivered[i]
        /\ delivered'[Len(delivered) + 1] = frame
    <2> DEFINE S == {delivered[i] : i \in DOMAIN delivered} \cup {frame}
    <2>1. delivered \in Seq(DeliveredRecord)
      BY DEF ReceiveShape
    <2>2. /\ Len(delivered) \in Nat /\ DOMAIN delivered = 1 .. Len(delivered)
          /\ delivered \in [1 .. Len(delivered) -> DeliveredRecord]
      BY <2>1, LenProperties
    <2>3. delivered \in [1 .. Len(delivered) -> S]
      BY <2>2
    <2>4. delivered \in Seq(S) /\ frame \in S
      BY <2>2, <2>3, SeqDef
    <2> HIDE DEF S
    <2> QED
      BY <1>1, <2>2, <2>4, AppendProperties
  <1>5. PassedOn' = PassedOn /\ PassedOn = Len(delivered) /\ Closed' = Closed
    BY <1>1, <1>4 DEF PassedOn, Closed
  <1>6. LastNumber(count)' = LastNumber(count)
    BY <1>2, <1>5 DEF LastNumber
  <1>7. Engine(count)'
    BY <1>1, <1>2, <1>5, <1>6 DEF ReceiveRingOK, Engine
  <1>8. count > 0 /\ count \in Nat
    <2>1. n <= count
      BY <1>1, FrameIs
    <2> QED
      BY <2>1, ReceiveConstants
  <1>9. Number(0) = Len(delivered) + 1
    BY <1>5, <1>8 DEF ReceiveRingOK, Queues
  <1>10. /\ number = Number(0)
         /\ Len(Contents(n)) = n
         /\ \A k \in 1 .. n :
                \/ Contents(n)[k] = <<Number(0), k>>
                \/ Contents(n)[k] = Foreign /\ Exposed(receivedDescriptor + k - 1)
    BY <1>1, DeliveredFrame
  <1> HIDE DEF number
  <1>11. \A i \in 1 .. Len(delivered') : delivered'[i].frame = i
    BY <1>3, <1>4, <1>9, <1>10 DEF ReceiveRingOK, Queues
  <1>12. Queues(count)'
    BY <1>1, <1>2, <1>5, <1>8, <1>11 DEF ReceiveRingOK, Queues
  <1>13. FramesReceivedAsStored'
    <2> DEFINE Right(received) ==
                   \A k \in 1 .. Len(received.parts) :
                       \/ received.parts[k] = <<received.frame, k>>
                       \/ received.parts[k] = Foreign /\ Exposed(received.at + k - 1)
    <2>1. \A i \in 1 .. Len(delivered) : Right(delivered[i])
      BY DEF FramesReceivedAsStored
    <2>2. Right(frame)
      BY <1>3, <1>10
    <2> HIDE DEF Right
    <2>3. \A i \in 1 .. Len(delivered') : Right(delivered'[i])
      <3>1. \A i \in 1 .. Len(delivered') :
                delivered'[i] = frame \/ (i \in 1 .. Len(delivered) /\ delivered'[i] = delivered[i])
        BY <1>4
      <3> QED
        BY <2>1, <2>2, <3>1
    <2>4. \A slot : Exposed(slot)' = Exposed(slot)
      BY <1>1 DEF Exposed
    <2> QED
      BY <2>3, <2>4 DEF FramesReceivedAsStored, Right
  <1> QED
    BY <1>2, <1>7, <1>12, <1>13 DEF ReceiveRingOK

(* A spill leaves the ring as it is.                                       *)
LEMMA SpillKeepsRing ==
    ASSUME ReceiveShape, NEW count \in 0 .. ReceiveSlots, ReceiveRingOK(count),
           NEW n, Spill(n)
    PROVE  ReceiveRingOK(count)'
  <1>1. UNCHANGED <<receiveRing, receivedDescriptor, poller, receiver, arrived, stored, delivered>>
    BY DEF Spill
  <1>2. /\ Occupied(count)' /\ InFrames(count)'
        /\ \A k : Place(k)' = Place(k) /\ Stored(k)' = Stored(k) /\ Number(k)' = Number(k)
    BY <1>1, SameRing DEF ReceiveRingOK
  <1>3. PassedOn' = PassedOn /\ Closed' = Closed
    BY <1>1 DEF PassedOn, Closed
  <1>4. LastNumber(count)' = LastNumber(count)
    BY <1>2, <1>3 DEF LastNumber
  <1>5. Engine(count)' /\ Queues(count)'
    BY <1>1, <1>2, <1>3, <1>4 DEF ReceiveRingOK, Engine, Queues
  <1> QED
    BY <1>2, <1>5 DEF ReceiveRingOK

(* The engine closes the first descriptor behind what is in the ring.      *)
LEMMA StoreKeepsRing ==
    ASSUME ReceiveShape, NEW count \in 0 .. ReceiveSlots, ReceiveRingOK(count),
           ReceiverStore
    PROVE  count + 1 \in 0 .. ReceiveSlots /\ ReceiveRingOK(count + 1)'
  <1>0. PICK part \in Nat : part = receiver.part
    BY ReceiveConstants DEF ReceiveShape, ReceiverRecord
  <1> DEFINE complete == receiver.part = receiver.parts
             next == Behind(receiver.at, 1)
             truncated == ~complete /\ ~Free(next)
             closes == complete \/ truncated
             new == [DMAOwnership |-> FALSE, last |-> closes, error |-> truncated,
                     holds |-> <<arrived, receiver.part>>]
  <1>1. /\ receiver \in ReceiverRecord /\ receiver.status = "Passing"
        /\ part >= 1
        /\ receiver.at = Place(count) /\ count < ReceiveSlots
        /\ arrived \in Nat /\ arrived >= 1
        /\ receiveRing \in [ReceiveSlot -> ReceiveDescriptor]
    BY <1>0, ReceiveConstants
    DEF ReceiveShape, ReceiverStore, ReceiverRecord, ReceiveRingOK, Engine
  <1>2. /\ count \in Nat /\ ReceiveSlots \in Nat /\ ReceiveSlots >= 2
        /\ count \in 0 .. ReceiveSlots - 1 /\ count + 1 \in 0 .. ReceiveSlots
    BY <1>1, ReceiveConstants
  <1>3. /\ receiveRing' = [receiveRing EXCEPT ![receiver.at] = new]
        /\ receiver' = [receiver EXCEPT
                !.at = next, !.part = @ + 1,
                !.status = IF closes THEN "Fetching" ELSE "Passing"]
        /\ stored' = IF closes THEN Append(stored, arrived) ELSE stored
        /\ UNCHANGED <<receivedDescriptor, poller, receiveLeft, arrived, delivered>>
    BY DEF ReceiverStore
  <1>4. /\ ~new.DMAOwnership /\ new.last = closes /\ new.holds = <<arrived, part>>
    BY <1>0
  <1>5. \A k : Place(k)' = Place(k)
    BY <1>3 DEF Place
  <1>6. ~closes => Free(next)
    OBVIOUS
  <1>7. closes \in BOOLEAN
    OBVIOUS
  <1> HIDE DEF new, closes, complete, truncated
  <1>8. /\ Stored(count)' = new
        /\ \A k \in 0 .. ReceiveSlots - 1 : k # count => Stored(k)' = Stored(k)
    <2>1. \A k \in 0 .. ReceiveSlots - 1 :
            Place(k) \in ReceiveSlot /\ (Place(k) = Place(count) => k = count)
      BY <1>2, PlaceIs, ReceiveConstants
    <2> QED
      BY <1>1, <1>2, <1>3, <1>5, <2>1 DEF Stored
  <1>9. /\ Number(count)' = arrived /\ PartOf(count)' = part
        /\ \A k \in 0 .. ReceiveSlots - 1 : k # count =>
                Number(k)' = Number(k) /\ PartOf(k)' = PartOf(k)
    BY <1>4, <1>8 DEF Number, PartOf
  <1>10. /\ receiver'.at = next /\ receiver'.part = part + 1
         /\ receiver'.status = IF closes THEN "Fetching" ELSE "Passing"
    BY <1>0, <1>1, <1>3 DEF ReceiverRecord
  <1> HIDE DEF next
  <1>11. next = Place(count + 1)
    <2>1. next = Behind(receiver.at, 1)
      BY DEF next
    <2> QED
      BY <1>1, <1>2, <2>1, PlaceIs
  <1>12. Occupied(count) /\ InFrames(count) /\ Engine(count) /\ Queues(count)
    BY DEF ReceiveRingOK
  <1>13. Occupied(count + 1)'
    <2>1. \A k \in 0 .. ReceiveSlots - 1 : Stored(k)'.DMAOwnership <=> k >= count + 1
      BY <1>2, <1>4, <1>8, <1>12 DEF Occupied
    <2> QED
      BY <2>1 DEF Occupied
  <1>14. /\ part = 1 => /\ count >= 1 => Stored(count - 1).last
                        /\ LastNumber(count) = arrived - 1
         /\ part > 1 => /\ count >= 1
                        /\ Stored(count - 1).holds = <<arrived, part - 1>>
                        /\ ~Stored(count - 1).last
    BY <1>0, <1>1, <1>12 DEF Engine, Closed
  <1>15. /\ Len(stored) = arrived - 1
         /\ Len(stored') = IF closes THEN arrived ELSE arrived - 1
         /\ \A i \in 1 .. Len(stored') : stored'[i] = i
    <2>1. Len(stored) = arrived - 1 /\ \A i \in 1 .. Len(stored) : stored[i] = i
      BY <1>1, <1>12 DEF Queues, Closed
    <2>2. stored \in Seq(1 .. arrived) /\ arrived \in 1 .. arrived
      BY <1>1 DEF ReceiveShape
    <2>3. /\ Len(Append(stored, arrived)) = Len(stored) + 1
          /\ \A i \in 1 .. Len(stored) : Append(stored, arrived)[i] = stored[i]
          /\ Append(stored, arrived)[Len(stored) + 1] = arrived
      BY <2>2, AppendProperties
    <2>4. CASE closes
      <3>1. stored' = Append(stored, arrived)
        BY <1>3, <2>4
      <3> QED
        BY <1>1, <2>1, <2>3, <2>4, <3>1
    <2>5. CASE ~closes
      BY <1>3, <2>1, <2>5
    <2> QED
      BY <2>4, <2>5
  <1>16. InFrames(count + 1)'
    <2> DEFINE Whole(k) ==
            /\ PartOf(k) \in 1 .. k + 1
            /\ \A i \in 0 .. PartOf(k) - 1 :
                /\ Stored(k - i).holds = <<Number(k), PartOf(k) - i>>
                /\ i > 0 => ~Stored(k - i).last
            /\ k >= PartOf(k) => /\ Stored(k - PartOf(k)).last
                                 /\ Number(k - PartOf(k)) = Number(k) - 1
            /\ Stored(k).last => Number(k) <= Len(stored)
    <2>1. ASSUME NEW k \in 0 .. count - 1
          PROVE  Whole(k)'
      <3>1. /\ k \in Nat /\ k < count /\ k \in 0 .. ReceiveSlots - 1 /\ k # count
        BY <1>2
      <3>2. /\ Number(k)' = Number(k) /\ PartOf(k)' = PartOf(k) /\ Stored(k)' = Stored(k)
        BY <1>8, <1>9, <3>1
      <3>3. /\ PartOf(k) \in 1 .. k + 1
            /\ \A i \in 0 .. PartOf(k) - 1 :
                /\ Stored(k - i).holds = <<Number(k), PartOf(k) - i>>
                /\ i > 0 => ~Stored(k - i).last
            /\ k >= PartOf(k) => /\ Stored(k - PartOf(k)).last
                                 /\ Number(k - PartOf(k)) = Number(k) - 1
            /\ Stored(k).last => Number(k) <= Len(stored)
        BY <1>12 DEF InFrames
      <3>9. PICK p \in 1 .. k + 1 : p = PartOf(k)
        BY <3>3
      <3>4. \A i \in 0 .. p - 1 : k - i \in 0 .. ReceiveSlots - 1 /\ k - i # count
        BY <1>2, <3>1
      <3>5. k >= p => k - p \in 0 .. ReceiveSlots - 1 /\ k - p # count
        BY <1>2, <3>1
      <3>6. \A i \in 0 .. p - 1 : Stored(k - i)' = Stored(k - i)
        BY <1>8, <3>4
      <3>7. k >= p => /\ Stored(k - p)' = Stored(k - p) /\ Number(k - p)' = Number(k - p)
        BY <1>8, <1>9, <3>5
      <3>8. Stored(k).last => Number(k) <= Len(stored')
        <4>1. SUFFICES ASSUME Stored(k).last
                       PROVE  Number(k) <= Len(stored')
          OBVIOUS
        <4>2. Number(k) <= arrived - 1
          BY <1>15, <3>3, <4>1
        <4>3. Number(k) \in Nat
          BY <3>1, PlaceIs, ReceiveConstants DEF ReceiveDescriptor, ReceivePart, Number
        <4> QED
          BY <1>1, <1>15, <4>2, <4>3
      <3> QED
        BY <3>2, <3>3, <3>9, <3>6, <3>7, <3>8
    <2>2. Whole(count)'
      <3>1. Stored(count)'.last => Number(count)' <= Len(stored')
        BY <1>1, <1>4, <1>8, <1>9, <1>15
      <3>2. Stored(count)'.holds = <<arrived, part>>
        BY <1>4, <1>8
      <3>3. CASE part = 1
        <4>1. \A i \in 0 .. part - 1 : i = 0
          BY <3>3
        <4>2. part \in 1 .. count + 1
          BY <1>2, <3>3
        <4>3. count >= 1 => count - 1 \in 0 .. ReceiveSlots - 1 /\ count - 1 # count
          BY <1>2
        <4>4. count >= 1 => /\ Stored(count - 1)'.last
                            /\ Number(count - 1)' = arrived - 1
          BY <1>8, <1>9, <1>14, <1>2, <3>3, <4>3 DEF LastNumber
        <4>5. count - 0 = count /\ part - 0 = part
          BY <1>1, <1>2, <3>3
        <4> QED
          BY <1>9, <3>1, <3>2, <3>3, <4>1, <4>2, <4>4, <4>5
      <3>4. CASE part > 1
        <4> DEFINE k == count - 1
                   p == part - 1
        <4>1. /\ count >= 1 /\ Stored(k).holds = <<arrived, p>> /\ ~Stored(k).last
          BY <1>14, <3>4
        <4>2. /\ k \in 0 .. count - 1 /\ k \in Nat /\ k < count
              /\ p \in Nat /\ p >= 1 /\ part = p + 1 /\ count = k + 1
          BY <1>1, <1>2, <3>4, <4>1
        <4> HIDE DEF k, p
        <4>3. Number(k) = arrived /\ PartOf(k) = p
          BY <4>1 DEF Number, PartOf
        <4>4. /\ PartOf(k) \in 1 .. k + 1
              /\ \A i \in 0 .. PartOf(k) - 1 :
                  /\ Stored(k - i).holds = <<Number(k), PartOf(k) - i>>
                  /\ i > 0 => ~Stored(k - i).last
              /\ k >= PartOf(k) => /\ Stored(k - PartOf(k)).last
                                   /\ Number(k - PartOf(k)) = Number(k) - 1
          BY <1>12, <4>2 DEF InFrames
        <4>5. part \in 1 .. count + 1
          BY <4>2, <4>3, <4>4
        <4>6. ASSUME NEW i \in 0 .. part - 1
              PROVE  /\ Stored(count - i)'.holds = <<arrived, part - i>>
                     /\ i > 0 => ~Stored(count - i)'.last
          <5>1. CASE i = 0
            <6>1. count - i = count /\ part - i = part
              BY <4>2, <5>1
            <6> QED
              BY <3>2, <5>1, <6>1
          <5>2. CASE i > 0
            <6> DEFINE j == i - 1
            <6>1. /\ j \in 0 .. p - 1 /\ count - i = k - j /\ part - i = p - j
                  /\ k - j \in 0 .. ReceiveSlots - 1 /\ k - j # count
              BY <1>2, <4>2, <4>3, <4>4, <5>2
            <6>2. j = 0 => k - j = k
              BY <4>2
            <6>3. j = 0 \/ j > 0
              BY <6>1
            <6> HIDE DEF j
            <6>4. /\ Stored(k - j).holds = <<arrived, p - j>> /\ ~Stored(k - j).last
              BY <4>1, <4>3, <4>4, <6>1, <6>2, <6>3
            <6>5. Stored(k - j)' = Stored(k - j)
              BY <1>8, <6>1
            <6> QED
              BY <6>1, <6>4, <6>5
          <5> QED
            BY <4>2, <5>1, <5>2
        <4>7. ASSUME count >= part
              PROVE  /\ Stored(count - part)'.last
                     /\ Number(count - part)' = arrived - 1
          <5>1. /\ count - part = k - p /\ k >= p
                /\ k - p \in 0 .. ReceiveSlots - 1 /\ k - p # count
            BY <1>2, <4>2, <4>7
          <5>2. Stored(k - p).last /\ Number(k - p) = arrived - 1
            BY <4>3, <4>4, <5>1
          <5>3. Stored(k - p)' = Stored(k - p) /\ Number(k - p)' = Number(k - p)
            BY <1>8, <1>9, <5>1
          <5> QED
            BY <5>1, <5>2, <5>3
        <4> QED
          BY <1>9, <3>1, <4>5, <4>6, <4>7
      <3> QED
        BY <1>0, <1>1, <3>3, <3>4
    <2> HIDE DEF Whole
    <2>3. \A k \in 0 .. (count + 1) - 1 : Whole(k)'
      <3>1. SUFFICES ASSUME NEW k \in 0 .. (count + 1) - 1
                     PROVE  Whole(k)'
        OBVIOUS
      <3>2. k = count \/ k \in 0 .. count - 1
        BY <1>2
      <3> QED
        BY <2>1, <2>2, <3>2
    <2> QED
      BY <2>3 DEF InFrames, Whole
  <1>17. (count + 1) - 1 = count /\ count + 1 # 0 /\ count + 1 >= 1 /\ count + 1 > 0
    BY <1>2
  <1>18. PassedOn' = PassedOn /\ LastNumber(count + 1)' = arrived
    <2>1. PassedOn' = PassedOn
      BY <1>3 DEF PassedOn
    <2>2. LastNumber(count + 1)' = Number((count + 1) - 1)'
      BY <1>17 DEF LastNumber
    <2> QED
      BY <1>9, <1>17, <2>1, <2>2
  <1>19. Closed' = IF closes THEN arrived ELSE arrived - 1
    BY <1>3, <1>10 DEF Closed
  <1>20. ~closes => count + 1 < ReceiveSlots
    <2>1. SUFFICES ASSUME ~closes, count + 1 = ReceiveSlots
                   PROVE  FALSE
      BY <1>2
    <2>2. receiveRing[Place(0)].DMAOwnership
      <3>1. Place(count + 1) = Place(0)
        BY <2>1, PlaceIs
      <3> QED
        BY <1>6, <1>11, <2>1, <3>1 DEF Free
    <2>3. 0 \in 0 .. ReceiveSlots - 1 /\ ~(0 >= count)
      BY <1>2, <2>1
    <2>4. ~Stored(0).DMAOwnership
      BY <1>12, <2>3 DEF Occupied
    <2> QED
      BY <2>2, <2>4 DEF Stored
  <1>21. Engine(count + 1)'
    <2>1. CASE closes
      <3>1. receiver'.status = "Fetching" /\ receiver'.at = Place(count + 1)'
        BY <1>5, <1>10, <1>11, <2>1
      <3>2. Stored((count + 1) - 1)'.last
        BY <1>4, <1>8, <1>17, <2>1
      <3>3. LastNumber(count + 1)' = Closed'
        BY <1>18, <1>19, <2>1
      <3> QED
        BY <3>1, <3>2, <3>3 DEF Engine
    <2>2. CASE ~closes
      <3>1. /\ receiver'.status = "Passing" /\ receiver'.at = Place(count + 1)'
            /\ receiver'.part = part + 1 /\ receiver'.part > 1 /\ (part + 1) - 1 = part
        BY <1>1, <1>5, <1>10, <1>11, <2>2
      <3>2. /\ Stored((count + 1) - 1)'.holds = <<arrived', receiver'.part - 1>>
            /\ ~Stored((count + 1) - 1)'.last
        BY <1>3, <1>4, <1>8, <1>17, <2>2, <3>1
      <3> QED
        BY <1>17, <1>20, <2>2, <3>1, <3>2 DEF Engine
    <2> QED
      BY <2>1, <2>2
  <1>22. Queues(count + 1)'
    <2>1. Number(0)' = PassedOn + 1
      <3>1. CASE count = 0
        <4>1. part = 1
          BY <1>1, <1>14, <3>1
        <4>2. PassedOn = arrived - 1
          BY <1>14, <3>1, <4>1 DEF LastNumber
        <4> QED
          BY <1>1, <1>9, <3>1, <4>2
      <3>2. CASE count > 0
        <4>1. 0 \in 0 .. ReceiveSlots - 1 /\ 0 # count
          BY <1>2, <3>2
        <4> QED
          BY <1>9, <1>12, <3>2, <4>1 DEF Queues
      <3> QED
        BY <1>2, <3>1, <3>2
    <2>2. Len(stored') = Closed'
      BY <1>15, <1>19
    <2>3. \A i \in 1 .. Len(delivered') :
            delivered'[i].frame = i
      BY <1>3, <1>12 DEF Queues
    <2> QED
      BY <1>15, <1>17, <1>18, <2>1, <2>2, <2>3 DEF Queues
  <1> QED
    BY <1>2, <1>13, <1>16, <1>21, <1>22 DEF ReceiveRingOK

(* The oldest frame goes back to the engine: places move down by its       *)
(* length.                                                                 *)
LEMMA GivenBack ==
    ASSUME ReceiveShape, NEW n \in 1 .. MaxParts, GiveBack(n)
    PROVE  /\ \A k \in 0 .. ReceiveSlots : k + n <= ReceiveSlots => Place(k)' = Place(k + n)
           /\ \A k \in 0 .. ReceiveSlots - 1 :
                /\ k + n < ReceiveSlots => Stored(k)' = Stored(k + n)
                /\ k + n >= ReceiveSlots => Stored(k)'.DMAOwnership
  <1>1. /\ receiveRing' =
                [slot \in ReceiveSlot |->
                    IF slot \in Returned(n)
                    THEN [receiveRing[slot] EXCEPT !.DMAOwnership = TRUE]
                    ELSE receiveRing[slot]]
        /\ receivedDescriptor' = Behind(receivedDescriptor, n)
    BY DEF GiveBack
  <1>2. /\ n \in Nat /\ n >= 1 /\ n < ReceiveSlots /\ ReceiveSlots \in Nat
        /\ n \in 0 .. ReceiveSlots /\ receivedDescriptor \in ReceiveSlot
        /\ receiveRing \in [ReceiveSlot -> ReceiveDescriptor]
    BY ReceiveConstants DEF ReceiveShape
  <1>3. \A k \in 0 .. ReceiveSlots :
            Place(k)' = IF n + k <= ReceiveSlots THEN Place(n + k)
                        ELSE Place(n + k - ReceiveSlots)
    <2>1. \A k \in 0 .. ReceiveSlots :
            Behind(Behind(receivedDescriptor, n), k) =
                IF n + k <= ReceiveSlots THEN Behind(receivedDescriptor, n + k)
                ELSE Behind(receivedDescriptor, n + k - ReceiveSlots)
      BY <1>2, BehindBehind
    <2>2. \A k : Place(k)' = Behind(Behind(receivedDescriptor, n), k)
      BY <1>1 DEF Place, Behind
    <2> QED
      BY <2>1, <2>2 DEF Place
  <1>4. \A k \in 0 .. ReceiveSlots - 1 : Place(k) \in Returned(n) <=> k \in 0 .. n - 1
    <2>1. Returned(n) = { Place(j) : j \in 0 .. n - 1 }
      BY DEF Returned, Oldest, Place
    <2>2. \A j \in 0 .. n - 1 : j \in 0 .. ReceiveSlots - 1
      BY <1>2
    <2> QED
      BY <2>1, <2>2, PlaceIs
  <1>5. ASSUME NEW k \in 0 .. ReceiveSlots - 1, k + n < ReceiveSlots
        PROVE  Stored(k)' = Stored(k + n)
    <2>1. /\ k \in 0 .. ReceiveSlots /\ n + k <= ReceiveSlots /\ n + k = k + n
          /\ k + n \in 0 .. ReceiveSlots - 1 /\ k + n \in 0 .. ReceiveSlots
          /\ k + n \notin 0 .. n - 1
      BY <1>2, <1>5
    <2>2. Place(k)' = Place(k + n)
      BY <1>3, <2>1
    <2>3. Place(k + n) \in ReceiveSlot /\ Place(k + n) \notin Returned(n)
      BY <1>4, <2>1, PlaceIs
    <2>4. receiveRing'[Place(k + n)] = receiveRing[Place(k + n)]
      BY <1>1, <2>3
    <2> QED
      BY <2>2, <2>4 DEF Stored
  <1>6. ASSUME NEW k \in 0 .. ReceiveSlots - 1, k + n >= ReceiveSlots
        PROVE  Stored(k)'.DMAOwnership
    <2> DEFINE j == k + n - ReceiveSlots
    <2>1. k \in 0 .. ReceiveSlots /\ j \in 0 .. ReceiveSlots - 1 /\ j \in 0 .. n - 1
      BY <1>2, <1>6
    <2>2. Place(k)' = Place(j)
      <3>1. CASE k + n = ReceiveSlots
        <4>1. n + k <= ReceiveSlots /\ n + k = ReceiveSlots /\ j = 0
          BY <1>2, <3>1
        <4> QED
          BY <1>3, <2>1, <4>1, PlaceIs
      <3>2. CASE k + n > ReceiveSlots
        <4>1. ~(n + k <= ReceiveSlots) /\ n + k - ReceiveSlots = j
          BY <1>2, <3>2
        <4> QED
          BY <1>3, <2>1, <4>1
      <3> QED
        BY <1>2, <1>6, <3>1, <3>2
    <2>3. Place(j) \in ReceiveSlot /\ Place(j) \in Returned(n)
      BY <1>2, <1>4, <2>1, PlaceIs
    <2> HIDE DEF j
    <2>4. receiveRing'[Place(j)] = [receiveRing[Place(j)] EXCEPT !.DMAOwnership = TRUE]
      BY <1>1, <2>3
    <2>5. receiveRing[Place(j)] \in ReceiveDescriptor
      BY <1>2, <2>3
    <2>6. receiveRing'[Place(j)].DMAOwnership
      BY <2>4, <2>5 DEF ReceiveDescriptor
    <2> QED
      BY <2>2, <2>6 DEF Stored
  <1>7. ASSUME NEW k \in 0 .. ReceiveSlots, k + n <= ReceiveSlots
        PROVE  Place(k)' = Place(k + n)
    <2>1. n + k <= ReceiveSlots /\ n + k = k + n
      BY <1>2, <1>7
    <2> QED
      BY <1>3, <2>1
  <1> QED
    BY <1>5, <1>6, <1>7

LEMMA GiveBackKeepsRing ==
    ASSUME ReceiveShape, NEW count \in 0 .. ReceiveSlots, ReceiveRingOK(count),
           NEW n \in 1 .. MaxParts, GiveBack(n)
    PROVE  count - n \in 0 .. ReceiveSlots /\ ReceiveRingOK(count - n)'
  <1>1. /\ poller = "returning" /\ poller' = "receiving" /\ FrameIn(n)
        /\ UNCHANGED <<receiver, arrived, stored, delivered>>
    BY DEF GiveBack
  <1>2. /\ n <= count /\ Stored(n - 1).last /\ Number(0) <= Len(stored)
        /\ \A k \in 0 .. n - 1 : Stored(k).holds = <<Number(0), k + 1>>
    BY <1>1, FrameIs
  <1>3. /\ n \in Nat /\ n >= 1 /\ n < ReceiveSlots /\ ReceiveSlots \in Nat
        /\ count \in Nat /\ count <= ReceiveSlots
    BY ReceiveConstants
  <1>4. /\ \A k \in 0 .. ReceiveSlots : k + n <= ReceiveSlots => Place(k)' = Place(k + n)
        /\ \A k \in 0 .. ReceiveSlots - 1 :
            /\ k + n < ReceiveSlots => Stored(k)' = Stored(k + n)
            /\ k + n >= ReceiveSlots => Stored(k)'.DMAOwnership
    BY GivenBack
  <1>5. PICK left \in 0 .. ReceiveSlots : left = count - n
    BY <1>2, <1>3
  <1>6. left \in Nat /\ count = left + n
    BY <1>2, <1>3, <1>5
  <1>7. \A k \in 0 .. left - 1 :
            k \in 0 .. ReceiveSlots - 1 /\ k + n < ReceiveSlots /\ k + n \in 0 .. count - 1
    BY <1>3, <1>6
  <1>8. \A k \in 0 .. left - 1 :
            /\ Stored(k)' = Stored(k + n) /\ Number(k)' = Number(k + n)
            /\ PartOf(k)' = PartOf(k + n)
    BY <1>4, <1>7 DEF Number, PartOf
  <1>9. Occupied(count) /\ InFrames(count) /\ Engine(count) /\ Queues(count)
    BY DEF ReceiveRingOK
  <1>10. Occupied(left)'
    <2>1. ASSUME NEW k \in 0 .. ReceiveSlots - 1
          PROVE  Stored(k)'.DMAOwnership <=> k >= left
      <3>1. CASE k + n < ReceiveSlots
        <4>1. k + n \in 0 .. ReceiveSlots - 1 /\ (k + n >= count <=> k >= left)
          BY <1>3, <1>6, <3>1
        <4>2. Stored(k + n).DMAOwnership <=> k + n >= count
          BY <1>9, <4>1 DEF Occupied
        <4> QED
          BY <1>4, <3>1, <4>1, <4>2
      <3>2. CASE k + n >= ReceiveSlots
        <4>1. k >= left
          BY <1>3, <1>6, <3>2
        <4> QED
          BY <1>4, <3>2, <4>1
      <3> QED
        BY <1>3, <3>1, <3>2
    <2> QED
      BY <2>1 DEF Occupied
  <1>11. \A k \in 0 .. count - 1 :
            /\ PartOf(k) \in 1 .. k + 1
            /\ \A i \in 0 .. PartOf(k) - 1 :
                /\ Stored(k - i).holds = <<Number(k), PartOf(k) - i>>
                /\ i > 0 => ~Stored(k - i).last
            /\ k >= PartOf(k) => /\ Stored(k - PartOf(k)).last
                                 /\ Number(k - PartOf(k)) = Number(k) - 1
            /\ Stored(k).last => Number(k) <= Len(stored)
    BY <1>9 DEF InFrames
  <1>12. InFrames(left)'
    <2> DEFINE Whole(k) ==
            /\ PartOf(k) \in 1 .. k + 1
            /\ \A i \in 0 .. PartOf(k) - 1 :
                /\ Stored(k - i).holds = <<Number(k), PartOf(k) - i>>
                /\ i > 0 => ~Stored(k - i).last
            /\ k >= PartOf(k) => /\ Stored(k - PartOf(k)).last
                                 /\ Number(k - PartOf(k)) = Number(k) - 1
            /\ Stored(k).last => Number(k) <= Len(stored)
    <2>1. ASSUME NEW k \in 0 .. left - 1
          PROVE  Whole(k)'
      <3>1. PICK K \in 0 .. count - 1 : K = k + n
        BY <1>7
      <3>2. k \in Nat /\ K \in Nat
        BY <1>3
      <3>3. /\ Stored(k)' = Stored(K) /\ Number(k)' = Number(K) /\ PartOf(k)' = PartOf(K)
        BY <1>8, <3>1
      <3>4. /\ PartOf(K) \in 1 .. K + 1
            /\ \A i \in 0 .. PartOf(K) - 1 :
                /\ Stored(K - i).holds = <<Number(K), PartOf(K) - i>>
                /\ i > 0 => ~Stored(K - i).last
            /\ K >= PartOf(K) => /\ Stored(K - PartOf(K)).last
                                 /\ Number(K - PartOf(K)) = Number(K) - 1
            /\ Stored(K).last => Number(K) <= Len(stored)
        BY <1>11
      <3>5. PICK p \in 1 .. K + 1 : p = PartOf(K)
        BY <3>4
      <3>6. p <= k + 1
        <4>1. SUFFICES ASSUME p > k + 1
                       PROVE  FALSE
          BY <3>2, <3>5
        <4>2. k + 1 \in 0 .. p - 1 /\ k + 1 > 0 /\ K - (k + 1) = n - 1
          BY <1>3, <3>1, <3>2, <4>1
        <4>3. ~Stored(K - (k + 1)).last
          BY <3>4, <3>5, <4>2
        <4> QED
          BY <1>2, <4>2, <4>3
      <3>7. \A i \in 0 .. p - 1 : k - i \in 0 .. left - 1 /\ (k - i) + n = K - i
        BY <1>3, <1>6, <3>1, <3>2, <3>5, <3>6
      <3>8. \A i \in 0 .. p - 1 : Stored(k - i)' = Stored(K - i)
        BY <1>8, <3>7
      <3>9. k >= p => /\ K >= p /\ k - p \in 0 .. left - 1 /\ (k - p) + n = K - p
        BY <1>3, <1>6, <3>1, <3>2, <3>5, <3>6
      <3>10. k >= p => Stored(k - p)' = Stored(K - p) /\ Number(k - p)' = Number(K - p)
        BY <1>8, <3>9
      <3>11. p \in 1 .. k + 1
        BY <3>2, <3>5, <3>6
      <3> QED
        BY <1>1, <3>3, <3>4, <3>5, <3>8, <3>9, <3>10, <3>11
    <2> HIDE DEF Whole
    <2>2. \A k \in 0 .. left - 1 : Whole(k)'
      BY <2>1
    <2> QED
      BY <2>2 DEF InFrames, Whole
  <1>13. /\ \A k \in 0 .. ReceiveSlots - 1 : Number(k) \in Nat
         /\ Number(0) \in Nat /\ Number(n - 1) = Number(0)
    <2>1. \A k \in 0 .. ReceiveSlots - 1 : Number(k) \in Nat
      BY PlaceIs, ReceiveConstants DEF ReceiveDescriptor, ReceivePart, Number
    <2>2. 0 \in 0 .. ReceiveSlots - 1 /\ n - 1 \in 0 .. n - 1
      BY <1>3
    <2> QED
      BY <1>2, <2>1, <2>2 DEF Number
  <1>14. /\ PassedOn = Len(delivered) - 1 /\ PassedOn' = Len(delivered)
         /\ Len(delivered) \in Nat /\ Number(0) = PassedOn + 1 /\ PassedOn' = PassedOn + 1
    <2>1. PassedOn = Len(delivered) - 1 /\ PassedOn' = Len(delivered)
      BY <1>1 DEF PassedOn
    <2>2. Len(delivered) \in Nat
      BY LenProperties DEF ReceiveShape
    <2>3. count > 0
      BY <1>2, <1>3
    <2> QED
      BY <1>9, <2>1, <2>2, <2>3 DEF Queues
  <1>15. left >= 1 => left - 1 \in 0 .. left - 1 /\ (left - 1) + n = count - 1
    BY <1>3, <1>6
  <1>16. left >= 1 => /\ Stored(left - 1)' = Stored(count - 1)
                      /\ Number(left - 1)' = Number(count - 1)
    BY <1>8, <1>15
  <1>17. left = 0 => count = n /\ Stored(count - 1).last /\ Number(count - 1) = Number(0)
    BY <1>2, <1>6, <1>13, <1>3
  <1>18. LastNumber(left)' = LastNumber(count)
    <2>1. count # 0
      BY <1>2, <1>3
    <2>2. CASE left = 0
      BY <1>14, <1>17, <2>1, <2>2 DEF LastNumber
    <2>3. CASE left # 0
      <3>1. left >= 1
        BY <1>6, <2>3
      <3> QED
        BY <1>16, <2>1, <2>3, <3>1 DEF LastNumber
    <2> QED
      BY <2>2, <2>3
  <1>19. Closed' = Closed
    BY <1>1 DEF Closed
  <1>20. Engine(left)'
    <2>1. Place(left)' = Place(count)
      BY <1>3, <1>4, <1>6
    <2>2. count < ReceiveSlots => left < ReceiveSlots
      BY <1>3, <1>6
    <2>3. count >= 1
      BY <1>2, <1>3
    <2>4. (receiver.status = "Passing" /\ receiver.part > 1) =>
              /\ Stored(count - 1).holds = <<arrived, receiver.part - 1>>
              /\ ~Stored(count - 1).last
      BY <1>9 DEF Engine
    <2>5. (receiver.status = "Passing" /\ receiver.part > 1) => left >= 1
      BY <1>6, <1>17, <2>4
    <2>6. /\ receiver.status \in {"Fetching", "Waiting", "Passing"} => receiver.at = Place(count)
          /\ receiver.status \in {"Waiting", "Passing"} => count < ReceiveSlots
          /\ ~(receiver.status = "Passing" /\ receiver.part > 1) =>
                /\ Stored(count - 1).last
                /\ LastNumber(count) = Closed
      BY <1>9, <2>3 DEF Engine
    <2> QED
      BY <1>1, <1>16, <1>18, <1>19, <2>1, <2>2, <2>4, <2>5, <2>6 DEF Engine
  <1>21. Queues(left)'
    <2>1. ASSUME left > 0
          PROVE  Number(0)' = PassedOn' + 1
      <3>1. /\ 0 \in 0 .. left - 1 /\ 0 + n = n /\ n \in 0 .. count - 1
            /\ n \in 0 .. ReceiveSlots - 1
        BY <1>3, <1>6, <2>1
      <3>2. Number(0)' = Number(n)
        BY <1>8, <3>1
      <3>3. PICK p \in 1 .. n + 1 : p = PartOf(n)
        BY <1>11, <3>1
      <3>4. p = 1
        <4>1. SUFFICES ASSUME p > 1
                       PROVE  FALSE
          BY <1>3, <3>3
        <4>2. 1 \in 0 .. p - 1 /\ 1 > 0
          BY <1>3, <3>3, <4>1
        <4>3. ~Stored(n - 1).last
          BY <1>11, <3>1, <3>3, <4>2
        <4> QED
          BY <1>2, <4>3
      <3>5. Number(n - 1) = Number(n) - 1
        BY <1>3, <1>11, <3>1, <3>3, <3>4
      <3> QED
        BY <1>13, <1>14, <3>1, <3>2, <3>5
    <2>2. /\ Len(stored') = Closed'
          /\ \A i \in 1 .. Len(stored') : stored'[i] = i
          /\ \A i \in 1 .. Len(delivered') :
                delivered'[i].frame = i
      BY <1>1, <1>9, <1>19 DEF Queues
    <2> QED
      BY <1>1, <2>1, <2>2 DEF Queues
  <1> QED
    BY <1>5, <1>10, <1>12, <1>20, <1>21 DEF ReceiveRingOK

-----------------------------------------------------------------------------
LEMMA ReceiveStepKeepsInv ==
    ASSUME ReceiveInv, [ReceiveNext]_receiveVars
    PROVE  ReceiveInv'
  <1>1. /\ ReceiveShape /\ SpillReaches /\ FramesReceivedAsStored
        /\ ReceiveShape' /\ SpillReaches'
    BY ReceiveStepKeepsShape DEF ReceiveInv
  <1>2. PICK count \in 0 .. ReceiveSlots : ReceiveRingOK(count)
    BY DEF ReceiveInv
  <1>3. ASSUME UNCHANGED delivered, spilled => spilled'
        PROVE  FramesReceivedAsStored'
    <2>1. \A i \in 1 .. Len(delivered) : \A k \in 1 .. Len(delivered[i].parts) :
              RightPart(delivered[i], k)
      BY <1>1 DEF FramesReceivedAsStored, RightPart
    <2>2. \A received, k : RightPart(received, k) => RightPart(received, k)'
      BY <1>3, RightPartStays
    <2> QED
      BY <1>3, <2>1, <2>2 DEF FramesReceivedAsStored, RightPart
  <1>4. CASE UNCHANGED receiveVars
    <2>1. UNCHANGED <<receiveRing, receivedDescriptor, poller, receiver, arrived, stored,
                      delivered, spilled>>
      BY <1>4 DEF receiveVars
    <2>2. /\ Occupied(count)' /\ InFrames(count)'
          /\ \A k : Place(k)' = Place(k) /\ Stored(k)' = Stored(k) /\ Number(k)' = Number(k)
      BY <1>2, <2>1, SameRing DEF ReceiveRingOK
    <2>3. PassedOn' = PassedOn /\ Closed' = Closed
      BY <2>1 DEF PassedOn, Closed
    <2>4. LastNumber(count)' = LastNumber(count)
      BY <2>2, <2>3 DEF LastNumber
    <2>5. Engine(count)' /\ Queues(count)'
      BY <1>2, <2>1, <2>2, <2>3, <2>4 DEF ReceiveRingOK, Engine, Queues
    <2> QED
      BY <1>1, <1>3, <2>1, <2>2, <2>5 DEF ReceiveInv, ReceiveRingOK
  <1>5. CASE ReceiverFetch \/ ReceiverSuspend \/ RestartReceiver
    <2>1. ReceiveRingOK(count)'
      BY <1>1, <1>2, <1>5, EngineKeepsRing
    <2>2. UNCHANGED <<delivered, spilled>>
      BY <1>5 DEF ReceiverFetch, ReceiverSuspend, RestartReceiver
    <2> QED
      BY <1>1, <1>3, <2>1, <2>2 DEF ReceiveInv
  <1>6. CASE \E n \in 1 .. MaxParts : Arrive(n)
    <2>1. PICK n \in 1 .. MaxParts : Arrive(n)
      BY <1>6
    <2>2. ReceiveRingOK(count)'
      BY <1>1, <1>2, <2>1, ArriveKeepsRing
    <2>3. UNCHANGED <<delivered, spilled>>
      BY <2>1 DEF Arrive
    <2> QED
      BY <1>1, <1>3, <2>2, <2>3 DEF ReceiveInv
  <1>7. CASE ReceiverStore
    <2>1. count + 1 \in 0 .. ReceiveSlots /\ ReceiveRingOK(count + 1)'
      BY <1>1, <1>2, <1>7, StoreKeepsRing
    <2>2. UNCHANGED <<delivered, spilled>>
      BY <1>7 DEF ReceiverStore
    <2> QED
      BY <1>1, <1>3, <2>1, <2>2 DEF ReceiveInv
  <1>8. CASE StartReceive \/ EndReceive
    <2>1. ReceiveRingOK(count)'
      BY <1>1, <1>2, <1>8, PollKeepsRing
    <2>2. UNCHANGED <<delivered, spilled>>
      BY <1>8 DEF StartReceive, EndReceive
    <2> QED
      BY <1>1, <1>3, <2>1, <2>2 DEF ReceiveInv
  <1>9. CASE \E n \in 1 .. MaxParts : Deliver(n)
    <2>1. PICK n \in 1 .. MaxParts : Deliver(n)
      BY <1>9
    <2>2. ReceiveRingOK(count)' /\ FramesReceivedAsStored'
      BY <1>1, <1>2, <2>1, DeliverKeepsRing
    <2> QED
      BY <1>1, <2>2 DEF ReceiveInv
  <1>10. CASE \E n \in 1 .. MaxParts : GiveBack(n)
    <2>1. PICK n \in 1 .. MaxParts : GiveBack(n)
      BY <1>10
    <2>2. count - n \in 0 .. ReceiveSlots /\ ReceiveRingOK(count - n)'
      BY <1>1, <1>2, <2>1, GiveBackKeepsRing
    <2>3. UNCHANGED <<delivered, spilled>>
      BY <2>1 DEF GiveBack
    <2> QED
      BY <1>1, <1>3, <2>2, <2>3 DEF ReceiveInv
  <1>11. CASE \E n \in 1 .. MaxSpill : Spill(n)
    <2>1. PICK n \in 1 .. MaxSpill : Spill(n)
      BY <1>11
    <2>2. ReceiveRingOK(count)'
      BY <1>1, <1>2, <2>1, SpillKeepsRing
    <2>3. UNCHANGED delivered /\ (spilled => spilled')
      BY <2>1 DEF Spill
    <2> QED
      BY <1>1, <1>3, <2>2, <2>3 DEF ReceiveInv
  <1> QED
    BY <1>4, <1>5, <1>6, <1>7, <1>8, <1>9, <1>10, <1>11 DEF ReceiveNext

(* The descriptors from the oldest on hold whole frames one behind the     *)
(* other, and the engine stands behind them.                               *)
THEOREM ReceiveInvariant == ReceiveSpec => []ReceiveInv
  BY ReceiveInitial, ReceiveStepKeepsInv, PTL DEF ReceiveSpec

(* Every variable of the receive side keeps its shape.                     *)
THEOREM ReceiveTypeCorrect == ReceiveSpec => []ReceiveTypeOK
  <1>1. ASSUME ReceiveInv
        PROVE  ReceiveTypeOK
    BY <1>1 DEF ReceiveInv, ReceiveShape, ReceiveTypeOK, ReceiveDescriptor, ReceiverRecord,
                ReceivePart, DeliveredRecord
  <1> QED
    BY <1>1, ReceiveInvariant, PTL

(* received() gets a frame as the engine stored it, for a ring and frames  *)
(* of any length: when it is called no buffer of the frame was written by  *)
(* the engine again, and none of another frame is taken for its own.  Only *)
(* what lies behind the ring's end, and the first MaxSpill buffers once a  *)
(* transmit frame has gone around the end of its own ring, is not          *)
(* promised.                                                               *)
THEOREM ReceivedAsStored == ReceiveSpec => []FramesReceivedAsStored
  <1>1. ASSUME ReceiveInv
        PROVE  FramesReceivedAsStored
    BY <1>1 DEF ReceiveInv
  <1> QED
    BY <1>1, ReceiveInvariant, PTL

-----------------------------------------------------------------------------
(* The receive ring is a queue.                                            *)
Passed == [i \in 1 .. Len(delivered) |-> delivered[i].frame]
PassedByNumber ==
    /\ Len(delivered) \in Nat
    /\ Passed \in Seq(Nat) /\ Len(Passed) = Len(delivered)
    /\ \A i \in 1 .. Len(delivered) : Passed[i] = i

(* The frames are numbered as they arrive, and so they are passed on.      *)
LEMMA PassedIs ==
    ASSUME ReceiveInv
    PROVE  PassedByNumber
  <1>1. Len(delivered) \in Nat
    BY LenProperties DEF ReceiveInv, ReceiveShape
  <1>2. \A i \in 1 .. Len(delivered) : Passed[i] = i
    BY DEF ReceiveInv, ReceiveRingOK, Queues, Passed
  <1>3. Passed \in [1 .. Len(delivered) -> Nat]
    BY <1>1, <1>2 DEF Passed
  <1> QED
    BY <1>1, <1>2, <1>3, LengthIs DEF PassedByNumber

LEMMA ReceiveQueueStep ==
    ASSUME ReceiveInv, [ReceiveNext]_receiveVars
    PROVE  [Received!QueueNext]_Received!queueVars
  <1>1. ReceiveInv'
    BY ReceiveStepKeepsInv
  <1>2. ASSUME UNCHANGED <<stored, delivered>>
        PROVE  UNCHANGED Received!queueVars
    BY <1>2 DEF Received!queueVars
  <1>3. CASE ReceiverStore
    <2>1. PICK count \in 0 .. ReceiveSlots : ReceiveRingOK(count)
      BY DEF ReceiveInv
    <2>2. UNCHANGED delivered
      BY <1>3 DEF ReceiverStore
    <2>3. CASE stored' = stored
      BY <1>2, <2>2, <2>3
    <2>4. CASE stored' = Append(stored, arrived)
      <3>1. /\ receiver.status = "Passing" /\ arrived \in 1 .. MaxArrivals
            /\ stored \in Seq(1 .. arrived)
        BY <1>3, ReceiveConstants DEF ReceiverStore, ReceiveInv, ReceiveShape
      <3>2. /\ Len(stored) = arrived - 1
            /\ \A i \in 1 .. Len(stored) : stored[i] = i
        BY <2>1, <3>1 DEF ReceiveRingOK, Queues, Closed
      <3>3. DOMAIN stored = 1 .. Len(stored)
        BY <3>1, LenProperties
      <3>4. arrived \notin Received!ToSet(stored)
        BY <3>1, <3>2, <3>3, ReceiveConstants DEF Received!ToSet
      <3>5. Received!Accept
        BY <2>2, <2>4, <3>1, <3>4 DEF Received!Accept
      <3> QED
        BY <3>5 DEF Received!QueueNext
    <2> QED
      BY <1>3, <2>3, <2>4 DEF ReceiverStore
  <1>4. CASE \E n \in 1 .. MaxParts : Deliver(n)
    <2>1. PICK n \in 1 .. MaxParts : Deliver(n)
      BY <1>4
    <2>2. PICK count \in 0 .. ReceiveSlots : ReceiveRingOK(count)
      BY DEF ReceiveInv
    <2>3. UNCHANGED stored /\ poller = "receiving" /\ FrameIn(n) /\ ReceiveShape
      BY <2>1 DEF Deliver, ReceiveInv
    <2>4. n <= count /\ Number(0) <= Len(stored)
      BY <2>2, <2>3, FrameIs
    <2>5. Number(0) = Len(delivered) + 1
      <3>1. count > 0
        BY <2>4, ReceiveConstants
      <3> QED
        BY <2>2, <2>3, <3>1 DEF ReceiveRingOK, Queues, PassedOn
    <2> DEFINE m == Len(delivered)
    <2>6. /\ m \in Nat /\ m < Len(stored) /\ Len(stored) \in Nat
          /\ stored[m + 1] = m + 1
      <3>1. m \in Nat /\ Len(stored) \in Nat
        BY <2>3, LenProperties DEF ReceiveShape
      <3>2. m + 1 \in 1 .. Len(stored)
        BY <2>4, <2>5, <3>1
      <3> QED
        BY <2>2, <2>4, <2>5, <3>1, <3>2 DEF ReceiveRingOK, Queues
    <2>7. Len(delivered') = m + 1
      BY <2>1, <2>3, AppendProperties DEF Deliver, ReceiveShape
    <2>8. /\ Passed \in Seq(Nat) /\ Len(Passed) = m
          /\ \A i \in 1 .. m : Passed[i] = i
      BY PassedIs DEF PassedByNumber
    <2>9. /\ Passed' \in Seq(Nat) /\ Len(Passed') = m + 1
          /\ \A i \in 1 .. m + 1 : Passed'[i] = i
      <3>1. PassedByNumber'
        BY <1>1, PassedIs, PTL
      <3> QED
        BY <2>7, <3>1 DEF PassedByNumber
    <2> HIDE DEF m
    <2>10. Passed' = Append(Passed, m + 1)
      <3>1. /\ Append(Passed, m + 1) \in Seq(Nat)
            /\ Len(Append(Passed, m + 1)) = m + 1
            /\ \A i \in 1 .. m : Append(Passed, m + 1)[i] = Passed[i]
            /\ Append(Passed, m + 1)[m + 1] = m + 1
        BY <2>6, <2>8, AppendProperties
      <3>2. \A i \in 1 .. m + 1 : Passed'[i] = Append(Passed, m + 1)[i]
        BY <2>6, <2>8, <2>9, <3>1
      <3> QED
        BY <2>9, <3>1, <3>2, SeqEqual
    <2>11. Passed' = Append(Passed, stored[Len(Passed) + 1]) /\ Len(Passed) < Len(stored)
      BY <2>6, <2>8, <2>10
    <2>12. Received!PassInOrder
      BY <2>3, <2>11 DEF Received!PassInOrder, Passed
    <2> QED
      BY <2>12 DEF Received!QueueNext
  <1>5. CASE ~ReceiverStore /\ ~\E n \in 1 .. MaxParts : Deliver(n)
    <2>1. UNCHANGED <<stored, delivered>>
      BY <1>5 DEF ReceiveNext, ReceiverFetch, ReceiverSuspend, Arrive, StartReceive, GiveBack,
                  Spill, EndReceive, RestartReceiver, receiveVars
    <2> QED
      BY <1>2, <2>1
  <1> QED
    BY <1>3, <1>4, <1>5

(* The driver's receive side implements FrameQueue: received() is called   *)
(* for each frame the engine stored, once, and in order of arrival.        *)
THEOREM ReceiveIsQueue == ReceiveSpec => ReceiveContract
  <1>1. ASSUME ReceiveInit
        PROVE  Received!QueueInit
    <2>1. stored = <<>> /\ delivered = <<>> /\ Len(delivered) = 0
      BY <1>1 DEF ReceiveInit
    <2>2. Passed \in Seq(Nat) /\ Len(Passed) = 0
      BY <1>1, <2>1, ReceiveInitial, PassedIs DEF PassedByNumber
    <2>3. Passed = <<>>
      BY <2>2, EmptySeq
    <2> QED
      BY <2>1, <2>3 DEF Received!QueueInit, Passed
  <1> QED
    BY <1>1, ReceiveQueueStep, ReceiveInvariant, PTL
    DEF ReceiveSpec, ReceiveContract, Received!QueueSpec

-----------------------------------------------------------------------------
(* The transmit ring.  Spots in it are counted from the oldest descriptor  *)
(* that was not taken back.                                                *)
Spot(k) == Advanced(transmitedDescriptor, k)
Owned(slot) == transmitRing[slot].DMAOwnership
Filled(slot) == transmitRing[slot].filled
Last(slot) == transmitRing[slot].last
Next1(slot) == Advanced(slot, 1)
Filling == caller = "filling"

LEMMA TransmitConstants ==
    /\ Slots \in Nat /\ Slots >= 2
    /\ MaxFragments \in Nat /\ 1 <= MaxFragments /\ MaxFragments <= Slots
    /\ MaxFrames \in Nat
    /\ 0 \in Slot /\ Slots \in Nat \ {0}
  BY TransmitSlotsAssumption, TransmitFragmentsAssumption, TransmitFramesAssumption DEF Slot

LEMMA AdvancedIs ==
    ASSUME NEW slot \in Slot, NEW k \in 0 .. Slots
    PROVE  /\ Advanced(slot, k) = IF slot + k < Slots THEN slot + k ELSE slot + k - Slots
           /\ Advanced(slot, k) \in Slot
  <1>1. slot \in 0 .. Slots - 1
    BY DEF Slot
  <1>2. Advanced(slot, k) = Turn(Slots, slot, k)
    BY DEF Advanced, Turn
  <1> QED
    BY <1>1, <1>2, TurnIs, TransmitConstants DEF Slot

LEMMA AdvancedInjective ==
    ASSUME NEW slot \in Slot, NEW other \in Slot, NEW k \in 0 .. Slots
    PROVE  /\ k < Slots /\ Advanced(slot, k) = Advanced(slot, other) => k = other
           /\ Advanced(slot, k) = Advanced(other, k) => slot = other
  <1>1. slot \in 0 .. Slots - 1 /\ other \in 0 .. Slots - 1 /\ other < Slots
    BY TransmitConstants DEF Slot
  <1>2. \A s, l : Advanced(s, l) = Turn(Slots, s, l)
    BY DEF Advanced, Turn
  <1> QED
    BY <1>1, <1>2, TurnInjective, TransmitConstants

LEMMA AdvancedAdvanced ==
    ASSUME NEW slot \in Slot, NEW n \in 0 .. Slots, NEW k \in 0 .. Slots
    PROVE  Advanced(Advanced(slot, n), k) =
              IF n + k <= Slots THEN Advanced(slot, n + k) ELSE Advanced(slot, n + k - Slots)
  <1>1. slot \in 0 .. Slots - 1
    BY DEF Slot
  <1>2. \A s, l : Advanced(s, l) = Turn(Slots, s, l)
    BY DEF Advanced, Turn
  <1> QED
    BY <1>1, <1>2, TurnTurn, TransmitConstants

(* How far a descriptor is behind another one.                             *)
Distance(slot, other) == (slot + Slots - other) % Slots

LEMMA DistanceIs ==
    ASSUME NEW slot \in Slot, NEW other \in Slot
    PROVE  /\ Distance(slot, other) \in 0 .. Slots - 1
           /\ slot = Advanced(other, Distance(slot, other))
           /\ \A k \in 0 .. Slots - 1 : slot = Advanced(other, k) => k = Distance(slot, other)
  <1> DEFINE x == slot + Slots - other
  <1>1. slot \in 0 .. Slots - 1 /\ other \in 0 .. Slots - 1
    BY DEF Slot
  <1>2. x = slot + Slots - other /\ x \in 0 .. 2 * Slots - 1
    BY <1>1, TransmitConstants
  <1>3. Distance(slot, other) = x % Slots
    BY DEF Distance
  <1> HIDE DEF x
  <1>4. x % Slots = IF x < Slots THEN x ELSE x - Slots
    BY <1>2, Wrapped, TransmitConstants
  <1> DEFINE d == Distance(slot, other)
  <1>5. d = IF slot < other THEN slot + Slots - other ELSE slot - other
    BY <1>1, <1>2, <1>3, <1>4, TransmitConstants
  <1>6. d \in 0 .. Slots - 1 /\ d \in 0 .. Slots /\ d \in Slot
    BY <1>1, <1>5, TransmitConstants DEF Slot
  <1> HIDE DEF d
  <1>7. Advanced(other, d) = IF other + d < Slots THEN other + d ELSE other + d - Slots
    BY <1>6, AdvancedIs
  <1>8. slot = Advanced(other, d)
    BY <1>1, <1>5, <1>7, TransmitConstants
  <1>9. ASSUME NEW k \in 0 .. Slots - 1, slot = Advanced(other, k)
        PROVE  k = d
    <2>1. k \in 0 .. Slots /\ k < Slots
      BY TransmitConstants
    <2>2. Advanced(other, k) = Advanced(other, d)
      BY <1>8, <1>9
    <2> QED
      BY <1>6, <2>1, <2>2, AdvancedInjective
  <1> QED
    BY <1>6, <1>8, <1>9 DEF d

-----------------------------------------------------------------------------
(* The types of the transmit side.                                         *)
TransmitPart == (0 .. MaxFrames) \X (0 .. MaxFragments)
TransmitDescriptor ==
    [DMAOwnership : BOOLEAN, filled : BOOLEAN, last : BOOLEAN, holds : TransmitPart]

TransmitShape ==
    /\ transmitRing \in [Slot -> TransmitDescriptor]
    /\ transmitedDescriptor \in Slot /\ transmitableDescriptor \in Slot
    /\ claimed \in [start : Slot, count : 0 .. MaxFragments]
    /\ caller \in {"idle", "filling", "handed", "reclaiming", "reclaimed"}
    /\ transmitLeft \in 0 .. Slots
    /\ sender \in
        [status : {"Stopped", "Fetching", "FoundNone", "Passing", "Suspended"},
         at : Slot, parts : Seq(TransmitPart)]
    /\ created \in 0 .. MaxFrames
    /\ Filling => created >= 1
    /\ handedOver \in Seq(1 .. created)
    /\ wire \in Seq(Seq(TransmitPart))

SenderRecord ==
    [status : {"Stopped", "Fetching", "FoundNone", "Passing", "Suspended"},
     at : Slot, parts : Seq(TransmitPart)]

LEMMA TransmitInitialShape ==
    ASSUME TransmitInit
    PROVE  TransmitShape
  <1>1. Vacant \in TransmitDescriptor
    BY TransmitConstants DEF Vacant, TransmitDescriptor, TransmitPart
  <1>2. transmitRing \in [Slot -> TransmitDescriptor]
    BY <1>1 DEF TransmitInit
  <1>3. /\ claimed \in [start : Slot, count : 0 .. MaxFragments]
        /\ sender \in SenderRecord
    BY TransmitConstants DEF TransmitInit, SenderRecord
  <1>4. /\ transmitedDescriptor = 0 /\ transmitableDescriptor = 0 /\ caller = "idle"
        /\ transmitLeft = 0 /\ created = 0 /\ handedOver = <<>> /\ wire = <<>>
    BY DEF TransmitInit
  <1> QED
    BY <1>2, <1>3, <1>4, TransmitConstants DEF TransmitShape, SenderRecord, Filling

(* The steps that leave the ring and what was sent as they are.            *)
Quiet ==
    \/ StartSender \/ StartReclaim \/ EndReclaim \/ StopSuspended
    \/ SenderFetch \/ SenderSuspend
    \/ UNCHANGED transmitVars

LEMMA QuietIs ==
    ASSUME TransmitShape, Quiet
    PROVE  /\ UNCHANGED <<transmitRing, transmitedDescriptor, transmitableDescriptor, created,
                          handedOver, wire>>
           /\ sender' \in SenderRecord
           /\ sender'.at = sender.at /\ sender'.parts = sender.parts
           /\ sender'.status = "Passing" => sender.status = "Passing" \/ Owned(sender.at)
           /\ Filling' = Filling /\ (Filling => UNCHANGED claimed)
           /\ claimed' \in [start : Slot, count : 0 .. MaxFragments]
           /\ caller' \in {"idle", "filling", "handed", "reclaiming", "reclaimed"}
           /\ transmitLeft' \in 0 .. Slots
  <1>1. sender \in SenderRecord
    BY DEF TransmitShape, SenderRecord
  <1>2. \A status \in {"Stopped", "Fetching", "FoundNone", "Passing", "Suspended"} :
            LET next == [sender EXCEPT !.status = status]
            IN  /\ next \in SenderRecord /\ next.status = status
                /\ next.at = sender.at /\ next.parts = sender.parts
    BY <1>1 DEF SenderRecord
  <1>3. [start |-> 0, count |-> 0] \in [start : Slot, count : 0 .. MaxFragments]
    BY TransmitConstants
  <1>4. \/ sender' = sender
        \/ \E status \in {"Stopped", "Fetching", "FoundNone", "Suspended"} :
                sender' = [sender EXCEPT !.status = status]
        \/ Owned(sender.at) /\ sender' = [sender EXCEPT !.status = "Passing"]
    <2>1. CASE StartSender
      BY <2>1 DEF StartSender
    <2>2. CASE StartReclaim
      BY <2>2 DEF StartReclaim
    <2>3. CASE EndReclaim
      BY <2>3 DEF EndReclaim
    <2>4. CASE StopSuspended
      BY <2>4 DEF StopSuspended
    <2>5. CASE SenderFetch
      <3>1. CASE Owned(sender.at)
        BY <2>5, <3>1 DEF SenderFetch, Owned, Here
      <3>2. CASE ~Owned(sender.at)
        BY <2>5, <3>2 DEF SenderFetch, Owned, Here
      <3> QED
        BY <3>1, <3>2
    <2>6. CASE SenderSuspend
      BY <2>6 DEF SenderSuspend
    <2>7. CASE UNCHANGED transmitVars
      BY <2>7 DEF transmitVars
    <2> QED
      BY <2>1, <2>2, <2>3, <2>4, <2>5, <2>6, <2>7 DEF Quiet
  <1>5. /\ sender' \in SenderRecord
        /\ sender'.at = sender.at /\ sender'.parts = sender.parts
        /\ sender'.status = "Passing" => sender.status = "Passing" \/ Owned(sender.at)
    <2>1. CASE sender' = sender
      BY <1>1, <2>1
    <2>2. CASE \E status \in {"Stopped", "Fetching", "FoundNone", "Suspended"} :
                    sender' = [sender EXCEPT !.status = status]
      BY <1>2, <2>2
    <2>3. CASE Owned(sender.at) /\ sender' = [sender EXCEPT !.status = "Passing"]
      BY <1>2, <2>3
    <2> QED
      BY <1>4, <2>1, <2>2, <2>3
  <1>6. /\ UNCHANGED <<transmitRing, transmitedDescriptor, transmitableDescriptor, created,
                       handedOver, wire>>
        /\ Filling' = Filling /\ (Filling => UNCHANGED claimed)
        /\ claimed' = claimed \/ claimed' = [start |-> 0, count |-> 0]
        /\ caller' \in {"idle", "reclaiming", "reclaimed", caller}
        /\ transmitLeft' \in {0, Slots, transmitLeft}
    BY DEF Quiet, StartSender, StartReclaim, EndReclaim, StopSuspended, SenderFetch,
           SenderSuspend, Filling, transmitVars
  <1>7. /\ claimed \in [start : Slot, count : 0 .. MaxFragments]
        /\ caller \in {"idle", "filling", "handed", "reclaiming", "reclaimed"}
        /\ transmitLeft \in 0 .. Slots
    BY DEF TransmitShape
  <1>8. claimed' \in [start : Slot, count : 0 .. MaxFragments]
    BY <1>3, <1>6, <1>7
  <1> QED
    BY <1>5, <1>6, <1>7, <1>8, TransmitConstants

(* A claimed descriptor, and the others.                                   *)
LEMMA CreateIs ==
    ASSUME TransmitShape, NEW n \in 1 .. MaxFragments, CreateFrame(n)
    PROVE  /\ transmitRing' \in [Slot -> TransmitDescriptor]
           /\ \A slot \in Slot :
                LET k == Distance(slot, transmitableDescriptor) IN
                /\ k < n => /\ Owned(slot)' = (k > 0) /\ Filled(slot)'
                            /\ Last(slot)' = (k = n - 1)
                            /\ transmitRing'[slot].holds =
                                    IF transmitableDescriptor + k < Slots
                                    THEN <<created + 1, k + 1>>
                                    ELSE transmitRing[slot].holds
                /\ k >= n => transmitRing'[slot] = transmitRing[slot]
  <1>1. /\ transmitRing' = [slot \in Slot |->
                IF Distance(slot, transmitableDescriptor) < n
                THEN Claimed(slot, Distance(slot, transmitableDescriptor), n)
                ELSE transmitRing[slot]]
        /\ created < MaxFrames
    BY DEF CreateFrame, Distance
  <1>2. /\ transmitRing \in [Slot -> TransmitDescriptor] /\ transmitableDescriptor \in Slot
        /\ created \in Nat /\ n \in Nat
    BY TransmitConstants DEF TransmitShape
  <1>3. ASSUME NEW slot \in Slot, NEW k \in 0 .. Slots - 1, k < n
        PROVE  /\ Claimed(slot, k, n) \in TransmitDescriptor
               /\ Claimed(slot, k, n).DMAOwnership = (k > 0) /\ Claimed(slot, k, n).filled
               /\ Claimed(slot, k, n).last = (k = n - 1)
               /\ Claimed(slot, k, n).holds = IF transmitableDescriptor + k < Slots
                                              THEN <<created + 1, k + 1>>
                                              ELSE transmitRing[slot].holds
    <2> DEFINE bytes == IF transmitableDescriptor + k < Slots THEN <<created + 1, k + 1>>
                        ELSE transmitRing[slot].holds
    <2>1. <<created + 1, k + 1>> \in TransmitPart
      <3>1. created + 1 \in 0 .. MaxFrames /\ k + 1 \in 0 .. MaxFragments
        BY <1>1, <1>2, <1>3, TransmitConstants
      <3> QED
        BY <3>1 DEF TransmitPart
    <2>2. transmitRing[slot].holds \in TransmitPart
      BY <1>2 DEF TransmitDescriptor
    <2>3. bytes \in TransmitPart
      BY <2>1, <2>2
    <2>4. Claimed(slot, k, n) =
            [DMAOwnership |-> k > 0, filled |-> TRUE, last |-> k = n - 1, holds |-> bytes]
      BY DEF Claimed
    <2> HIDE DEF bytes
    <2>5. /\ (k > 0) \in BOOLEAN /\ (k = n - 1) \in BOOLEAN
      OBVIOUS
    <2>6. /\ Claimed(slot, k, n) \in TransmitDescriptor
          /\ Claimed(slot, k, n).DMAOwnership = (k > 0) /\ Claimed(slot, k, n).filled
          /\ Claimed(slot, k, n).last = (k = n - 1)
          /\ Claimed(slot, k, n).holds = bytes
      BY <2>3, <2>4, <2>5 DEF TransmitDescriptor
    <2> QED
      BY <2>6 DEF bytes
  <1>4. \A slot \in Slot : Distance(slot, transmitableDescriptor) \in 0 .. Slots - 1
    BY <1>2, DistanceIs
  <1>5. ASSUME NEW slot \in Slot
        PROVE  LET k == Distance(slot, transmitableDescriptor) IN
               /\ transmitRing'[slot] \in TransmitDescriptor
               /\ k < n => /\ Owned(slot)' = (k > 0) /\ Filled(slot)'
                           /\ Last(slot)' = (k = n - 1)
                           /\ transmitRing'[slot].holds =
                                   IF transmitableDescriptor + k < Slots
                                   THEN <<created + 1, k + 1>>
                                   ELSE transmitRing[slot].holds
               /\ k >= n => transmitRing'[slot] = transmitRing[slot]
    <2> DEFINE k == Distance(slot, transmitableDescriptor)
    <2>1. k \in 0 .. Slots - 1
      BY <1>4
    <2>2. transmitRing'[slot] = IF k < n THEN Claimed(slot, k, n) ELSE transmitRing[slot]
      BY <1>1
    <2> HIDE DEF k
    <2>3. CASE k < n
      <3>1. transmitRing'[slot] = Claimed(slot, k, n) /\ ~(k >= n)
        BY <1>2, <2>1, <2>2, <2>3, TransmitConstants
      <3> QED
        BY <1>3, <2>1, <2>3, <3>1 DEF k, Owned, Filled, Last
    <2>4. CASE ~(k < n)
      BY <1>2, <2>2, <2>4 DEF k
    <2> QED
      BY <2>3, <2>4
  <1>6. transmitRing' \in [Slot -> TransmitDescriptor]
    BY <1>1, <1>5
  <1> QED
    BY <1>5, <1>6

LEMMA CreateKeepsShape ==
    ASSUME TransmitShape, NEW n \in 1 .. MaxFragments, CreateFrame(n)
    PROVE  TransmitShape'
  <1>1. /\ created < MaxFrames /\ created' = created + 1 /\ caller' = "filling"
        /\ claimed' = [start |-> transmitableDescriptor, count |-> n]
        /\ transmitableDescriptor' = Advanced(transmitableDescriptor, n)
        /\ UNCHANGED <<transmitedDescriptor, transmitLeft, sender, handedOver, wire>>
    BY DEF CreateFrame
  <1>2. transmitRing' \in [Slot -> TransmitDescriptor]
    BY CreateIs
  <1>3. /\ created \in Nat /\ created' \in 0 .. MaxFrames /\ created' >= 1
        /\ n \in 0 .. Slots /\ n \in 0 .. MaxFragments
    BY <1>1, TransmitConstants DEF TransmitShape
  <1>4. transmitableDescriptor' \in Slot
    BY <1>1, <1>3, AdvancedIs DEF TransmitShape
  <1>5. handedOver' \in Seq(1 .. created')
    <2>1. handedOver \in Seq(1 .. created) /\ 1 .. created \subseteq 1 .. created'
      BY <1>1, <1>3 DEF TransmitShape
    <2> QED
      BY <1>1, <2>1, SeqMonotonic
  <1>6. claimed' \in [start : Slot, count : 0 .. MaxFragments]
    BY <1>1, <1>3 DEF TransmitShape
  <1> QED
    BY <1>1, <1>2, <1>3, <1>4, <1>5, <1>6 DEF TransmitShape, Filling

LEMMA HandOverIs ==
    ASSUME TransmitShape, HandOver
    PROVE  /\ TransmitShape'
           /\ \A slot \in Slot :
                /\ Owned(slot)' <=> Owned(slot) \/ slot = claimed.start
                /\ Filled(slot)' = Filled(slot) /\ Last(slot)' = Last(slot)
                /\ transmitRing'[slot].holds = transmitRing[slot].holds
           /\ Len(handedOver') = Len(handedOver) + 1 /\ Len(handedOver) \in Nat
           /\ \A i \in 1 .. Len(handedOver) : handedOver'[i] = handedOver[i]
           /\ handedOver'[Len(handedOver) + 1] = created
  <1>1. /\ transmitRing' = [transmitRing EXCEPT ![claimed.start].DMAOwnership = TRUE]
        /\ handedOver' = Append(handedOver, created)
        /\ Filling /\ caller' = "handed"
        /\ UNCHANGED <<transmitedDescriptor, transmitableDescriptor, claimed,
                       transmitLeft, sender, created, wire>>
    BY DEF HandOver, Filling
  <1>2. /\ transmitRing \in [Slot -> TransmitDescriptor] /\ claimed.start \in Slot
        /\ handedOver \in Seq(1 .. created) /\ created \in 1 .. created
    BY <1>1, TransmitConstants DEF TransmitShape
  <1> DEFINE start == claimed.start
             given == [transmitRing[start] EXCEPT !.DMAOwnership = TRUE]
  <1>3. transmitRing' = [transmitRing EXCEPT ![start] = given]
    BY <1>1, <1>2
  <1>4. /\ given \in TransmitDescriptor /\ given.DMAOwnership
        /\ given.filled = transmitRing[start].filled /\ given.last = transmitRing[start].last
        /\ given.holds = transmitRing[start].holds
    BY <1>2 DEF TransmitDescriptor
  <1> HIDE DEF given, start
  <1>5. start \in Slot /\ start = claimed.start
    BY <1>2 DEF start
  <1>6. /\ transmitRing' \in [Slot -> TransmitDescriptor]
        /\ transmitRing'[start] = given
        /\ \A slot \in Slot : slot # start => transmitRing'[slot] = transmitRing[slot]
    BY <1>2, <1>3, <1>4, <1>5
  <1>7. /\ handedOver' \in Seq(1 .. created')
        /\ Len(handedOver') = Len(handedOver) + 1 /\ Len(handedOver) \in Nat
        /\ \A i \in 1 .. Len(handedOver) : handedOver'[i] = handedOver[i]
        /\ handedOver'[Len(handedOver) + 1] = created
    BY <1>1, <1>2, AppendProperties, LenProperties
  <1>8. TransmitShape'
    BY <1>1, <1>6, <1>7 DEF TransmitShape, Filling
  <1>9. \A slot \in Slot :
            /\ Owned(slot)' <=> Owned(slot) \/ slot = start
            /\ Filled(slot)' = Filled(slot) /\ Last(slot)' = Last(slot)
            /\ transmitRing'[slot].holds = transmitRing[slot].holds
    BY <1>4, <1>5, <1>6 DEF Owned, Filled, Last
  <1> QED
    BY <1>5, <1>7, <1>8, <1>9

(* What the engine gives back, and what it goes on with.                   *)
LEMMA PassIs ==
    ASSUME TransmitShape, SenderPass
    PROVE  /\ TransmitShape'
           /\ sender.at \in Slot
           /\ \A slot \in Slot :
                /\ Owned(slot)' <=> Owned(slot) /\ slot # sender.at
                /\ Filled(slot)' = Filled(slot) /\ Last(slot)' = Last(slot)
                /\ transmitRing'[slot].holds = transmitRing[slot].holds
           /\ sender'.status = "Fetching" /\ sender'.at = Next1(sender.at)
           /\ sender'.at \in Slot
           /\ Append(sender.parts, Here.holds) \in Seq(TransmitPart)
           /\ Last(sender.at) =>
                /\ sender'.parts = <<>>
                /\ wire' = Append(wire, Append(sender.parts, Here.holds))
           /\ ~Last(sender.at) =>
                /\ sender'.parts = Append(sender.parts, Here.holds)
                /\ wire' = wire
  <1> DEFINE parts == Append(sender.parts, Here.holds)
             at == sender.at
             given == [transmitRing[at] EXCEPT !.DMAOwnership = FALSE]
  <1>1. /\ wire' = IF Last(at) THEN Append(wire, parts) ELSE wire
        /\ sender' = [status |-> "Fetching", at |-> Advanced(at, 1),
                      parts |-> IF Last(at) THEN <<>> ELSE parts]
        /\ transmitRing' = [transmitRing EXCEPT ![at].DMAOwnership = FALSE]
        /\ UNCHANGED <<transmitedDescriptor, transmitableDescriptor, claimed,
                       caller, transmitLeft, created, handedOver>>
    BY DEF SenderPass, Here, Last
  <1>2. /\ transmitRing \in [Slot -> TransmitDescriptor] /\ at \in Slot
        /\ sender.parts \in Seq(TransmitPart) /\ wire \in Seq(Seq(TransmitPart))
    BY DEF TransmitShape
  <1>3. /\ transmitRing' = [transmitRing EXCEPT ![at] = given]
    BY <1>1, <1>2
  <1>4. /\ given \in TransmitDescriptor /\ ~given.DMAOwnership
        /\ given.filled = transmitRing[at].filled /\ given.last = transmitRing[at].last
        /\ given.holds = transmitRing[at].holds
        /\ Here.holds \in TransmitPart
    BY <1>2 DEF TransmitDescriptor, Here
  <1> HIDE DEF given
  <1>5. /\ transmitRing' \in [Slot -> TransmitDescriptor]
        /\ transmitRing'[at] = given
        /\ \A slot \in Slot : slot # at => transmitRing'[slot] = transmitRing[slot]
    BY <1>2, <1>3, <1>4
  <1>6. parts \in Seq(TransmitPart) /\ <<>> \in Seq(TransmitPart)
    BY <1>2, <1>4, AppendProperties, EmptySeq
  <1>7. Append(wire, parts) \in Seq(Seq(TransmitPart))
    BY <1>2, <1>6, AppendProperties
  <1>8. Next1(at) \in Slot /\ Next1(at) = Advanced(at, 1)
    BY <1>2, AdvancedIs, TransmitConstants DEF Next1
  <1> HIDE DEF parts, at
  <1>9. /\ sender' \in SenderRecord
        /\ sender'.status = "Fetching" /\ sender'.at = Next1(at)
        /\ sender'.parts = IF Last(at) THEN <<>> ELSE parts
    BY <1>1, <1>6, <1>8 DEF SenderRecord
  <1>10. TransmitShape'
    BY <1>1, <1>5, <1>7, <1>9 DEF TransmitShape, Filling, SenderRecord
  <1>11. \A slot \in Slot :
            /\ Owned(slot)' <=> Owned(slot) /\ slot # at
            /\ Filled(slot)' = Filled(slot) /\ Last(slot)' = Last(slot)
            /\ transmitRing'[slot].holds = transmitRing[slot].holds
    <2>1. at \in Slot
      BY <1>2 DEF at
    <2>2. ASSUME NEW slot \in Slot, slot = at
          PROVE  /\ ~transmitRing'[slot].DMAOwnership
                 /\ transmitRing'[slot].filled = transmitRing[slot].filled
                 /\ transmitRing'[slot].last = transmitRing[slot].last
                 /\ transmitRing'[slot].holds = transmitRing[slot].holds
      BY <1>4, <1>5, <2>2 DEF at
    <2> QED
      BY <1>5, <2>1, <2>2 DEF Owned, Filled, Last
  <1> QED
    BY <1>1, <1>2, <1>4, <1>6, <1>8, <1>9, <1>10, <1>11 DEF parts, at

LEMMA SpotIs ==
    ASSUME TransmitShape
    PROVE  /\ \A k \in 0 .. Slots : Spot(k) \in Slot
           /\ Spot(0) = transmitedDescriptor /\ Spot(Slots) = Spot(0)
           /\ \A k \in 0 .. Slots - 1 : Next1(Spot(k)) = Spot(k + 1)
           /\ \A j, k \in 0 .. Slots - 1 : Spot(j) = Spot(k) => j = k
           /\ \A slot \in Slot : \E k \in 0 .. Slots - 1 : slot = Spot(k)
           /\ \A slot, other \in Slot :
                /\ Next1(slot) \in Slot /\ Next1(slot) # slot
                /\ Next1(slot) = Next1(other) => slot = other
  <1>1. transmitedDescriptor \in Slot /\ transmitedDescriptor \in Nat
        /\ transmitedDescriptor < Slots
    BY TransmitConstants DEF TransmitShape, Slot
  <1>2. \A k \in 0 .. Slots :
            /\ Spot(k) = IF transmitedDescriptor + k < Slots THEN transmitedDescriptor + k
                         ELSE transmitedDescriptor + k - Slots
            /\ Spot(k) \in Slot
    BY <1>1, AdvancedIs DEF Spot
  <1>3. Spot(0) = transmitedDescriptor /\ Spot(Slots) = Spot(0)
    BY <1>1, <1>2, TransmitConstants
  <1>4. \A k \in 0 .. Slots - 1 : Next1(Spot(k)) = Spot(k + 1)
    <2>1. SUFFICES ASSUME NEW k \in 0 .. Slots - 1
                   PROVE  Next1(Spot(k)) = Spot(k + 1)
      OBVIOUS
    <2>2. k \in 0 .. Slots /\ 1 \in 0 .. Slots /\ k + 1 <= Slots
      BY TransmitConstants
    <2> QED
      BY <1>1, <2>2, AdvancedAdvanced DEF Spot, Next1
  <1>5. \A j, k \in 0 .. Slots - 1 : Spot(j) = Spot(k) => j = k
    <2>1. SUFFICES ASSUME NEW j \in 0 .. Slots - 1, NEW k \in 0 .. Slots - 1,
                          Spot(j) = Spot(k)
                   PROVE  j = k
      OBVIOUS
    <2>2. j \in 0 .. Slots /\ j < Slots /\ k \in Slot
      BY TransmitConstants DEF Slot
    <2> QED
      BY <1>1, <2>1, <2>2, AdvancedInjective DEF Spot
  <1>6. \A slot \in Slot : \E k \in 0 .. Slots - 1 : slot = Spot(k)
    BY <1>1, DistanceIs DEF Spot
  <1>7. ASSUME NEW slot \in Slot, NEW other \in Slot
        PROVE  /\ Next1(slot) \in Slot /\ Next1(slot) # slot
               /\ Next1(slot) = Next1(other) => slot = other
    <2>1. 1 \in 0 .. Slots
      BY TransmitConstants
    <2>2. /\ Next1(slot) = IF slot + 1 < Slots THEN slot + 1 ELSE slot + 1 - Slots
          /\ Next1(slot) \in Slot
      BY <2>1, AdvancedIs DEF Next1
    <2>3. Next1(slot) # slot
      BY <2>2, TransmitConstants DEF Slot
    <2>4. Next1(slot) = Next1(other) => slot = other
      BY <2>1, AdvancedInjective DEF Next1
    <2> QED
      BY <2>2, <2>3, <2>4
  <1> QED
    BY <1>2, <1>3, <1>4, <1>5, <1>6, <1>7

(* The descriptors of the oldest frame become vacant: spots move down by   *)
(* its length.                                                             *)
LEMMA ReclaimIs ==
    ASSUME TransmitShape, NEW n \in 1 .. MaxFragments, Reclaim(n)
    PROVE  /\ TransmitShape'
           /\ \A slot \in Slot :
                /\ Owned(slot)' = Owned(slot) /\ Last(slot)' = Last(slot)
                /\ transmitRing'[slot].holds = transmitRing[slot].holds
                /\ Filled(slot)' <=> Filled(slot) /\ ~\E k \in 0 .. n - 1 : slot = Spot(k)
           /\ \A k \in 0 .. Slots :
                Spot(k)' = IF k + n <= Slots THEN Spot(k + n) ELSE Spot(k + n - Slots)
  <1> DEFINE emptied(slot) == [transmitRing[slot] EXCEPT !.filled = FALSE]
             Gone == {Spot(k) : k \in 0 .. n - 1}
  <1>1. /\ transmitRing' = [slot \in Slot |->
                IF slot \in Gone THEN emptied(slot) ELSE transmitRing[slot]]
        /\ transmitedDescriptor' = Advanced(transmitedDescriptor, n)
        /\ transmitLeft' = transmitLeft - 1 /\ transmitLeft > 0
        /\ UNCHANGED <<transmitableDescriptor, claimed, caller, sender, created,
                       handedOver, wire>>
    BY DEF Reclaim, OldestSlots, Spot
  <1>2. /\ transmitRing \in [Slot -> TransmitDescriptor] /\ transmitedDescriptor \in Slot
        /\ n \in 0 .. Slots /\ n \in Nat /\ transmitLeft \in 0 .. Slots
    BY TransmitConstants DEF TransmitShape
  <1>3. \A slot \in Slot :
            /\ transmitRing[slot] \in TransmitDescriptor
            /\ emptied(slot) \in TransmitDescriptor
            /\ emptied(slot).DMAOwnership = transmitRing[slot].DMAOwnership
            /\ emptied(slot).last = transmitRing[slot].last
            /\ emptied(slot).holds = transmitRing[slot].holds
            /\ ~emptied(slot).filled
    BY <1>2 DEF TransmitDescriptor
  <1>4. \A slot : slot \in Gone <=> \E k \in 0 .. n - 1 : slot = Spot(k)
    OBVIOUS
  <1> HIDE DEF emptied, Gone
  <1>5. transmitRing' \in [Slot -> TransmitDescriptor]
    BY <1>1, <1>3
  <1>6. \A slot \in Slot :
            /\ Owned(slot)' = Owned(slot) /\ Last(slot)' = Last(slot)
            /\ transmitRing'[slot].holds = transmitRing[slot].holds
            /\ Filled(slot)' <=> Filled(slot) /\ slot \notin Gone
    BY <1>1, <1>3 DEF Owned, Last, Filled
  <1>7. \A k \in 0 .. Slots :
            Spot(k)' = IF k + n <= Slots THEN Spot(k + n) ELSE Spot(k + n - Slots)
    <2>1. SUFFICES ASSUME NEW k \in 0 .. Slots
                   PROVE  Spot(k)' = IF k + n <= Slots THEN Spot(k + n)
                                     ELSE Spot(k + n - Slots)
      OBVIOUS
    <2>2. Spot(k)' = Advanced(Advanced(transmitedDescriptor, n), k)
      BY <1>1 DEF Spot, Advanced
    <2>3. Advanced(Advanced(transmitedDescriptor, n), k) =
                IF n + k <= Slots THEN Advanced(transmitedDescriptor, n + k)
                ELSE Advanced(transmitedDescriptor, n + k - Slots)
      BY <1>2, AdvancedAdvanced
    <2>4. n + k = k + n
      BY <1>2, TransmitConstants
    <2>5. Advanced(Advanced(transmitedDescriptor, n), k) =
                IF k + n <= Slots THEN Advanced(transmitedDescriptor, k + n)
                ELSE Advanced(transmitedDescriptor, k + n - Slots)
      BY <1>2, <2>3, <2>4, TransmitConstants
    <2> QED
      BY <2>2, <2>5 DEF Spot
  <1>8. transmitedDescriptor' \in Slot
    BY <1>1, <1>2, AdvancedIs
  <1>9. transmitLeft' \in 0 .. Slots
    BY <1>1, <1>2, TransmitConstants
  <1>10. TransmitShape'
    BY <1>1, <1>5, <1>8, <1>9 DEF TransmitShape, Filling
  <1> QED
    BY <1>4, <1>6, <1>7, <1>10

LEMMA DropKeepsShape ==
    ASSUME TransmitShape, DropFrame
    PROVE  TransmitShape'
  <1>1. [start |-> 0, count |-> 0] \in [start : Slot, count : 0 .. MaxFragments]
    BY TransmitConstants
  <1>2. /\ claimed' = [start |-> 0, count |-> 0] /\ caller' = "idle"
        /\ UNCHANGED <<transmitRing, transmitedDescriptor, transmitableDescriptor,
                       transmitLeft, sender, created, handedOver, wire>>
    BY DEF DropFrame
  <1> QED
    BY <1>1, <1>2 DEF TransmitShape, Filling

LEMMA TransmitStepKeepsShape ==
    ASSUME TransmitShape, [TransmitNext]_transmitVars
    PROVE  TransmitShape'
  <1>1. CASE \E n \in Creatable : CreateFrame(n)
    <2>1. Creatable \subseteq 1 .. MaxFragments
      BY TransmitConstants DEF Creatable
    <2> QED
      BY <1>1, <2>1, CreateKeepsShape
  <1>2. CASE HandOver
    BY <1>2, HandOverIs
  <1>3. CASE DropFrame
    BY <1>3, DropKeepsShape
  <1>4. CASE \E n \in 1 .. MaxFragments : Reclaim(n)
    BY <1>4, ReclaimIs
  <1>5. CASE SenderPass
    BY <1>5, PassIs
  <1>6. CASE Quiet
    BY <1>6, QuietIs DEF TransmitShape, SenderRecord, Filling
  <1> QED
    BY <1>1, <1>2, <1>3, <1>4, <1>5, <1>6 DEF TransmitNext, Quiet

-----------------------------------------------------------------------------
(* What is in the transmit ring: the first count descriptors are claimed.  *)
Used(count) ==
    /\ transmitableDescriptor = Spot(count)
    /\ \A k \in 0 .. Slots - 1 : Filled(Spot(k)) <=> k < count
    /\ \A slot \in Slot : Owned(slot) => Filled(slot)

(* They hold whole frames one behind the other, in the order in which      *)
(* these were created.  frameOf and partOf say which part of which frame a *)
(* descriptor was claimed for, whatever its buffer holds.                  *)
Framed(count, frameOf, partOf) ==
    /\ count > 0 =>
        /\ partOf[Spot(0)] = 1
        /\ Last(Spot(count - 1)) /\ frameOf[Spot(count - 1)] = created
    /\ \A k \in 1 .. count - 1 :
        /\ Last(Spot(k - 1)) =>
            partOf[Spot(k)] = 1 /\ frameOf[Spot(k)] = frameOf[Spot(k - 1)] + 1
        /\ ~Last(Spot(k - 1)) =>
            /\ partOf[Spot(k)] = partOf[Spot(k - 1)] + 1
            /\ frameOf[Spot(k)] = frameOf[Spot(k - 1)]

Named(frameOf, partOf) ==
    \A slot \in Slot :
        /\ transmitRing[slot].holds[1] <= created
        /\ Filled(slot) =>
            /\ frameOf[slot] \in 1 .. created /\ partOf[slot] \in 1 .. MaxFragments
            /\ slot >= partOf[slot] - 1 =>
                transmitRing[slot].holds = <<frameOf[slot], partOf[slot]>>
            /\ slot < partOf[slot] - 1 => transmitRing[slot].holds[1] < frameOf[slot]
            /\ \A other \in Slot :
                Filled(other) /\ frameOf[other] = frameOf[slot] =>
                    /\ partOf[other] = partOf[slot] => other = slot
                    /\ Last(slot) => partOf[other] <= partOf[slot]

Given(frame) == \E i \in 1 .. Len(handedOver) : handedOver[i] = frame
Gone(frame) == \E i \in 1 .. Len(wire) : SentName(i) = frame

(* What the engine owns: the rest of a frame behind each of its            *)
(* descriptors, and nothing that was not handed over, or that was sent.    *)
Owning(frameOf) ==
    \A slot \in Slot : Owned(slot) =>
        /\ ~Last(slot) => Owned(Next1(slot)) /\ sender.at # Next1(slot)
        /\ Given(frameOf[slot]) \/ (Filling /\ frameOf[slot] = created)
        /\ ~Gone(frameOf[slot])

(* The frame in the caller's hand is the newest; the engine owns all of it *)
(* but the first descriptor, and does not stand in it.                     *)
InHand(count, frameOf, partOf) ==
    Filling =>
        /\ claimed.count \in 1 .. count
        /\ claimed.start = Spot(count - claimed.count)
        /\ ~Owned(claimed.start)
        /\ ~Last(claimed.start) =>
            Owned(Next1(claimed.start)) /\ sender.at # Next1(claimed.start)
        /\ \A k \in 0 .. count - 1 :
            /\ frameOf[Spot(k)] = created <=> k >= count - claimed.count
            /\ k >= count - claimed.count =>
                partOf[Spot(k)] = k - (count - claimed.count) + 1
        /\ Owned(sender.at) => frameOf[sender.at] # created
        /\ ~Given(created) /\ ~Gone(created)

(* The engine has in hand what is in front of its descriptor of the frame. *)
Sending(frameOf, partOf) ==
    /\ sender.status = "Passing" \/ sender.parts # <<>> => Owned(sender.at)
    /\ Owned(sender.at) =>
        /\ partOf[sender.at] = Len(sender.parts) + 1
        /\ \E m \in 0 .. Len(sender.parts) :
            /\ Len(sender.parts) > 0 => m > 0
            /\ sender.at >= Len(sender.parts) => m = Len(sender.parts)
            /\ Written(sender.parts, frameOf[sender.at], m)
        /\ \A slot \in Slot :
            Owned(slot) /\ frameOf[slot] = frameOf[sender.at] =>
                partOf[slot] >= partOf[sender.at]

Sent ==
    \A i \in 1 .. Len(wire) :
        /\ SentName(i) \in 1 .. created
        /\ \E n \in 1 .. Len(wire[i]) : Written(wire[i], SentName(i), n)

Counted == Len(handedOver) + (IF Filling THEN 1 ELSE 0) <= created

(* As long as no frame was dropped the engine stands at the first          *)
(* descriptor it owns, and what is in front of it was sent.                *)
InOrder(count, frameOf) ==
    NoFrameDropped =>
        /\ \A i \in 1 .. Len(handedOver) : handedOver[i] = i
        /\ \A i \in 1 .. Len(wire) : SentName(i) = i
        /\ \E spot \in 0 .. count :
            /\ sender.at = Spot(spot)
            /\ Filling => spot <= count - claimed.count
            /\ \A k \in 0 .. count - 1 :
                Owned(Spot(k)) <=> k >= spot /\ ~(Filling /\ k = count - claimed.count)
            /\ Len(wire) + 1 = IF spot < count THEN frameOf[Spot(spot)] ELSE created + 1

TransmitRingOK(count, frameOf, partOf) ==
    /\ Used(count) /\ Framed(count, frameOf, partOf) /\ Named(frameOf, partOf)
    /\ Owning(frameOf) /\ InHand(count, frameOf, partOf)
    /\ Sending(frameOf, partOf) /\ InOrder(count, frameOf)

TransmitInv ==
    /\ TransmitShape /\ Sent /\ Counted
    /\ \E count \in 0 .. Slots :
        \E frameOf \in [Slot -> Nat] :
            \E partOf \in [Slot -> Nat] : TransmitRingOK(count, frameOf, partOf)

-----------------------------------------------------------------------------
LEMMA TransmitInitial ==
    ASSUME TransmitInit
    PROVE  TransmitInv
  <1> DEFINE none == [slot \in Slot |-> 0]
  <1>1. TransmitShape
    BY TransmitInitialShape
  <1>2. /\ transmitedDescriptor = 0 /\ transmitableDescriptor = 0 /\ caller = "idle"
        /\ created = 0 /\ handedOver = <<>> /\ wire = <<>>
        /\ sender.status = "Stopped" /\ sender.at = 0 /\ sender.parts = <<>>
        /\ Len(handedOver) = 0 /\ Len(wire) = 0
    BY DEF TransmitInit
  <1>3. \A slot \in Slot : ~Owned(slot) /\ ~Filled(slot) /\ transmitRing[slot].holds[1] = 0
    BY DEF TransmitInit, Vacant, Owned, Filled
  <1>4. Spot(0) = 0 /\ \A k \in 0 .. Slots - 1 : Spot(k) \in Slot
    BY <1>1, <1>2, SpotIs, TransmitConstants
  <1>5. ~Filling
    BY <1>2 DEF Filling
  <1>6. Used(0)
    BY <1>2, <1>3, <1>4 DEF Used
  <1>7. Framed(0, none, none)
    BY DEF Framed
  <1>8. Named(none, none)
    BY <1>2, <1>3 DEF Named
  <1>9. Owning(none) /\ InHand(0, none, none)
    BY <1>3, <1>5 DEF Owning, InHand
  <1>10. Sending(none, none)
    BY <1>2, <1>3, TransmitConstants DEF Sending
  <1>11. InOrder(0, none)
    <2>1. sender.at = Spot(0) /\ Len(wire) + 1 = created + 1
      BY <1>2, <1>4
    <2>2. 0 \in 0 .. 0 /\ ~(0 < 0) /\ \A k \in 0 .. 0 - 1 : FALSE
      OBVIOUS
    <2> QED
      BY <1>2, <1>5, <2>1, <2>2 DEF InOrder
  <1>12. Sent /\ Counted
    BY <1>2, <1>5 DEF Sent, Counted
  <1>13. none \in [Slot -> Nat] /\ 0 \in 0 .. Slots
    BY TransmitConstants
  <1> HIDE DEF none
  <1>14. TransmitRingOK(0, none, none)
    BY <1>6, <1>7, <1>8, <1>9, <1>10, <1>11 DEF TransmitRingOK
  <1> QED
    BY <1>1, <1>12, <1>13, <1>14 DEF TransmitInv

(* Which part of which frame a descriptor was claimed for does not change. *)
LEMMA SameFrames ==
    ASSUME TransmitShape, NEW count \in 0 .. Slots, NEW frameOf, NEW partOf,
           Used(count), Framed(count, frameOf, partOf), Named(frameOf, partOf),
           UNCHANGED <<transmitedDescriptor, transmitableDescriptor, created>>,
           \A slot \in Slot :
                /\ Filled(slot)' = Filled(slot) /\ Last(slot)' = Last(slot)
                /\ transmitRing'[slot].holds = transmitRing[slot].holds
                /\ Owned(slot)' => Filled(slot)
    PROVE  /\ Used(count)' /\ Framed(count, frameOf, partOf)' /\ Named(frameOf, partOf)'
           /\ \A k : Spot(k)' = Spot(k)
  <1>1. \A k : Spot(k)' = Spot(k)
    BY DEF Spot
  <1>2. \A k \in 0 .. Slots : Spot(k) \in Slot
    BY SpotIs
  <1>3. \A k \in 0 .. count - 1 : k \in 0 .. Slots
    BY TransmitConstants
  <1>4. \A k \in 0 .. Slots : Last(Spot(k))' = Last(Spot(k)) /\ Filled(Spot(k))' = Filled(Spot(k))
    BY <1>1, <1>2 DEF Last, Filled
  <1>5. Used(count)'
    <2>1. \A k \in 0 .. Slots - 1 : Filled(Spot(k))' <=> k < count
      BY <1>4, TransmitConstants DEF Used
    <2>2. \A slot \in Slot : Owned(slot)' => Filled(slot)'
      OBVIOUS
    <2> QED
      BY <1>1, <2>1, <2>2 DEF Used
  <1>6. Framed(count, frameOf, partOf)'
    <2>1. \A k \in 1 .. count - 1 : k - 1 \in 0 .. Slots
      BY TransmitConstants
    <2>2. count > 0 => count - 1 \in 0 .. Slots
      BY TransmitConstants
    <2>3. \A k \in 1 .. count - 1 : Last(Spot(k - 1))' = Last(Spot(k - 1))
      BY <1>4, <2>1
    <2>4. count > 0 => Last(Spot(count - 1))' = Last(Spot(count - 1))
      BY <1>4, <2>2
    <2> QED
      BY <1>1, <2>3, <2>4 DEF Framed
  <1>7. Named(frameOf, partOf)'
    BY DEF Named
  <1> QED
    BY <1>1, <1>5, <1>6, <1>7

LEMMA QuietKeepsRing ==
    ASSUME TransmitShape, NEW count \in 0 .. Slots, NEW frameOf, NEW partOf,
           TransmitRingOK(count, frameOf, partOf), Quiet
    PROVE  TransmitRingOK(count, frameOf, partOf)'
  <1>1. /\ UNCHANGED <<transmitRing, transmitedDescriptor, transmitableDescriptor, created,
                       handedOver, wire>>
        /\ sender'.at = sender.at /\ sender'.parts = sender.parts
        /\ sender'.status = "Passing" => sender.status = "Passing" \/ Owned(sender.at)
        /\ Filling' = Filling /\ (Filling => UNCHANGED claimed)
    BY QuietIs
  <1>2. \A slot : /\ Owned(slot)' = Owned(slot) /\ Filled(slot)' = Filled(slot)
                  /\ Last(slot)' = Last(slot) /\ Next1(slot)' = Next1(slot)
    BY <1>1 DEF Owned, Filled, Last, Next1, Advanced
  <1>3. /\ Used(count)' /\ Framed(count, frameOf, partOf)' /\ Named(frameOf, partOf)'
        /\ \A k : Spot(k)' = Spot(k)
    BY <1>1, <1>2, SameFrames DEF TransmitRingOK, Used
  <1>4. \A f : Given(f)' = Given(f) /\ Gone(f)' = Gone(f)
    BY <1>1 DEF Given, Gone, SentName
  <1>5. Owning(frameOf)'
    BY <1>1, <1>2, <1>4 DEF TransmitRingOK, Owning
  <1>6. InHand(count, frameOf, partOf)'
    BY <1>1, <1>2, <1>3, <1>4 DEF TransmitRingOK, InHand
  <1>7. Sending(frameOf, partOf)'
    <2>1. Owned(sender.at)' = Owned(sender.at)
      BY <1>1, <1>2 DEF Owned
    <2>2. \A m : Written(sender.parts, frameOf[sender.at], m)'
                    = Written(sender.parts, frameOf[sender.at], m)
      BY <1>1 DEF Written
    <2> QED
      BY <1>1, <1>2, <2>1, <2>2 DEF TransmitRingOK, Sending
  <1>8. InOrder(count, frameOf)'
    <2>1. NoFrameDropped' = NoFrameDropped
      BY <1>1 DEF NoFrameDropped, Filling
    <2>2. \A i : SentName(i)' = SentName(i)
      BY <1>1 DEF SentName
    <2>3. \A k : Owned(Spot(k))' = Owned(Spot(k))
      BY <1>1, <1>3 DEF Owned
    <2> QED
      BY <1>1, <1>3, <2>1, <2>2, <2>3 DEF TransmitRingOK, InOrder
  <1> QED
    BY <1>3, <1>5, <1>6, <1>7, <1>8 DEF TransmitRingOK

(* A dropped frame keeps its descriptors and breaks the order.             *)
LEMMA DropKeepsRing ==
    ASSUME TransmitShape, NEW count \in 0 .. Slots, NEW frameOf, NEW partOf,
           TransmitRingOK(count, frameOf, partOf), Counted, claimed.count = 1, DropFrame
    PROVE  TransmitRingOK(count, frameOf, partOf)' /\ Counted'
  <1>1. /\ UNCHANGED <<transmitRing, transmitedDescriptor, transmitableDescriptor, created,
                       handedOver, wire, sender>>
        /\ Filling /\ ~Filling'
    BY DEF DropFrame, Filling
  <1>2. \A slot : /\ Owned(slot)' = Owned(slot) /\ Filled(slot)' = Filled(slot)
                  /\ Last(slot)' = Last(slot) /\ Next1(slot)' = Next1(slot)
    BY <1>1 DEF Owned, Filled, Last, Next1, Advanced
  <1>3. /\ Used(count)' /\ Framed(count, frameOf, partOf)' /\ Named(frameOf, partOf)'
        /\ \A k : Spot(k)' = Spot(k)
    BY <1>1, <1>2, SameFrames DEF TransmitRingOK, Used
  <1>4. \A f : Given(f)' = Given(f) /\ Gone(f)' = Gone(f)
    BY <1>1 DEF Given, Gone, SentName
  <1>5. Owning(frameOf)'
    <2>1. ASSUME NEW slot \in Slot, Owned(slot)
          PROVE  frameOf[slot] # created
      <3>1. PICK k \in 0 .. Slots - 1 : slot = Spot(k)
        BY SpotIs
      <3>2. k \in 0 .. count - 1
        BY <2>1, <3>1, TransmitConstants DEF TransmitRingOK, Used
      <3>3. ~(k >= count - 1) \/ k = count - 1
        BY <3>2, TransmitConstants
      <3>4. claimed.start = Spot(count - 1) /\ ~Owned(claimed.start)
        BY <1>1 DEF TransmitRingOK, InHand
      <3>5. k # count - 1
        BY <2>1, <3>1, <3>4
      <3> QED
        BY <1>1, <3>1, <3>2, <3>3, <3>5 DEF TransmitRingOK, InHand
    <2> QED
      BY <1>1, <1>2, <1>4, <2>1 DEF TransmitRingOK, Owning
  <1>6. InHand(count, frameOf, partOf)'
    BY <1>1 DEF InHand
  <1>7. Sending(frameOf, partOf)'
    <2>1. Owned(sender.at)' = Owned(sender.at)
      BY <1>1, <1>2 DEF Owned
    <2>2. \A m : Written(sender.parts, frameOf[sender.at], m)'
                    = Written(sender.parts, frameOf[sender.at], m)
      BY <1>1 DEF Written
    <2> QED
      BY <1>1, <1>2, <2>1, <2>2 DEF TransmitRingOK, Sending
  <1>8. /\ Len(handedOver) \in Nat /\ created \in Nat
        /\ Len(handedOver) + 1 <= created
    BY <1>1, LenProperties, TransmitConstants DEF TransmitShape, Counted
  <1>9. InOrder(count, frameOf)'
    <2>1. ~NoFrameDropped'
      BY <1>1, <1>8 DEF NoFrameDropped, Filling
    <2> QED
      BY <2>1 DEF InOrder
  <1>10. Counted'
    BY <1>1, <1>8 DEF Counted
  <1> QED
    BY <1>3, <1>5, <1>6, <1>7, <1>9, <1>10 DEF TransmitRingOK

LEMMA HandOverKeepsRing ==
    ASSUME TransmitShape, NEW count \in 0 .. Slots, NEW frameOf, NEW partOf,
           TransmitRingOK(count, frameOf, partOf), Counted, HandOver
    PROVE  TransmitRingOK(count, frameOf, partOf)' /\ Counted'
  <1>1. /\ UNCHANGED <<transmitedDescriptor, transmitableDescriptor, claimed, sender,
                       created, wire>>
        /\ Filling /\ ~Filling'
    BY DEF HandOver, Filling
  <1>2. /\ \A slot \in Slot :
            /\ Owned(slot)' <=> Owned(slot) \/ slot = claimed.start
            /\ Filled(slot)' = Filled(slot) /\ Last(slot)' = Last(slot)
            /\ transmitRing'[slot].holds = transmitRing[slot].holds
        /\ Len(handedOver') = Len(handedOver) + 1 /\ Len(handedOver) \in Nat
        /\ \A i \in 1 .. Len(handedOver) : handedOver'[i] = handedOver[i]
        /\ handedOver'[Len(handedOver) + 1] = created
    BY HandOverIs
  <1>3. PICK c \in 0 .. count - 1 : c = count - claimed.count
    <2>1. claimed.count \in 1 .. count
      BY <1>1 DEF TransmitRingOK, InHand
    <2> QED
      BY <2>1, TransmitConstants
  <1>4. /\ claimed.start = Spot(c) /\ ~Owned(claimed.start)
        /\ ~Last(claimed.start) =>
            Owned(Next1(claimed.start)) /\ sender.at # Next1(claimed.start)
        /\ \A k \in 0 .. count - 1 :
            /\ frameOf[Spot(k)] = created <=> k >= c
            /\ k >= c => partOf[Spot(k)] = k - c + 1
        /\ Owned(sender.at) => frameOf[sender.at] # created
        /\ ~Gone(created)
    BY <1>1, <1>3 DEF TransmitRingOK, InHand
  <1>5. PICK start \in Slot : start = claimed.start
    BY DEF TransmitShape
  <1>6. /\ c \in Nat /\ c >= c /\ c - c + 1 = 1 /\ c \in 0 .. Slots - 1 /\ c < count
    BY <1>3, TransmitConstants
  <1>7. Filled(start) /\ frameOf[start] = created /\ partOf[start] = 1
    BY <1>3, <1>4, <1>5, <1>6 DEF TransmitRingOK, Used
  <1>8. \A slot \in Slot : Owned(slot) => Filled(slot)
    BY DEF TransmitRingOK, Used
  <1>9. /\ Used(count)' /\ Framed(count, frameOf, partOf)' /\ Named(frameOf, partOf)'
        /\ \A k : Spot(k)' = Spot(k)
    BY <1>1, <1>2, <1>5, <1>7, <1>8, SameFrames DEF TransmitRingOK
  <1>10. Given(created)' /\ \A f : /\ Given(f) => Given(f)'
                                   /\ Gone(f)' = Gone(f)
    <2>1. \A f : Gone(f)' = Gone(f)
      BY <1>1 DEF Gone, SentName
    <2>2. \A f : Given(f) => Given(f)'
      BY <1>2 DEF Given
    <2>3. Given(created)'
      <3>1. Len(handedOver) + 1 \in 1 .. Len(handedOver')
        BY <1>2
      <3> QED
        BY <1>1, <1>2, <3>1 DEF Given
    <2> QED
      BY <2>1, <2>2, <2>3
  <1>11. \A slot \in Slot : Next1(slot)' = Next1(slot) /\ Next1(slot) \in Slot
    BY SpotIs DEF Next1, Advanced
  <1>12. Owning(frameOf)'
    <2>1. ASSUME NEW slot \in Slot, Owned(slot)'
          PROVE  /\ ~Last(slot)' => Owned(Next1(slot))' /\ sender'.at # Next1(slot)
                 /\ Given(frameOf[slot])'
                 /\ ~Gone(frameOf[slot])'
      <3>1. Owned(Next1(slot)) => Owned(Next1(slot))'
        BY <1>2, <1>11 DEF Owned, Next1, Advanced
      <3>2. CASE slot = start
        <4>1. Given(frameOf[slot])' /\ ~Gone(frameOf[slot])'
          BY <1>1, <1>4, <1>7, <1>10, <3>2
        <4> QED
          BY <1>1, <1>2, <1>4, <1>5, <3>1, <3>2, <4>1
      <3>3. CASE slot # start
        <4>1. Owned(slot)
          BY <1>2, <1>5, <2>1, <3>3
        <4>2. /\ ~Last(slot) => Owned(Next1(slot)) /\ sender.at # Next1(slot)
              /\ Given(frameOf[slot]) \/ frameOf[slot] = created
              /\ ~Gone(frameOf[slot])
          BY <4>1 DEF TransmitRingOK, Owning
        <4>3. Given(frameOf[slot])'
          BY <1>1, <1>10, <4>2
        <4> QED
          BY <1>1, <1>2, <1>10, <3>1, <4>2, <4>3
      <3> QED
        BY <3>2, <3>3
    <2> QED
      BY <2>1 DEF Owning, Next1, Advanced
  <1>13. InHand(count, frameOf, partOf)'
    BY <1>1 DEF InHand
  <1>14. sender.at \in Slot /\ sender.parts \in Seq(TransmitPart) /\ Len(sender.parts) \in Nat
    BY LenProperties DEF TransmitShape
  <1>15. Owned(sender.at)' <=> Owned(sender.at) \/ sender.at = start
    BY <1>1, <1>2, <1>5, <1>14 DEF Owned
  <1>16. Sending(frameOf, partOf)'
    <2>1. sender.status = "Passing" \/ sender.parts # <<>> => Owned(sender.at)
      BY DEF TransmitRingOK, Sending
    <2>2. CASE Owned(sender.at)
      <3>1. /\ partOf[sender.at] = Len(sender.parts) + 1
            /\ \E m \in 0 .. Len(sender.parts) :
                /\ Len(sender.parts) > 0 => m > 0
                /\ sender.at >= Len(sender.parts) => m = Len(sender.parts)
                /\ Written(sender.parts, frameOf[sender.at], m)
            /\ \A slot \in Slot :
                Owned(slot) /\ frameOf[slot] = frameOf[sender.at] =>
                    partOf[slot] >= partOf[sender.at]
        BY <2>2 DEF TransmitRingOK, Sending
      <3>2. \A slot \in Slot :
                Owned(slot)' /\ frameOf[slot] = frameOf[sender.at] =>
                    partOf[slot] >= partOf[sender.at]
        BY <1>2, <1>4, <1>5, <1>7, <2>2, <3>1
      <3>3. \A m : Written(sender.parts, frameOf[sender.at], m)'
                    = Written(sender.parts, frameOf[sender.at], m)
        BY <1>1 DEF Written
      <3> QED
        BY <1>1, <1>15, <2>1, <3>1, <3>2, <3>3 DEF Sending
    <2>3. CASE ~Owned(sender.at)
      <3>1. sender.status # "Passing" /\ sender.parts = <<>> /\ Len(sender.parts) = 0
        BY <2>1, <2>3
      <3>2. CASE sender.at = start
        <4>1. partOf[sender.at] = Len(sender.parts) + 1
          BY <1>7, <3>1, <3>2
        <4>2. 0 \in 0 .. Len(sender.parts) /\ Written(sender.parts, frameOf[sender.at], 0)'
          BY <1>1, <3>1 DEF Written
        <4>3. ASSUME NEW slot \in Slot, Owned(slot)'
              PROVE  partOf[slot] >= partOf[sender.at]
          <5>1. Filled(slot)
            BY <1>2, <1>5, <1>7, <1>8, <4>3
          <5>2. partOf[slot] \in 1 .. MaxFragments
            BY <5>1 DEF TransmitRingOK, Named
          <5> QED
            BY <3>1, <4>1, <5>2, TransmitConstants
        <4> QED
          BY <1>1, <1>15, <3>1, <3>2, <4>1, <4>2, <4>3 DEF Sending
      <3>3. CASE sender.at # start
        BY <1>1, <1>15, <2>3, <3>1, <3>3 DEF Sending
      <3> QED
        BY <3>2, <3>3
    <2> QED
      BY <2>2, <2>3
  <1>17. created \in Nat /\ Len(handedOver) + 1 <= created
    BY <1>1, TransmitConstants DEF TransmitShape, Counted
  <1>18. InOrder(count, frameOf)'
    <2>1. SUFFICES ASSUME NoFrameDropped'
                   PROVE  InOrder(count, frameOf)'
      BY DEF InOrder
    <2>2. created = Len(handedOver) + 1 /\ NoFrameDropped
      BY <1>1, <1>2, <1>17, <2>1 DEF NoFrameDropped, Filling
    <2>3. /\ \A i \in 1 .. Len(handedOver) : handedOver[i] = i
          /\ \A i \in 1 .. Len(wire) : SentName(i) = i
      BY <2>2 DEF TransmitRingOK, InOrder
    <2>4. PICK spot \in 0 .. count :
            /\ sender.at = Spot(spot)
            /\ Filling => spot <= count - claimed.count
            /\ \A k \in 0 .. count - 1 :
                Owned(Spot(k)) <=> k >= spot /\ ~(Filling /\ k = count - claimed.count)
            /\ Len(wire) + 1 = IF spot < count THEN frameOf[Spot(spot)] ELSE created + 1
      BY <2>2 DEF TransmitRingOK, InOrder
    <2>5. \A i \in 1 .. Len(handedOver') : handedOver'[i] = i
      BY <1>2, <2>2, <2>3
    <2>6. \A i \in 1 .. Len(wire') : SentName(i)' = i
      BY <1>1, <2>3 DEF SentName
    <2>7. ASSUME NEW k \in 0 .. count - 1
          PROVE  Owned(Spot(k))' <=> k >= spot
      <3>1. Spot(k) \in Slot /\ k \in 0 .. Slots - 1
        BY SpotIs, TransmitConstants
      <3>2. Owned(Spot(k))' <=> Owned(Spot(k)) \/ Spot(k) = start
        BY <1>2, <1>5, <1>9, <3>1 DEF Owned
      <3>3. Spot(k) = start <=> k = c
        BY <1>4, <1>5, <1>6, <3>1, SpotIs
      <3>4. spot <= c
        BY <1>1, <1>3, <2>4
      <3>5. Owned(Spot(k)) <=> k >= spot /\ k # c
        BY <1>1, <1>3, <2>4
      <3> QED
        BY <3>2, <3>3, <3>4, <3>5
    <2>8. sender'.at = Spot(spot)'
      BY <1>1, <1>9, <2>4
    <2>9. Len(wire') + 1 = IF spot < count THEN frameOf[Spot(spot)'] ELSE created' + 1
      BY <1>1, <1>9, <2>4
    <2> QED
      BY <1>1, <2>5, <2>6, <2>7, <2>8, <2>9 DEF InOrder
  <1>19. Counted'
    BY <1>1, <1>2, <1>17 DEF Counted
  <1> QED
    BY <1>9, <1>12, <1>13, <1>16, <1>18, <1>19 DEF TransmitRingOK

LEMMA ReclaimKeepsRing ==
    ASSUME TransmitShape, NEW count \in 0 .. Slots, NEW frameOf, NEW partOf,
           TransmitRingOK(count, frameOf, partOf), NEW n \in 1 .. MaxFragments, Reclaim(n)
    PROVE  count - n \in 0 .. Slots /\ TransmitRingOK(count - n, frameOf, partOf)'
  <1>1. /\ UNCHANGED <<transmitableDescriptor, claimed, sender, created, handedOver, wire>>
        /\ ~Filling /\ ~Filling' /\ OldestSent(n)
    BY DEF Reclaim, Filling
  <1>2. /\ n \in Nat /\ n >= 1 /\ n <= Slots /\ Slots \in Nat
        /\ count \in Nat /\ count <= Slots
    BY TransmitConstants
  <1>3. /\ \A slot \in Slot :
            /\ Owned(slot)' = Owned(slot) /\ Last(slot)' = Last(slot)
            /\ transmitRing'[slot].holds = transmitRing[slot].holds
            /\ Filled(slot)' <=> Filled(slot) /\ ~\E k \in 0 .. n - 1 : slot = Spot(k)
        /\ \A k \in 0 .. Slots :
            Spot(k)' = IF k + n <= Slots THEN Spot(k + n) ELSE Spot(k + n - Slots)
    BY ReclaimIs
  <1>4. /\ Used(count) /\ Framed(count, frameOf, partOf) /\ Named(frameOf, partOf)
        /\ Owning(frameOf) /\ Sending(frameOf, partOf) /\ InOrder(count, frameOf)
    BY DEF TransmitRingOK
  <1>5. /\ \A k \in 0 .. n - 1 : ~Owned(Spot(k)) /\ Filled(Spot(k))
        /\ Last(Spot(n - 1))
    <2>1. n - 1 \in 0 .. n - 1
      BY <1>2
    <2> QED
      BY <1>1, <2>1 DEF OldestSent, OldestSlots, Spot, Owned, Filled, Last
  <1>6. n <= count
    <2>1. n - 1 \in 0 .. n - 1 /\ n - 1 \in 0 .. Slots - 1
      BY <1>2
    <2>2. n - 1 < count
      BY <1>4, <1>5, <2>1 DEF Used
    <2> QED
      BY <1>2, <2>2
  <1>7. PICK left \in 0 .. Slots : left = count - n
    BY <1>2, <1>6
  <1>8. left \in Nat /\ count = left + n
    BY <1>2, <1>7
  <1>9. \A k \in 0 .. left : k + n <= Slots /\ k \in 0 .. Slots /\ k + n \in 0 .. count
    BY <1>2, <1>8
  <1>10. \A k \in 0 .. left : Spot(k)' = Spot(k + n)
    BY <1>3, <1>9
  <1>11. \A k \in 0 .. Slots : Spot(k) \in Slot
    BY SpotIs
  <1>12. Used(left)'
    <2>1. transmitableDescriptor' = Spot(left)'
      <3>1. left \in 0 .. left /\ left + n = count
        BY <1>8
      <3>2. Spot(left)' = Spot(left + n)
        BY <1>10, <3>1
      <3> QED
        BY <1>1, <1>4, <3>1, <3>2 DEF Used
    <2>2. ASSUME NEW k \in 0 .. Slots - 1
          PROVE  Filled(Spot(k))' <=> k < left
      <3>1. CASE k + n < Slots
        <4>1. PICK j \in 0 .. Slots - 1 : j = k + n
          BY <1>2, <3>1
        <4>2. /\ Spot(k)' = Spot(j) /\ j \in 0 .. Slots /\ (j < count <=> k < left)
          BY <1>2, <1>3, <1>8, <3>1, <4>1
        <4>3. ~\E i \in 0 .. n - 1 : Spot(j) = Spot(i)
          <5>1. ASSUME NEW i \in 0 .. n - 1, Spot(j) = Spot(i)
                PROVE  FALSE
            <6>1. i \in 0 .. Slots - 1 /\ j # i
              BY <1>2, <4>1
            <6> QED
              BY <5>1, <6>1, SpotIs
          <5> QED
            BY <5>1
        <4>4. transmitRing'[Spot(j)].filled <=> Filled(Spot(j))
          BY <1>3, <1>11, <4>2, <4>3 DEF Filled
        <4>5. Filled(Spot(j)) <=> j < count
          BY <1>4, <4>1 DEF Used
        <4> QED
          BY <4>2, <4>4, <4>5 DEF Filled
      <3>2. CASE k + n >= Slots
        <4>1. PICK j \in 0 .. n - 1 : j = k + n - Slots
          BY <1>2, <3>2
        <4>2. Spot(k)' = Spot(j)
          <5>1. CASE k + n = Slots
            <6>1. k \in 0 .. Slots /\ j = 0 /\ k + n <= Slots
              BY <1>2, <4>1, <5>1
            <6> QED
              BY <1>3, <5>1, <6>1, SpotIs
          <5>2. CASE k + n > Slots
            <6>1. k \in 0 .. Slots /\ ~(k + n <= Slots)
              BY <1>2, <5>2
            <6> QED
              BY <1>3, <4>1, <6>1
          <5> QED
            BY <1>2, <3>2, <5>1, <5>2
        <4>3. j \in 0 .. Slots /\ ~(k < left)
          BY <1>2, <1>8, <3>2, <4>1
        <4>4. ~transmitRing'[Spot(j)].filled
          BY <1>3, <1>11, <4>1, <4>3 DEF Filled
        <4> QED
          BY <4>2, <4>3, <4>4 DEF Filled
      <3> QED
        BY <1>2, <3>1, <3>2
    <2>3. ASSUME NEW slot \in Slot, Owned(slot)'
          PROVE  Filled(slot)'
      <3>1. Owned(slot) /\ Filled(slot)
        BY <1>3, <1>4, <2>3 DEF Used
      <3>2. ~\E k \in 0 .. n - 1 : slot = Spot(k)
        BY <1>5, <3>1
      <3> QED
        BY <1>3, <3>1, <3>2
    <2> QED
      BY <2>1, <2>2, <2>3 DEF Used
  <1>13. \A k \in 0 .. left - 1 :
            /\ k \in 0 .. left /\ k + n \in 0 .. Slots
            /\ Last(Spot(k))' = Last(Spot(k + n)) /\ Owned(Spot(k))' = Owned(Spot(k + n))
    <2>1. SUFFICES ASSUME NEW k \in 0 .. left - 1
                   PROVE  /\ k \in 0 .. left /\ k + n \in 0 .. Slots
                          /\ Last(Spot(k))' = Last(Spot(k + n))
                          /\ Owned(Spot(k))' = Owned(Spot(k + n))
      OBVIOUS
    <2>2. k \in 0 .. left /\ k + n \in 0 .. Slots
      BY <1>2, <1>8
    <2>3. Spot(k + n) \in Slot /\ Spot(k)' = Spot(k + n)
      BY <1>10, <1>11, <2>2
    <2> QED
      BY <1>3, <2>2, <2>3 DEF Last, Owned
  <1>14. Framed(left, frameOf, partOf)'
    <2>1. ASSUME left > 0
          PROVE  /\ partOf[Spot(0)'] = 1
                 /\ Last(Spot(left - 1))' /\ frameOf[Spot(left - 1)'] = created'
      <3>1. /\ 0 \in 0 .. left /\ 0 + n = n /\ left - 1 \in 0 .. left - 1
            /\ left - 1 \in 0 .. left /\ (left - 1) + n = count - 1
            /\ n \in 1 .. count - 1 /\ count > 0
        BY <1>2, <1>8, <2>1
      <3>2. Spot(0)' = Spot(n) /\ Spot(left - 1)' = Spot(count - 1)
        BY <1>10, <3>1
      <3>3. partOf[Spot(n)] = 1
        BY <1>4, <1>5, <3>1 DEF Framed
      <3>4. Last(Spot(left - 1))' = Last(Spot(count - 1))
        BY <1>13, <3>1
      <3> QED
        BY <1>1, <1>4, <3>1, <3>2, <3>3, <3>4 DEF Framed
    <2>2. ASSUME NEW k \in 1 .. left - 1
          PROVE  /\ Last(Spot(k - 1))' =>
                        /\ partOf[Spot(k)'] = 1
                        /\ frameOf[Spot(k)'] = frameOf[Spot(k - 1)'] + 1
                 /\ ~Last(Spot(k - 1))' =>
                        /\ partOf[Spot(k)'] = partOf[Spot(k - 1)'] + 1
                        /\ frameOf[Spot(k)'] = frameOf[Spot(k - 1)']
      <3>1. PICK j \in 1 .. count - 1 : j = k + n
        BY <1>2, <1>8
      <3>2. /\ k \in 0 .. left /\ k - 1 \in 0 .. left /\ k - 1 \in 0 .. left - 1
            /\ (k - 1) + n = j - 1
        BY <1>2, <1>8, <3>1
      <3>3. Spot(k)' = Spot(j) /\ Spot(k - 1)' = Spot(j - 1)
        BY <1>10, <3>1, <3>2
      <3>4. Last(Spot(k - 1))' = Last(Spot(j - 1))
        BY <1>13, <3>2
      <3> QED
        BY <1>4, <3>1, <3>3, <3>4 DEF Framed
    <2> QED
      BY <2>1, <2>2 DEF Framed
  <1>15. Named(frameOf, partOf)'
    BY <1>1, <1>3, <1>4 DEF Named
  <1>16. \A f : Given(f)' = Given(f) /\ Gone(f)' = Gone(f)
    BY <1>1 DEF Given, Gone, SentName
  <1>17. \A slot \in Slot : /\ Next1(slot)' = Next1(slot)
                            /\ Owned(Next1(slot))' = Owned(Next1(slot))
    BY <1>3, SpotIs DEF Next1, Advanced, Owned
  <1>18. Owning(frameOf)'
    BY <1>1, <1>3, <1>4, <1>16, <1>17 DEF Owning
  <1>19. InHand(left, frameOf, partOf)'
    BY <1>1 DEF InHand
  <1>20. Sending(frameOf, partOf)'
    <2>1. Owned(sender.at)' = Owned(sender.at)
      BY <1>1, <1>3 DEF Owned, TransmitShape
    <2>2. \A m : Written(sender.parts, frameOf[sender.at], m)'
                    = Written(sender.parts, frameOf[sender.at], m)
      BY <1>1 DEF Written
    <2> QED
      BY <1>1, <1>3, <1>4, <2>1, <2>2 DEF Sending
  <1>21. InOrder(left, frameOf)'
    <2>1. SUFFICES ASSUME NoFrameDropped'
                   PROVE  InOrder(left, frameOf)'
      BY DEF InOrder
    <2>2. NoFrameDropped
      BY <1>1, <2>1 DEF NoFrameDropped, Filling
    <2>3. PICK spot \in 0 .. count :
            /\ sender.at = Spot(spot)
            /\ \A k \in 0 .. count - 1 : Owned(Spot(k)) <=> k >= spot
            /\ Len(wire) + 1 = IF spot < count THEN frameOf[Spot(spot)] ELSE created + 1
      BY <1>1, <1>4, <2>2 DEF InOrder
    <2>4. spot >= n
      <3>1. n - 1 \in 0 .. n - 1 /\ n - 1 \in 0 .. count - 1
        BY <1>2, <1>6
      <3>2. ~(n - 1 >= spot)
        BY <1>5, <2>3, <3>1
      <3> QED
        BY <1>2, <3>2
    <2>5. PICK s \in 0 .. left : s = spot - n
      BY <1>2, <1>8, <2>4
    <2>6. s + n = spot /\ (s < left <=> spot < count)
      BY <1>2, <1>8, <2>5
    <2>7. Spot(s)' = Spot(spot)
      BY <1>10, <2>6
    <2>8. ASSUME NEW k \in 0 .. left - 1
          PROVE  Owned(Spot(k))' <=> k >= s
      <3>1. k + n \in 0 .. count - 1 /\ (k + n >= spot <=> k >= s)
        BY <1>2, <1>8, <2>5
      <3>2. Owned(Spot(k))' = Owned(Spot(k + n))
        BY <1>13
      <3> QED
        BY <2>3, <3>1, <3>2
    <2>9. /\ \A i \in 1 .. Len(handedOver') : handedOver'[i] = i
          /\ \A i \in 1 .. Len(wire') : SentName(i)' = i
      BY <1>1, <1>4, <2>2 DEF InOrder, SentName
    <2>10. /\ sender'.at = Spot(s)'
           /\ Len(wire') + 1 = IF s < left THEN frameOf[Spot(s)'] ELSE created' + 1
      BY <1>1, <2>3, <2>6, <2>7
    <2> QED
      BY <1>1, <2>8, <2>9, <2>10 DEF InOrder
  <1> QED
    BY <1>7, <1>12, <1>14, <1>15, <1>18, <1>19, <1>20, <1>21 DEF TransmitRingOK

(* Behind a claimed descriptor is the next part of its frame or the first  *)
(* part of another one.                                                    *)
LEMMA Following ==
    ASSUME TransmitShape, NEW count \in 0 .. Slots, NEW frameOf, NEW partOf,
           Used(count), Framed(count, frameOf, partOf),
           NEW slot \in Slot, Filled(slot)
    PROVE  /\ ~Last(slot) => /\ Filled(Next1(slot))
                             /\ partOf[Next1(slot)] = partOf[slot] + 1
                             /\ frameOf[Next1(slot)] = frameOf[slot]
           /\ Last(slot) /\ Filled(Next1(slot)) => partOf[Next1(slot)] = 1
  <1>1. PICK k \in 0 .. Slots - 1 : slot = Spot(k)
    BY SpotIs
  <1>2. k < count
    BY <1>1 DEF Used
  <1>3. Next1(slot) = Spot(k + 1)
    BY <1>1, SpotIs
  <1>4. /\ k \in Nat /\ count \in Nat /\ Slots \in Nat /\ count <= Slots
        /\ k + 1 - 1 = k
    BY TransmitConstants
  <1>5. CASE k + 1 < count
    <2>1. PICK j \in 1 .. count - 1 : j = k + 1
      BY <1>4, <1>5
    <2>2. j \in 0 .. Slots - 1 /\ j < count /\ j - 1 = k
      BY <1>4, <1>5, <2>1
    <2>3. Filled(Spot(j))
      BY <2>2 DEF Used
    <2> QED
      BY <1>1, <1>3, <2>1, <2>2, <2>3 DEF Framed
  <1>6. CASE k + 1 = count
    <2>1. k = count - 1 /\ count > 0
      BY <1>4, <1>6
    <2>2. Last(slot) /\ partOf[Spot(0)] = 1
      BY <1>1, <2>1 DEF Framed
    <2>3. CASE count = Slots
      BY <1>3, <1>6, <2>2, <2>3, SpotIs
    <2>4. CASE count < Slots
      <3>1. count \in 0 .. Slots - 1 /\ ~(count < count)
        BY <1>4, <2>4
      <3>2. ~Filled(Next1(slot))
        BY <1>3, <1>6, <3>1 DEF Used
      <3> QED
        BY <2>2, <3>2
    <2> QED
      BY <1>4, <2>3, <2>4
  <1> QED
    BY <1>2, <1>4, <1>5, <1>6

(* What the engine has of a frame once it has read its next part.          *)
LEMMA WrittenFurther ==
    ASSUME NEW parts \in Seq(TransmitPart), NEW frame, NEW m \in 0 .. Len(parts),
           Written(parts, frame, m), NEW bytes \in TransmitPart, NEW at \in Nat,
           Len(parts) > 0 => m > 0,
           at >= Len(parts) => m = Len(parts),
           at >= Len(parts) => bytes = <<frame, Len(parts) + 1>>,
           at < Len(parts) => bytes[1] < frame
    PROVE  LET whole == Append(parts, bytes) IN
           /\ Len(whole) = Len(parts) + 1
           /\ whole[1] = <<frame, 1>>
           /\ \E next \in 1 .. Len(whole) :
                /\ at + 1 >= Len(whole) => next = Len(whole)
                /\ Written(whole, frame, next)
  <1> DEFINE whole == Append(parts, bytes)
  <1>1. /\ Len(parts) \in Nat /\ Len(whole) = Len(parts) + 1
        /\ whole[Len(parts) + 1] = bytes
        /\ \A k \in 1 .. Len(parts) : whole[k] = parts[k]
    BY AppendProperties, LenProperties
  <1> HIDE DEF whole
  <1>2. CASE at >= Len(parts)
    <2>1. m = Len(parts) /\ bytes = <<frame, Len(parts) + 1>>
      BY <1>2
    <2>2. ASSUME NEW k \in 1 .. Len(whole)
          PROVE  whole[k] = <<frame, k>>
      <3>1. CASE k = Len(parts) + 1
        BY <1>1, <2>1, <3>1
      <3>2. CASE k # Len(parts) + 1
        <4>1. k \in 1 .. Len(parts) /\ k <= m
          BY <1>1, <2>1, <3>2
        <4> QED
          BY <1>1, <4>1 DEF Written
      <3> QED
        BY <3>1, <3>2
    <2>3. \A k \in 1 .. Len(whole) : k <= Len(whole)
      BY <1>1
    <2>4. Written(whole, frame, Len(whole))
      BY <2>2, <2>3 DEF Written
    <2>5. Len(whole) \in 1 .. Len(whole) /\ 1 \in 1 .. Len(whole)
      BY <1>1
    <2> QED
      BY <1>1, <2>2, <2>4, <2>5 DEF whole
  <1>3. CASE at < Len(parts)
    <2>1. /\ m > 0 /\ m \in 1 .. Len(whole) /\ 1 \in 1 .. Len(parts) /\ 1 <= m
          /\ ~(at + 1 >= Len(whole)) /\ m <= Len(parts)
      BY <1>1, <1>3
    <2>2. whole[1] = <<frame, 1>>
      BY <1>1, <2>1 DEF Written
    <2>3. ASSUME NEW k \in 1 .. Len(whole)
          PROVE  IF k <= m THEN whole[k] = <<frame, k>> ELSE whole[k][1] < frame
      <3>1. CASE k = Len(parts) + 1
        <4>1. ~(k <= m) /\ whole[k] = bytes
          BY <1>1, <2>1, <3>1
        <4> QED
          BY <1>3, <4>1
      <3>2. CASE k # Len(parts) + 1
        <4>1. k \in 1 .. Len(parts)
          BY <1>1, <3>2
        <4> QED
          BY <1>1, <4>1 DEF Written
      <3> QED
        BY <3>1, <3>2
    <2>4. Written(whole, frame, m)
      BY <2>3 DEF Written
    <2> QED
      BY <1>1, <2>1, <2>2, <2>4 DEF whole
  <1> QED
    BY <1>1, <1>2, <1>3

(* What the engine has of the frame when it goes on.                       *)
LEMMA PassingIs ==
    ASSUME TransmitShape, NEW count \in 0 .. Slots, NEW frameOf, NEW partOf,
           TransmitRingOK(count, frameOf, partOf), sender.status = "Passing"
    PROVE  LET whole == Append(sender.parts, Here.holds) IN
           /\ Owned(sender.at) /\ Filled(sender.at)
           /\ frameOf[sender.at] \in 1 .. created
           /\ Len(whole) = Len(sender.parts) + 1
           /\ whole[1] = <<frameOf[sender.at], 1>>
           /\ \E n \in 1 .. Len(whole) :
                /\ sender.at + 1 >= Len(whole) => n = Len(whole)
                /\ Written(whole, frameOf[sender.at], n)
  <1>1. Used(count) /\ Named(frameOf, partOf) /\ Sending(frameOf, partOf)
    BY DEF TransmitRingOK
  <1>2. PICK at \in Slot : at = sender.at
    BY DEF TransmitShape
  <1>3. PICK parts \in Seq(TransmitPart) : parts = sender.parts
    BY DEF TransmitShape
  <1>4. Owned(at) /\ Filled(at)
    BY <1>1, <1>2 DEF Used, Sending
  <1>5. PICK frame : frame = frameOf[at] /\ frame \in 1 .. created
    BY <1>1, <1>4 DEF Named
  <1>6. Len(parts) \in Nat /\ partOf[at] = Len(parts) + 1
    BY <1>1, <1>2, <1>3, <1>4, LenProperties DEF Sending
  <1>7. PICK m \in 0 .. Len(parts) :
            /\ Len(parts) > 0 => m > 0
            /\ at >= Len(parts) => m = Len(parts)
            /\ Written(parts, frame, m)
    BY <1>1, <1>2, <1>3, <1>4, <1>5 DEF Sending
  <1>8. PICK bytes \in TransmitPart : bytes = Here.holds /\ bytes = transmitRing[at].holds
    BY <1>2 DEF TransmitShape, TransmitDescriptor, Here
  <1>9. /\ at >= partOf[at] - 1 => bytes = <<frame, partOf[at]>>
        /\ at < partOf[at] - 1 => bytes[1] < frame
    BY <1>1, <1>4, <1>5, <1>8 DEF Named
  <1>10. partOf[at] - 1 = Len(parts) /\ at \in Nat
    BY <1>6, TransmitConstants DEF Slot
  <1>11. /\ at >= Len(parts) => bytes = <<frame, Len(parts) + 1>>
         /\ at < Len(parts) => bytes[1] < frame
    BY <1>6, <1>9, <1>10
  <1>12. LET whole == Append(parts, bytes) IN
         /\ Len(whole) = Len(parts) + 1
         /\ whole[1] = <<frame, 1>>
         /\ \E n \in 1 .. Len(whole) :
                /\ at + 1 >= Len(whole) => n = Len(whole)
                /\ Written(whole, frame, n)
    BY <1>7, <1>10, <1>11, WrittenFurther
  <1> QED
    BY <1>2, <1>3, <1>4, <1>5, <1>8, <1>12

LEMMA PassKeepsRing ==
    ASSUME TransmitShape, NEW count \in 0 .. Slots, NEW frameOf, NEW partOf,
           TransmitRingOK(count, frameOf, partOf), Sent, SenderPass
    PROVE  TransmitRingOK(count, frameOf, partOf)' /\ Sent'
  <1>1. /\ Used(count) /\ Framed(count, frameOf, partOf) /\ Named(frameOf, partOf)
        /\ Owning(frameOf) /\ InHand(count, frameOf, partOf)
        /\ Sending(frameOf, partOf) /\ InOrder(count, frameOf)
    BY DEF TransmitRingOK
  <1>2. PICK at \in Slot : at = sender.at
    BY DEF TransmitShape
  <1>3. PICK parts \in Seq(TransmitPart) : parts = sender.parts
    BY DEF TransmitShape
  <1>4. PICK whole : whole = Append(parts, Here.holds)
    OBVIOUS
  <1>5. PICK next \in Slot : next = Next1(at)
    BY SpotIs
  <1>6. /\ \A slot \in Slot :
            /\ Owned(slot)' <=> Owned(slot) /\ slot # at
            /\ Filled(slot)' = Filled(slot) /\ Last(slot)' = Last(slot)
            /\ transmitRing'[slot].holds = transmitRing[slot].holds
        /\ sender'.status = "Fetching" /\ sender'.at = next
        /\ whole \in Seq(TransmitPart)
        /\ Last(at) => sender'.parts = <<>> /\ wire' = Append(wire, whole)
        /\ ~Last(at) => sender'.parts = whole /\ wire' = wire
    BY <1>2, <1>3, <1>4, <1>5, PassIs
  <1>7. /\ UNCHANGED <<transmitedDescriptor, transmitableDescriptor, claimed,
                       caller, transmitLeft, created, handedOver>>
        /\ sender.status = "Passing" /\ Filling' = Filling
    BY DEF SenderPass, Filling
  <1>8. /\ \A slot \in Slot : Owned(slot) => Filled(slot)
        /\ Owned(at) /\ Filled(at)
    BY <1>1, <1>2, <1>7 DEF Used, Sending
  <1>9. /\ Used(count)' /\ Framed(count, frameOf, partOf)' /\ Named(frameOf, partOf)'
        /\ \A k : Spot(k)' = Spot(k)
    BY <1>1, <1>6, <1>7, <1>8, SameFrames
  <1>10. PICK frame \in Nat : frame = frameOf[at] /\ frame \in 1 .. created
    BY <1>1, <1>8, TransmitConstants DEF Named, TransmitShape
  <1>11. /\ Len(parts) \in Nat /\ partOf[at] = Len(parts) + 1
         /\ \A slot \in Slot :
                Owned(slot) /\ frameOf[slot] = frame => partOf[slot] >= partOf[at]
    BY <1>1, <1>2, <1>3, <1>8, <1>10, LenProperties DEF Sending
  <1>12. /\ Len(whole) = Len(parts) + 1
         /\ whole[1] = <<frame, 1>>
         /\ \E n \in 1 .. Len(whole) :
                /\ at + 1 >= Len(whole) => n = Len(whole)
                /\ Written(whole, frame, n)
    BY <1>2, <1>3, <1>4, <1>7, <1>10, PassingIs
  <1>13. whole[1][1] = frame
    BY <1>12
  <1>14. /\ ~Last(at) => Filled(next) /\ partOf[next] = partOf[at] + 1 /\ frameOf[next] = frame
         /\ Last(at) /\ Filled(next) => partOf[next] = 1
    BY <1>1, <1>5, <1>8, <1>10, Following
  <1>15. next # at /\ \A slot \in Slot : Next1(slot) \in Slot /\ (Next1(slot) = next => slot = at)
    BY <1>5, SpotIs
  <1>16. ~Last(at) => Owned(next)
    BY <1>1, <1>5, <1>8 DEF Owning
  <1>17. Owned(sender.at)' <=> Owned(next)
    BY <1>6, <1>15 DEF Owned
  <1>18. /\ Len(wire) \in Nat
         /\ \A i \in 1 .. Len(wire) : i \in 1 .. Len(wire') /\ wire'[i] = wire[i]
         /\ Last(at) => Len(wire') = Len(wire) + 1 /\ wire'[Len(wire) + 1] = whole
         /\ ~Last(at) => Len(wire') = Len(wire)
    <2>1. wire \in Seq(Seq(TransmitPart)) /\ Len(wire) \in Nat
      BY LenProperties DEF TransmitShape
    <2>2. CASE Last(at)
      <3>1. wire' = Append(wire, whole)
        BY <1>6, <2>2
      <3>2. /\ Len(wire') = Len(wire) + 1 /\ wire'[Len(wire) + 1] = whole
            /\ \A i \in 1 .. Len(wire) : wire'[i] = wire[i]
        BY <1>6, <2>1, <3>1, AppendProperties
      <3>3. \A i \in 1 .. Len(wire) : i \in 1 .. Len(wire')
        BY <2>1, <3>2
      <3> QED
        BY <2>1, <2>2, <3>2, <3>3
    <2>3. CASE ~Last(at)
      BY <1>6, <2>1, <2>3
    <2> QED
      BY <2>2, <2>3
  <1>19. \A i \in 1 .. Len(wire') : i \in 1 .. Len(wire) \/ (Last(at) /\ i = Len(wire) + 1)
    BY <1>18
  <1>20. \A f : Given(f)' = Given(f) /\ (Gone(f)' => Gone(f) \/ (Last(at) /\ f = frame))
    <2>1. \A f : Given(f)' = Given(f)
      BY <1>7 DEF Given
    <2>2. ASSUME NEW f, NEW i \in 1 .. Len(wire'), wire'[i][1][1] = f
          PROVE  Gone(f) \/ (Last(at) /\ f = frame)
      <3>1. CASE i \in 1 .. Len(wire)
        <4>1. SentName(i) = f
          BY <1>18, <2>2, <3>1 DEF SentName
        <4> QED
          BY <3>1, <4>1 DEF Gone
      <3>2. CASE Last(at) /\ i = Len(wire) + 1
        BY <1>13, <1>18, <2>2, <3>2
      <3> QED
        BY <1>19, <3>1, <3>2
    <2> QED
      BY <2>1, <2>2 DEF Gone, SentName
  <1>21. \A slot \in Slot : Next1(slot)' = Next1(slot)
    BY DEF Next1, Advanced
  <1>22. Owning(frameOf)'
    <2>1. ASSUME NEW slot \in Slot, Owned(slot)'
          PROVE  /\ ~Last(slot)' => transmitRing'[Next1(slot)].DMAOwnership
                                    /\ sender'.at # Next1(slot)
                 /\ Given(frameOf[slot])' \/ (Filling /\ frameOf[slot] = created)
                 /\ ~Gone(frameOf[slot])'
      <3>1. Owned(slot) /\ slot # at /\ Last(slot)' = Last(slot)
        BY <1>6, <2>1
      <3>2. /\ ~Last(slot) => Owned(Next1(slot)) /\ Next1(slot) # at
            /\ Given(frameOf[slot]) \/ (Filling /\ frameOf[slot] = created)
            /\ ~Gone(frameOf[slot])
        BY <1>1, <1>2, <3>1 DEF Owning
      <3>3. ~Last(slot) => transmitRing'[Next1(slot)].DMAOwnership
        BY <1>6, <1>15, <3>2 DEF Owned
      <3>4. ~Last(slot) => sender'.at # Next1(slot)
        BY <1>6, <1>15, <3>1
      <3>5. ~(Last(at) /\ frameOf[slot] = frame)
        <4>1. ASSUME Last(at), frameOf[slot] = frame
              PROVE  FALSE
          <5>1. partOf[slot] >= partOf[at] /\ Filled(slot)
            BY <1>8, <1>11, <3>1, <4>1
          <5>2. partOf[slot] <= partOf[at] /\ partOf[slot] \in Nat /\ partOf[at] \in Nat
            BY <1>1, <1>8, <1>10, <4>1, <5>1 DEF Named
          <5>3. partOf[slot] = partOf[at]
            BY <5>1, <5>2
          <5> QED
            BY <1>1, <1>8, <1>10, <3>1, <4>1, <5>1, <5>3 DEF Named
        <4> QED
          BY <4>1
      <3> QED
        BY <1>20, <3>1, <3>2, <3>3, <3>4, <3>5
    <2> QED
      BY <1>7, <1>21, <2>1 DEF Owning, Owned
  <1>23. InHand(count, frameOf, partOf)'
    <2>1. SUFFICES ASSUME Filling
                   PROVE  InHand(count, frameOf, partOf)'
      BY <1>7 DEF InHand
    <2>2. PICK c \in 0 .. count - 1 : c = count - claimed.count
      <3>1. claimed.count \in 1 .. count
        BY <1>1, <2>1 DEF InHand
      <3> QED
        BY <3>1, TransmitConstants
    <2>3. PICK start \in Slot : start = claimed.start
      BY DEF TransmitShape
    <2>4. /\ claimed.count \in 1 .. count /\ start = Spot(c) /\ ~Owned(start)
          /\ ~Last(start) => Owned(Next1(start)) /\ at # Next1(start)
          /\ \A k \in 0 .. count - 1 :
                /\ frameOf[Spot(k)] = created <=> k >= c
                /\ k >= c => partOf[Spot(k)] = k - c + 1
          /\ frame # created
          /\ ~Given(created) /\ ~Gone(created)
      BY <1>1, <1>2, <1>8, <1>10, <2>1, <2>2, <2>3 DEF InHand
    <2>5. ~transmitRing'[start].DMAOwnership
      BY <1>6, <2>4 DEF Owned
    <2>6. ~Last(start)' => transmitRing'[Next1(start)].DMAOwnership /\ sender'.at # Next1(start)
      <3>1. start # at
        BY <1>8, <2>4
      <3>2. Next1(start) \in Slot /\ Next1(start) # next
        BY <1>15, <3>1
      <3>3. ~Last(start)' => Owned(Next1(start)) /\ at # Next1(start)
        BY <1>6, <2>3, <2>4
      <3> QED
        BY <1>6, <3>2, <3>3 DEF Owned
    <2>7. Owned(next) => frameOf[next] # created
      <3>1. CASE ~Last(at)
        BY <1>14, <2>4, <3>1
      <3>2. ASSUME Last(at), Owned(next), frameOf[next] = created
            PROVE  FALSE
        <4>1. Filled(next) /\ partOf[next] = 1
          BY <1>8, <1>14, <3>2
        <4>2. PICK k \in 0 .. Slots - 1 : next = Spot(k)
          BY SpotIs
        <4>3. k \in 0 .. count - 1
          BY <1>1, <4>1, <4>2, TransmitConstants DEF Used
        <4>4. k >= c /\ k - c + 1 = 1
          BY <2>4, <3>2, <4>1, <4>2, <4>3
        <4>5. k = c
          BY <2>2, <4>3, <4>4, TransmitConstants
        <4> QED
          BY <2>4, <3>2, <4>2, <4>5
      <3> QED
        BY <3>1, <3>2
    <2>8. ~Given(created)' /\ ~Gone(created)'
      <3>1. created' = created
        BY <1>7
      <3> QED
        BY <1>20, <2>4, <3>1 DEF Given, Gone
    <2>9. Owned(sender.at)' => frameOf[sender'.at] # created
      BY <1>6, <1>17, <2>7
    <2> QED
      BY <1>7, <1>9, <1>21, <2>2, <2>3, <2>4, <2>5, <2>6, <2>8, <2>9 DEF InHand, Owned
  <1>24. Sending(frameOf, partOf)'
    <2>1. PICK rest : rest = sender'.parts
      OBVIOUS
    <2>2. rest # <<>> => Owned(sender.at)'
      BY <1>6, <1>16, <1>17, <2>1
    <2>3. ASSUME Owned(next)
          PROVE  /\ partOf[next] = Len(rest) + 1
                 /\ \E m \in 0 .. Len(rest) :
                        /\ Len(rest) > 0 => m > 0
                        /\ next >= Len(rest) => m = Len(rest)
                        /\ Written(rest, frameOf[next], m)
                 /\ \A slot \in Slot :
                        Owned(slot)' /\ frameOf[slot] = frameOf[next] =>
                            partOf[slot] >= partOf[next]
      <3>1. Filled(next)
        BY <1>8, <2>3
      <3>2. CASE Last(at)
        <4>1. rest = <<>> /\ Len(rest) = 0 /\ partOf[next] = 1
          BY <1>6, <1>14, <2>1, <3>1, <3>2
        <4>2. Written(rest, frameOf[next], 0)
          BY <4>1 DEF Written
        <4>3. ASSUME NEW slot \in Slot, Owned(slot)'
              PROVE  partOf[slot] >= 1
          <5>1. Filled(slot)
            BY <1>6, <1>8, <4>3
          <5>2. partOf[slot] \in 1 .. MaxFragments
            BY <1>1, <5>1 DEF Named
          <5> QED
            BY <5>2, TransmitConstants
        <4> QED
          BY <4>1, <4>2, <4>3
      <3>3. CASE ~Last(at)
        <4>1. /\ rest = whole /\ Len(rest) = Len(parts) + 1
              /\ partOf[next] = partOf[at] + 1 /\ frameOf[next] = frame
          BY <1>6, <1>12, <1>14, <2>1, <3>3
        <4>2. PICK n \in 1 .. Len(whole) :
                /\ at + 1 >= Len(whole) => n = Len(whole)
                /\ Written(whole, frame, n)
          BY <1>12
        <4>3. next >= Len(whole) => at + 1 >= Len(whole)
          <5>1. /\ at \in Nat /\ at < Slots /\ 1 \in 0 .. Slots
            BY TransmitConstants DEF Slot
          <5>2. next = IF at + 1 < Slots THEN at + 1 ELSE at + 1 - Slots
            BY <1>5, <5>1, AdvancedIs DEF Next1
          <5>3. next <= at + 1
            BY <5>1, <5>2, TransmitConstants
          <5> QED
            BY <1>11, <1>12, <5>1, <5>3 DEF Slot
        <4>4. n \in 0 .. Len(rest) /\ n > 0
          BY <1>11, <1>12, <4>1
        <4>5. ASSUME NEW slot \in Slot, Owned(slot)', frameOf[slot] = frame
              PROVE  partOf[slot] >= partOf[at] + 1
          <5>1. /\ Owned(slot) /\ slot # at /\ Filled(slot)
            BY <1>6, <1>8, <4>5
          <5>2. partOf[slot] >= partOf[at]
            BY <1>11, <4>5, <5>1
          <5>3. /\ partOf[slot] # partOf[at] /\ partOf[slot] \in Nat /\ partOf[at] \in Nat
            BY <1>1, <1>8, <1>10, <4>5, <5>1 DEF Named
          <5> QED
            BY <5>2, <5>3
        <4>6. /\ Len(rest) > 0 => n > 0
              /\ next >= Len(rest) => n = Len(rest)
              /\ Written(rest, frameOf[next], n)
          BY <4>1, <4>2, <4>3, <4>4
        <4> QED
          BY <1>11, <4>1, <4>4, <4>5, <4>6
      <3> QED
        BY <3>2, <3>3
    <2>4. \A m : Written(sender.parts, frameOf[sender.at], m)' = Written(rest, frameOf[next], m)
      BY <1>6, <2>1 DEF Written
    <2> QED
      BY <1>6, <1>17, <2>1, <2>2, <2>3, <2>4 DEF Sending
  <1>25. Sent'
    <2>1. created' = created
      BY <1>7
    <2>2. ASSUME NEW i \in 1 .. Len(wire')
          PROVE  /\ wire'[i][1][1] \in 1 .. created
                 /\ \E n \in 1 .. Len(wire'[i]) : Written(wire'[i], wire'[i][1][1], n)
      <3>1. CASE i \in 1 .. Len(wire)
        BY <1>18, <3>1 DEF Sent, SentName
      <3>2. CASE Last(at) /\ i = Len(wire) + 1
        <4>1. wire'[i] = whole
          BY <1>18, <3>2
        <4> QED
          BY <1>10, <1>12, <1>13, <4>1
      <3> QED
        BY <1>19, <3>1, <3>2
    <2> QED
      BY <2>1, <2>2 DEF Sent, SentName, Written
  <1>26. InOrder(count, frameOf)'
    <2>1. SUFFICES ASSUME NoFrameDropped
                   PROVE  InOrder(count, frameOf)'
      BY <1>7 DEF InOrder, NoFrameDropped
    <2>2. /\ \A i \in 1 .. Len(handedOver) : handedOver[i] = i
          /\ \A i \in 1 .. Len(wire) : SentName(i) = i
      BY <1>1, <2>1 DEF InOrder
    <2>3. PICK spot \in 0 .. count :
            /\ at = Spot(spot)
            /\ Filling => spot <= count - claimed.count
            /\ \A k \in 0 .. count - 1 :
                Owned(Spot(k)) <=> k >= spot /\ ~(Filling /\ k = count - claimed.count)
            /\ Len(wire) + 1 = IF spot < count THEN frameOf[Spot(spot)] ELSE created + 1
      BY <1>1, <1>2, <2>1 DEF InOrder
    <2>4. count \in Nat /\ spot \in Nat /\ Slots \in Nat /\ count <= Slots
      BY TransmitConstants
    <2>5. spot < count
      <3>1. PICK k \in 0 .. Slots - 1 : at = Spot(k)
        BY SpotIs
      <3>2. k < count /\ k \in 0 .. count - 1 /\ k >= spot
        BY <1>1, <1>8, <2>3, <2>4, <3>1 DEF Used
      <3> QED
        BY <2>4, <3>2
    <2>6. /\ spot \in 0 .. count - 1 /\ spot \in 0 .. Slots - 1 /\ spot + 1 \in 0 .. count
      BY <2>4, <2>5
    <2>7. next = Spot(spot + 1)
      BY <1>5, <2>3, <2>6, SpotIs
    <2>8. Filling => spot + 1 <= count - claimed.count
      <3>1. SUFFICES ASSUME Filling
                     PROVE  spot + 1 <= count - claimed.count
        OBVIOUS
      <3>2. spot # count - claimed.count /\ spot <= count - claimed.count
        BY <1>8, <2>3, <2>6, <3>1
      <3>3. claimed.count \in Nat
        BY TransmitConstants DEF TransmitShape
      <3> QED
        BY <2>4, <3>2, <3>3
    <2>9. ASSUME NEW k \in 0 .. count - 1
          PROVE  transmitRing'[Spot(k)].DMAOwnership
                    <=> k >= spot + 1 /\ ~(Filling /\ k = count - claimed.count)
      <3>1. k \in 0 .. Slots - 1 /\ Spot(k) \in Slot
        BY <2>4, SpotIs
      <3>2. Spot(k) = at <=> k = spot
        BY <2>3, <2>6, <3>1, SpotIs
      <3>3. Owned(Spot(k)) <=> k >= spot /\ ~(Filling /\ k = count - claimed.count)
        BY <2>3
      <3>4. k >= spot /\ k # spot <=> k >= spot + 1
        BY <2>4
      <3>5. transmitRing'[Spot(k)].DMAOwnership <=> Owned(Spot(k)) /\ Spot(k) # at
        BY <1>6, <3>1 DEF Owned
      <3> QED
        BY <3>2, <3>3, <3>4, <3>5
    <2>10. frame = Len(wire) + 1
      BY <1>10, <2>3, <2>5
    <2>11. Len(wire') + 1 = IF spot + 1 < count THEN frameOf[Spot(spot + 1)] ELSE created + 1
      <3>1. CASE ~Last(at)
        <4>1. spot # count - 1
          <5>1. Last(Spot(count - 1))
            BY <1>1, <2>4, <2>5 DEF Framed
          <5> QED
            BY <2>3, <3>1, <5>1
        <4>2. spot + 1 < count /\ Len(wire') = Len(wire)
          BY <1>18, <2>4, <2>5, <3>1, <4>1
        <4> QED
          BY <1>14, <2>7, <2>10, <3>1, <4>2
      <3>2. CASE Last(at) /\ spot + 1 < count
        <4>1. PICK j \in 1 .. count - 1 : j = spot + 1 /\ j - 1 = spot
          BY <2>4, <3>2
        <4>2. frameOf[Spot(j)] = frameOf[Spot(j - 1)] + 1
          BY <1>1, <2>3, <3>2, <4>1 DEF Framed
        <4>3. Len(wire') = Len(wire) + 1 /\ Len(wire) \in Nat
          BY <1>18, <3>2
        <4>4. frameOf[Spot(spot + 1)] = frame + 1
          BY <1>10, <2>3, <4>1, <4>2
        <4> QED
          BY <2>10, <3>2, <4>3, <4>4
      <3>3. CASE Last(at) /\ ~(spot + 1 < count)
        <4>1. spot = count - 1 /\ count > 0
          BY <2>4, <2>5, <3>3
        <4>2. frame = created
          BY <1>1, <1>10, <2>3, <4>1 DEF Framed
        <4> QED
          BY <1>18, <2>10, <3>3, <4>2
      <3> QED
        BY <3>1, <3>2, <3>3
    <2>12. \A i \in 1 .. Len(wire') : wire'[i][1][1] = i
      <3>1. ASSUME NEW i \in 1 .. Len(wire')
            PROVE  wire'[i][1][1] = i
        <4>1. CASE i \in 1 .. Len(wire)
          BY <1>18, <2>2, <4>1 DEF SentName
        <4>2. CASE Last(at) /\ i = Len(wire) + 1
          BY <1>13, <1>18, <2>10, <4>2
        <4> QED
          BY <1>19, <4>1, <4>2
      <3> QED
        BY <3>1
    <2> QED
      BY <1>6, <1>7, <1>9, <2>2, <2>6, <2>7, <2>8, <2>9, <2>11, <2>12
         DEF InOrder, SentName, Owned
  <1> QED
    BY <1>9, <1>22, <1>23, <1>24, <1>25, <1>26 DEF TransmitRingOK

(* A frame is claimed behind what is claimed already.                      *)
LEMMA CreateTakesSpots ==
    ASSUME TransmitShape, NEW count \in 0 .. Slots, Used(count),
           NEW n \in 1 .. MaxFragments, CreateFrame(n)
    PROVE  /\ count + n <= Slots
           /\ transmitableDescriptor' = Spot(count + n)
           /\ \A j \in 0 .. Slots - 1 :
                /\ j >= count /\ j < count + n =>
                    /\ Distance(Spot(j), transmitableDescriptor) = j - count
                    /\ transmitRing'[Spot(j)].DMAOwnership = (j > count)
                    /\ transmitRing'[Spot(j)].filled
                    /\ transmitRing'[Spot(j)].last = (j = count + n - 1)
                    /\ transmitRing'[Spot(j)].holds =
                        IF Spot(j) >= j - count THEN <<created + 1, j - count + 1>>
                        ELSE transmitRing[Spot(j)].holds
                /\ ~(j >= count /\ j < count + n) =>
                    /\ Distance(Spot(j), transmitableDescriptor) >= n
                    /\ transmitRing'[Spot(j)] = transmitRing[Spot(j)]
  <1>1. PICK first \in Slot : first = transmitableDescriptor /\ first = Spot(count)
    BY DEF Used, TransmitShape
  <1>2. PICK oldest \in Slot : oldest = transmitedDescriptor
    BY DEF TransmitShape
  <1>3. /\ count \in Nat /\ Slots \in Nat /\ count <= Slots /\ n \in Nat /\ n >= 1
        /\ n <= Slots /\ n \in 0 .. Slots
    BY TransmitConstants
  <1>4. \A k \in 0 .. Slots :
            Advanced(first, k) = IF count + k <= Slots THEN Spot(count + k)
                                 ELSE Spot(count + k - Slots)
    BY <1>1, <1>2, AdvancedAdvanced DEF Spot
  <1>5. count + n <= Slots
    <2>1. SUFFICES ASSUME count + n > Slots
                   PROVE  FALSE
      BY <1>3
    <2>2. PICK k \in 0 .. n - 1 : k = Slots - count
      BY <1>3, <2>1
    <2>3. k \in 0 .. Slots /\ count + k = Slots /\ count > 0 /\ 0 \in 0 .. Slots - 1
      BY <1>3, <2>1, <2>2
    <2>4. Advanced(first, k) = Spot(0)
      <3>1. Advanced(first, k) = Spot(Slots)
        BY <1>3, <1>4, <2>3
      <3> QED
        BY <3>1, SpotIs
    <2>5. Filled(Spot(0))
      BY <2>3 DEF Used
    <2>6. ~transmitRing[Advanced(transmitableDescriptor, k)].filled
      BY DEF CreateFrame, HasSpace
    <2> QED
      BY <1>1, <2>4, <2>5, <2>6 DEF Filled
  <1>6. transmitableDescriptor' = Spot(count + n)
    <2>1. transmitableDescriptor' = Advanced(first, n)
      BY <1>1 DEF CreateFrame
    <2> QED
      BY <1>3, <1>4, <1>5, <2>1
  <1>7. ASSUME NEW j \in 0 .. Slots - 1
        PROVE  /\ Distance(Spot(j), first) = IF j >= count THEN j - count
                                             ELSE j + Slots - count
               /\ j >= count => (first + (j - count) < Slots <=> Spot(j) >= j - count)
    <2>1. PICK k : k = IF j >= count THEN j - count ELSE j + Slots - count
      OBVIOUS
    <2>2. k \in 0 .. Slots - 1 /\ k \in 0 .. Slots /\ j \in Nat
      BY <1>3, <2>1
    <2>3. PICK slot \in Slot : slot = Spot(j)
      BY <2>2, SpotIs, <1>3
    <2>4. slot = Advanced(first, k)
      <3>1. CASE j >= count
        <4>1. count + k = j /\ j <= Slots
          BY <1>3, <2>1, <2>2, <3>1
        <4> QED
          BY <1>4, <2>2, <2>3, <4>1
      <3>2. CASE j < count /\ j > 0
        <4>1. count + k = j + Slots /\ ~(count + k <= Slots) /\ count + k - Slots = j
          BY <1>3, <2>1, <2>2, <3>2
        <4> QED
          BY <1>4, <2>2, <2>3, <4>1
      <3>3. CASE j < count /\ j = 0
        <4>1. count + k = Slots
          BY <1>3, <2>1, <2>2, <3>3
        <4>2. Advanced(first, k) = Spot(Slots)
          BY <1>3, <1>4, <2>2, <4>1
        <4> QED
          BY <2>3, <3>3, <4>2, SpotIs
      <3> QED
        BY <1>3, <2>2, <3>1, <3>2, <3>3
    <2>5. Distance(slot, first) = k
      BY <2>2, <2>4, DistanceIs
    <2>6. slot = IF first + k < Slots THEN first + k ELSE first + k - Slots
      BY <2>2, <2>4, AdvancedIs
    <2>7. first + k < Slots <=> slot >= k
      BY <1>3, <2>2, <2>6 DEF Slot
    <2> QED
      BY <2>1, <2>3, <2>5, <2>7
  <1>8. ASSUME NEW j \in 0 .. Slots - 1
        PROVE  /\ j >= count /\ j < count + n =>
                    /\ Distance(Spot(j), transmitableDescriptor) = j - count
                    /\ transmitRing'[Spot(j)].DMAOwnership = (j > count)
                    /\ transmitRing'[Spot(j)].filled
                    /\ transmitRing'[Spot(j)].last = (j = count + n - 1)
                    /\ transmitRing'[Spot(j)].holds =
                        IF Spot(j) >= j - count THEN <<created + 1, j - count + 1>>
                        ELSE transmitRing[Spot(j)].holds
               /\ ~(j >= count /\ j < count + n) =>
                    /\ Distance(Spot(j), transmitableDescriptor) >= n
                    /\ transmitRing'[Spot(j)] = transmitRing[Spot(j)]
    <2>1. j \in 0 .. Slots /\ j \in Nat
      BY <1>3
    <2>2. PICK slot \in Slot : slot = Spot(j)
      BY <2>1, SpotIs
    <2>3. PICK k : k = Distance(slot, transmitableDescriptor)
      OBVIOUS
    <2>4. /\ k = IF j >= count THEN j - count ELSE j + Slots - count
          /\ j >= count => (first + (j - count) < Slots <=> Spot(j) >= j - count)
      BY <1>1, <1>7, <2>2, <2>3
    <2>5. /\ k < n => /\ transmitRing'[slot].DMAOwnership = (k > 0)
                      /\ transmitRing'[slot].filled
                      /\ transmitRing'[slot].last = (k = n - 1)
                      /\ transmitRing'[slot].holds =
                            IF transmitableDescriptor + k < Slots
                            THEN <<created + 1, k + 1>> ELSE transmitRing[slot].holds
          /\ k >= n => transmitRing'[slot] = transmitRing[slot]
      BY <2>3, CreateIs DEF Owned, Filled, Last
    <2>6. CASE j >= count /\ j < count + n
      <3>1. /\ k = j - count /\ k < n /\ (k > 0 <=> j > count)
            /\ (k = n - 1 <=> j = count + n - 1)
        BY <1>3, <2>1, <2>4, <2>6
      <3> QED
        BY <1>1, <2>2, <2>3, <2>4, <2>5, <2>6, <3>1
    <2>7. CASE ~(j >= count /\ j < count + n)
      <3>1. k >= n
        BY <1>3, <1>5, <2>1, <2>4, <2>7
      <3> QED
        BY <2>2, <2>3, <2>5, <2>7, <3>1
    <2> QED
      BY <2>6, <2>7
  <1> QED
    BY <1>5, <1>6, <1>8

LEMMA CreateKeepsRing ==
    ASSUME TransmitShape, NEW count \in 0 .. Slots,
           NEW frameOf \in [Slot -> Nat], NEW partOf \in [Slot -> Nat],
           TransmitRingOK(count, frameOf, partOf), Sent, Counted,
           NEW n \in Creatable, CreateFrame(n)
    PROVE  /\ Sent' /\ Counted'
           /\ \E total \in 0 .. Slots :
                \E frames \in [Slot -> Nat] :
                    \E places \in [Slot -> Nat] : TransmitRingOK(total, frames, places)'
  <1>1. /\ Used(count) /\ Framed(count, frameOf, partOf) /\ Named(frameOf, partOf)
        /\ Owning(frameOf) /\ Sending(frameOf, partOf) /\ InOrder(count, frameOf)
    BY DEF TransmitRingOK
  <1>2. n \in 1 .. MaxFragments /\ (n = 1 \/ NoFrameDropped)
    BY TransmitConstants DEF Creatable
  <1>3. /\ created' = created + 1 /\ ~Filling /\ Filling'
        /\ claimed'.start = transmitableDescriptor /\ claimed'.count = n
        /\ UNCHANGED <<transmitedDescriptor, transmitLeft, sender, handedOver, wire>>
    BY DEF CreateFrame, Filling
  <1>4. PICK name \in Nat : name = created + 1 /\ created \in Nat
    BY TransmitConstants DEF TransmitShape
  <1>5. PICK total \in 0 .. Slots : total = count + n
    <2>1. count + n <= Slots
      BY <1>1, <1>2, CreateTakesSpots
    <2>2. count \in Nat /\ n \in Nat
      BY <1>2, TransmitConstants
    <2> QED
      BY <2>1, <2>2, TransmitConstants
  <1>6. /\ count \in Nat /\ Slots \in Nat /\ n \in Nat /\ n >= 1 /\ n <= MaxFragments
        /\ total = count + n /\ total <= Slots /\ total \in Nat
    BY <1>2, <1>5, TransmitConstants
  <1>7. /\ transmitableDescriptor' = Spot(total)
        /\ \A j \in 0 .. Slots - 1 :
            /\ j >= count /\ j < total =>
                /\ Distance(Spot(j), transmitableDescriptor) = j - count
                /\ transmitRing'[Spot(j)].DMAOwnership = (j > count)
                /\ transmitRing'[Spot(j)].filled
                /\ transmitRing'[Spot(j)].last = (j = total - 1)
                /\ transmitRing'[Spot(j)].holds =
                    IF Spot(j) >= j - count THEN <<name, j - count + 1>>
                    ELSE transmitRing[Spot(j)].holds
            /\ ~(j >= count /\ j < total) =>
                /\ Distance(Spot(j), transmitableDescriptor) >= n
                /\ transmitRing'[Spot(j)] = transmitRing[Spot(j)]
    BY <1>1, <1>2, <1>4, <1>5, CreateTakesSpots
  <1>8. PICK frames : frames = [slot \in Slot |->
            IF Distance(slot, transmitableDescriptor) < n THEN name ELSE frameOf[slot]]
    OBVIOUS
  <1>9. PICK places : places = [slot \in Slot |->
            IF Distance(slot, transmitableDescriptor) < n
            THEN Distance(slot, transmitableDescriptor) + 1 ELSE partOf[slot]]
    OBVIOUS
  <1>10. frames \in [Slot -> Nat] /\ places \in [Slot -> Nat]
    <2>1. \A slot \in Slot : Distance(slot, transmitableDescriptor) + 1 \in Nat
      <3>1. ASSUME NEW slot \in Slot
            PROVE  Distance(slot, transmitableDescriptor) \in 0 .. Slots - 1
        BY DistanceIs DEF TransmitShape
      <3> QED
        BY <3>1
    <2> QED
      BY <1>8, <1>9, <2>1
  <1>11. ASSUME NEW j \in 0 .. Slots - 1
         PROVE  /\ Spot(j) \in Slot
                /\ j >= count /\ j < total =>
                    frames[Spot(j)] = name /\ places[Spot(j)] = j - count + 1
                /\ ~(j >= count /\ j < total) =>
                    frames[Spot(j)] = frameOf[Spot(j)] /\ places[Spot(j)] = partOf[Spot(j)]
    <2>1. PICK slot \in Slot : slot = Spot(j)
      BY <1>6, SpotIs
    <2>2. CASE j >= count /\ j < total
      <3>1. Distance(slot, transmitableDescriptor) = j - count
        BY <1>7, <2>1, <2>2
      <3>2. j - count < n
        BY <1>6, <2>2
      <3> QED
        BY <1>8, <1>9, <2>1, <2>2, <3>1, <3>2
    <2>3. CASE ~(j >= count /\ j < total)
      <3>1. PICK d \in 0 .. Slots - 1 : d = Distance(slot, transmitableDescriptor)
        BY DistanceIs DEF TransmitShape
      <3>2. d >= n
        BY <1>7, <2>1, <2>3, <3>1
      <3>3. ~(d < n)
        BY <1>6, <3>2
      <3> QED
        BY <1>8, <1>9, <2>1, <2>3, <3>1, <3>3
    <2> QED
      BY <2>2, <2>3
  <1>12. \A k : Spot(k)' = Spot(k)
    BY <1>3 DEF Spot
  <1>13. ASSUME NEW slot \in Slot
         PROVE  \E j \in 0 .. Slots - 1 : slot = Spot(j)
    BY SpotIs
  <1>14. \A j \in 0 .. Slots - 1 : Filled(Spot(j)) <=> j < count
    BY <1>1 DEF Used
  <1>15. \A slot \in Slot : Owned(slot) => Filled(slot)
    BY <1>1 DEF Used
  (* What was claimed before is as it was. *)
  <1>16. ASSUME NEW slot \in Slot, Filled(slot)
         PROVE  /\ transmitRing'[slot] = transmitRing[slot]
                /\ frames[slot] = frameOf[slot] /\ places[slot] = partOf[slot]
                /\ frameOf[slot] \in 1 .. created /\ frames[slot] # name
    <2>1. PICK j \in 0 .. Slots - 1 : slot = Spot(j)
      BY SpotIs
    <2>2. ~(j >= count /\ j < total)
      BY <1>6, <1>14, <1>16, <2>1
    <2>3. frameOf[slot] \in 1 .. created
      BY <1>1, <1>16 DEF Named
    <2>4. frames[slot] = frameOf[slot] /\ frameOf[slot] # name
      BY <1>4, <1>11, <2>1, <2>2, <2>3
    <2> QED
      BY <1>7, <1>11, <2>1, <2>2, <2>3, <2>4
  (* What is filled now was filled before or belongs to the new frame. *)
  <1>17. ASSUME NEW slot \in Slot, Filled(slot)'
         PROVE  \/ Filled(slot)
                \/ \E j \in 0 .. Slots - 1 : j >= count /\ j < total /\ slot = Spot(j)
    <2>1. PICK j \in 0 .. Slots - 1 : slot = Spot(j)
      BY SpotIs
    <2> QED
      BY <1>7, <1>17, <2>1 DEF Filled
  <1>18. PICK at \in Slot : at = sender.at
    BY DEF TransmitShape
  <1>19. ASSUME NEW j \in 0 .. Slots - 1, j > count, j < total
         PROVE  at # Spot(j)
    <2>1. NoFrameDropped
      BY <1>2, <1>6, <1>19
    <2>2. PICK spot \in 0 .. count : at = Spot(spot)
      BY <1>1, <1>18, <2>1 DEF InOrder
    <2>3. spot \in 0 .. Slots - 1 /\ spot # j
      BY <1>6, <1>19, <2>2
    <2> QED
      BY <2>2, <2>3, SpotIs
  <1>20. Owned(sender.at)' <=> Owned(at)
    <2>1. Owned(sender.at)' <=> transmitRing'[at].DMAOwnership
      BY <1>3, <1>18 DEF Owned
    <2>2. CASE Filled(at)
      BY <1>16, <2>1, <2>2 DEF Owned
    <2>3. CASE ~Filled(at)
      <3>1. ~Owned(at)
        BY <1>15, <2>3
      <3>2. PICK j \in 0 .. Slots - 1 : at = Spot(j)
        BY SpotIs
      <3>3. ~(j > count /\ j < total)
        BY <1>19, <3>2
      <3>4. CASE j >= count /\ j < total
        <4>1. ~(j > count)
          BY <3>3, <3>4
        <4> QED
          BY <1>7, <2>1, <3>1, <3>2, <3>4, <4>1
      <3>5. CASE ~(j >= count /\ j < total)
        BY <1>7, <2>1, <3>1, <3>2, <3>5 DEF Owned
      <3> QED
        BY <3>4, <3>5
    <2> QED
      BY <2>2, <2>3

  <1>21. Used(total)'
    <2>1. \A j \in 0 .. Slots - 1 : transmitRing'[Spot(j)].filled <=> j < total
      <3>1. ASSUME NEW j \in 0 .. Slots - 1
            PROVE  transmitRing'[Spot(j)].filled <=> j < total
        <4>1. CASE j >= count /\ j < total
          BY <1>7, <4>1
        <4>2. CASE ~(j >= count /\ j < total)
          <5>1. j < total <=> j < count
            BY <1>6, <4>2
          <5> QED
            BY <1>7, <1>14, <4>2, <5>1 DEF Filled
        <4> QED
          BY <4>1, <4>2
      <3> QED
        BY <3>1
    <2>2. ASSUME NEW slot \in Slot, Owned(slot)'
          PROVE  Filled(slot)'
      <3>1. PICK j \in 0 .. Slots - 1 : slot = Spot(j)
        BY SpotIs
      <3>2. CASE j >= count /\ j < total
        BY <1>7, <3>1, <3>2 DEF Filled
      <3>3. CASE ~(j >= count /\ j < total)
        BY <1>7, <1>15, <2>2, <3>1, <3>3 DEF Filled, Owned
      <3> QED
        BY <3>2, <3>3
    <2> QED
      BY <1>7, <1>12, <2>1, <2>2 DEF Used, Filled
  <1>22. Framed(total, frames, places)'
    <2>1. total - 1 \in 0 .. Slots - 1 /\ total - 1 >= count /\ total - 1 < total
      BY <1>6
    <2>2. transmitRing'[Spot(total - 1)].last /\ frames[Spot(total - 1)] = name
      BY <1>7, <1>11, <2>1
    <2>3. places[Spot(0)] = 1
      <3>1. 0 \in 0 .. Slots - 1 /\ 0 < total
        BY <1>6
      <3>2. CASE count = 0
        <4>1. 0 >= count /\ 0 - count + 1 = 1
          BY <3>2
        <4> QED
          BY <1>11, <3>1, <4>1
      <3>3. CASE count > 0
        <4>1. ~(0 >= count)
          BY <1>6, <3>3
        <4>2. partOf[Spot(0)] = 1
          BY <1>1, <3>3 DEF Framed
        <4> QED
          BY <1>11, <3>1, <4>1, <4>2
      <3> QED
        BY <1>6, <3>2, <3>3
    <2>4. ASSUME NEW k \in 1 .. total - 1
          PROVE  /\ transmitRing'[Spot(k - 1)].last =>
                    places[Spot(k)] = 1 /\ frames[Spot(k)] = frames[Spot(k - 1)] + 1
                 /\ ~transmitRing'[Spot(k - 1)].last =>
                    /\ places[Spot(k)] = places[Spot(k - 1)] + 1
                    /\ frames[Spot(k)] = frames[Spot(k - 1)]
      <3>1. /\ k \in 0 .. Slots - 1 /\ k < total /\ k \in Nat
        BY <1>6
      <3>2. PICK j \in 0 .. Slots - 1 : j = k - 1 /\ j < total /\ j \in Nat
        BY <1>6
      <3>3. CASE k < count
        <4>1. k \in 1 .. count - 1 /\ ~(k >= count) /\ ~(j >= count)
          BY <1>6, <3>1, <3>2, <3>3
        <4>2. /\ frames[Spot(k)] = frameOf[Spot(k)] /\ places[Spot(k)] = partOf[Spot(k)]
              /\ frames[Spot(j)] = frameOf[Spot(j)] /\ places[Spot(j)] = partOf[Spot(j)]
              /\ transmitRing'[Spot(j)] = transmitRing[Spot(j)]
          BY <1>7, <1>11, <3>1, <4>1
        <4> QED
          BY <1>1, <3>2, <4>1, <4>2 DEF Framed, Last
      <3>4. CASE k = count
        <4>1. /\ count > 0 /\ j = count - 1 /\ ~(j >= count) /\ k >= count /\ k - count + 1 = 1
          BY <1>6, <3>1, <3>2, <3>4
        <4>2. /\ frames[Spot(k)] = name /\ places[Spot(k)] = 1
              /\ frames[Spot(j)] = frameOf[Spot(j)]
              /\ transmitRing'[Spot(j)] = transmitRing[Spot(j)]
          BY <1>7, <1>11, <3>1, <4>1
        <4>3. Last(Spot(j)) /\ frameOf[Spot(j)] = created
          BY <1>1, <4>1 DEF Framed
        <4> QED
          BY <1>4, <3>2, <4>2, <4>3 DEF Last
      <3>5. CASE k > count
        <4>1. /\ j >= count /\ k >= count /\ j # total - 1
              /\ k - count + 1 = (j - count + 1) + 1
          BY <1>6, <3>1, <3>2, <3>5
        <4>2. /\ frames[Spot(k)] = name /\ places[Spot(k)] = k - count + 1
              /\ frames[Spot(j)] = name /\ places[Spot(j)] = j - count + 1
              /\ ~transmitRing'[Spot(j)].last
          BY <1>7, <1>11, <3>1, <3>2, <4>1
        <4> QED
          BY <3>2, <4>1, <4>2
      <3> QED
        BY <1>6, <3>1, <3>3, <3>4, <3>5
    <2> QED
      BY <1>3, <1>4, <1>12, <2>2, <2>3, <2>4 DEF Framed, Last
  <1>23. ASSUME NEW j \in 0 .. Slots - 1, j >= count, j < total
         PROVE  j - count + 1 \in 1 .. MaxFragments /\ j - count + 1 - 1 = j - count
    BY <1>6, <1>23, TransmitConstants
  <1>24. Named(frames, places)'
    <2>1. ASSUME NEW slot \in Slot
          PROVE  /\ transmitRing'[slot].holds[1] <= name
                 /\ Filled(slot)' =>
                    /\ frames[slot] \in 1 .. name /\ places[slot] \in 1 .. MaxFragments
                    /\ slot >= places[slot] - 1 =>
                        transmitRing'[slot].holds = <<frames[slot], places[slot]>>
                    /\ slot < places[slot] - 1 =>
                        transmitRing'[slot].holds[1] < frames[slot]
                    /\ \A other \in Slot :
                        Filled(other)' /\ frames[other] = frames[slot] =>
                            /\ places[other] = places[slot] => other = slot
                            /\ Last(slot)' => places[other] <= places[slot]
      <3>1. transmitRing[slot].holds[1] <= name /\ transmitRing[slot].holds[1] < name
        <4>1. transmitRing[slot].holds[1] <= created
          BY <1>1 DEF Named
        <4>2. PICK d \in TransmitDescriptor : d = transmitRing[slot]
          BY DEF TransmitShape
        <4>3. d.holds[1] \in Nat
          BY TransmitConstants DEF TransmitDescriptor, TransmitPart
        <4> QED
          BY <1>4, <4>1, <4>2, <4>3
      <3>2. PICK j \in 0 .. Slots - 1 : slot = Spot(j)
        BY SpotIs
      <3>3. CASE j >= count /\ j < total
        <4>1. /\ frames[slot] = name /\ places[slot] = j - count + 1
              /\ transmitRing'[slot].last = (j = total - 1)
              /\ transmitRing'[slot].holds =
                    IF slot >= j - count THEN <<name, j - count + 1>>
                    ELSE transmitRing[slot].holds
          BY <1>7, <1>11, <3>2, <3>3
        <4>2. slot \in Nat /\ j - count \in Nat /\ <<name, j - count + 1>>[1] = name
          BY <1>6, <3>3, TransmitConstants DEF Slot
        <4>3. /\ slot >= places[slot] - 1 =>
                    transmitRing'[slot].holds = <<frames[slot], places[slot]>>
              /\ slot < places[slot] - 1 => transmitRing'[slot].holds[1] < frames[slot]
              /\ transmitRing'[slot].holds[1] <= name
          <5>1. CASE slot >= j - count
            <6>1. /\ transmitRing'[slot].holds = <<name, j - count + 1>>
                  /\ ~(slot < places[slot] - 1)
              BY <1>23, <3>3, <4>1, <4>2, <5>1
            <6>2. transmitRing'[slot].holds[1] = name
              BY <6>1
            <6> QED
              BY <1>4, <4>1, <6>1, <6>2
          <5>2. CASE ~(slot >= j - count)
            <6>1. /\ transmitRing'[slot].holds = transmitRing[slot].holds
                  /\ ~(slot >= places[slot] - 1)
              BY <1>23, <3>3, <4>1, <4>2, <5>2
            <6> QED
              BY <3>1, <4>1, <6>1
          <5> QED
            BY <5>1, <5>2
        <4>4. ASSUME NEW other \in Slot, Filled(other)', frames[other] = frames[slot]
              PROVE  /\ places[other] = places[slot] => other = slot
                     /\ Last(slot)' => places[other] <= places[slot]
          <5>1. ~Filled(other)
            BY <1>16, <4>1, <4>4
          <5>2. PICK i \in 0 .. Slots - 1 : i >= count /\ i < total /\ other = Spot(i)
            BY <1>17, <4>4, <5>1
          <5>3. places[other] = i - count + 1
            BY <1>11, <5>2
          <5>4. /\ i - count + 1 = j - count + 1 => i = j
                /\ j = total - 1 => i - count + 1 <= j - count + 1
            BY <1>6, <5>2
          <5>5. /\ places[other] = places[slot] => i = j
                /\ transmitRing'[slot].last => places[other] <= places[slot]
            BY <4>1, <5>3, <5>4
          <5> QED
            BY <3>2, <5>2, <5>5 DEF Last
        <4>5. frames[slot] \in 1 .. name /\ places[slot] \in 1 .. MaxFragments
          BY <1>4, <1>23, <3>3, <4>1
        <4> QED
          BY <4>3, <4>4, <4>5
      <3>4. CASE ~(j >= count /\ j < total)
        <4>1. transmitRing'[slot] = transmitRing[slot]
          BY <1>7, <3>2, <3>4
        <4>2. transmitRing'[slot].holds[1] <= name
          BY <3>1, <4>1
        <4>3. SUFFICES ASSUME Filled(slot)'
                       PROVE  /\ frames[slot] \in 1 .. name
                              /\ places[slot] \in 1 .. MaxFragments
                              /\ slot >= places[slot] - 1 =>
                                    transmitRing'[slot].holds = <<frames[slot], places[slot]>>
                              /\ slot < places[slot] - 1 =>
                                    transmitRing'[slot].holds[1] < frames[slot]
                              /\ \A other \in Slot :
                                    Filled(other)' /\ frames[other] = frames[slot] =>
                                        /\ places[other] = places[slot] => other = slot
                                        /\ Last(slot)' => places[other] <= places[slot]
          BY <4>2
        <4>4. Filled(slot) /\ Last(slot)' = Last(slot)
          BY <4>1, <4>3 DEF Filled, Last
        <4>5. /\ frames[slot] = frameOf[slot] /\ places[slot] = partOf[slot]
              /\ frameOf[slot] \in 1 .. created /\ frames[slot] # name
          BY <1>16, <4>4
        <4>6. ASSUME NEW other \in Slot, Filled(other)', frames[other] = frames[slot]
              PROVE  /\ places[other] = places[slot] => other = slot
                     /\ Last(slot)' => places[other] <= places[slot]
          <5>1. Filled(other)
            <6>1. SUFFICES ASSUME ~Filled(other)
                           PROVE  FALSE
              OBVIOUS
            <6>2. PICK i \in 0 .. Slots - 1 : i >= count /\ i < total /\ other = Spot(i)
              BY <1>17, <4>6, <6>1
            <6>3. frames[other] = name
              BY <1>11, <6>2
            <6> QED
              BY <4>5, <4>6, <6>3
          <5>2. frameOf[other] = frameOf[slot] /\ places[other] = partOf[other]
            BY <1>16, <4>5, <4>6, <5>1
          <5> QED
            BY <1>1, <4>4, <4>5, <5>1, <5>2 DEF Named
        <4>7. /\ frames[slot] \in 1 .. name
              /\ frameOf[slot] \in 1 .. created /\ partOf[slot] \in 1 .. MaxFragments
          BY <1>1, <1>4, <4>4, <4>5 DEF Named
        <4> QED
          BY <1>1, <4>1, <4>4, <4>5, <4>6, <4>7 DEF Named
      <3> QED
        BY <3>3, <3>4
    <2>2. created' = name
      BY <1>3, <1>4
    <2>3. ASSUME NEW slot \in Slot
          PROVE  /\ transmitRing'[slot].holds[1] <= created'
                 /\ Filled(slot)' =>
                    /\ frames[slot] \in 1 .. created' /\ places[slot] \in 1 .. MaxFragments
                    /\ slot >= places[slot] - 1 =>
                        transmitRing'[slot].holds = <<frames[slot], places[slot]>>
                    /\ slot < places[slot] - 1 =>
                        transmitRing'[slot].holds[1] < frames[slot]
                    /\ \A other \in Slot :
                        Filled(other)' /\ frames[other] = frames[slot] =>
                            /\ places[other] = places[slot] => other = slot
                            /\ Last(slot)' => places[other] <= places[slot]
      BY <2>1, <2>2, Zenon
    <2> QED
      BY <2>3, Zenon DEF Named
  <1>25. ~Given(name) /\ ~Gone(name)
    <2>1. \A i \in 1 .. Len(handedOver) : handedOver[i] \in 1 .. created
      <3>1. handedOver \in Seq(1 .. created)
        BY DEF TransmitShape
      <3> QED
        BY <3>1, ElementOfSeq
    <2>2. \A i \in 1 .. Len(wire) : SentName(i) \in 1 .. created
      BY DEF Sent
    <2>3. name \notin 1 .. created
      BY <1>4
    <2> QED
      BY <2>1, <2>2, <2>3 DEF Given, Gone
  <1>26. \A f : Given(f)' = Given(f) /\ Gone(f)' = Gone(f)
    BY <1>3 DEF Given, Gone, SentName
  <1>27. \A slot \in Slot : Next1(slot) \in Slot /\ Next1(slot)' = Next1(slot)
    BY SpotIs DEF Next1, Advanced
  (* What is behind a descriptor of the new frame, and not the last one. *)
  <1>28. ASSUME NEW j \in 0 .. Slots - 1, j >= count, j < total - 1
         PROVE  transmitRing'[Next1(Spot(j))].DMAOwnership /\ at # Next1(Spot(j))
    <2>1. PICK i \in 0 .. Slots - 1 : i = j + 1 /\ i > count /\ i >= count /\ i < total
      BY <1>6, <1>28
    <2>2. Next1(Spot(j)) = Spot(i)
      BY <2>1, SpotIs
    <2> QED
      BY <1>7, <1>19, <2>1, <2>2
  <1>29. Owning(frames)'
    <2>1. ASSUME NEW slot \in Slot, Owned(slot)'
          PROVE  /\ ~Last(slot)' => transmitRing'[Next1(slot)].DMAOwnership /\ at # Next1(slot)
                 /\ Given(frames[slot]) \/ frames[slot] = name
                 /\ ~Gone(frames[slot])
      <3>1. PICK j \in 0 .. Slots - 1 : slot = Spot(j)
        BY SpotIs
      <3>2. CASE j >= count /\ j < total
        <4>1. frames[slot] = name /\ (~Last(slot)' => j # total - 1)
          BY <1>7, <1>11, <3>1, <3>2 DEF Last
        <4>2. ~Last(slot)' => j < total - 1
          BY <1>6, <3>2, <4>1
        <4> QED
          BY <1>25, <1>28, <3>1, <3>2, <4>1, <4>2
      <3>3. CASE ~(j >= count /\ j < total)
        <4>1. Owned(slot) /\ Filled(slot) /\ Last(slot)' = Last(slot)
          BY <1>7, <1>15, <2>1, <3>1, <3>3 DEF Owned, Last
        <4>2. /\ ~Last(slot) => Owned(Next1(slot)) /\ at # Next1(slot)
              /\ Given(frameOf[slot]) /\ ~Gone(frameOf[slot])
          BY <1>1, <1>3, <1>18, <4>1 DEF Owning
        <4>3. Owned(Next1(slot)) => transmitRing'[Next1(slot)].DMAOwnership
          BY <1>15, <1>16, <1>27 DEF Owned
        <4> QED
          BY <1>16, <4>1, <4>2, <4>3
      <3> QED
        BY <3>2, <3>3
    <2> QED
      BY <1>3, <1>4, <1>18, <1>26, <1>27, <2>1 DEF Owning, Owned
  <1>30. InHand(total, frames, places)'
    <2>1. PICK start \in Slot : start = transmitableDescriptor /\ start = Spot(count)
      BY <1>1 DEF Used, TransmitShape
    <2>2. /\ count \in 0 .. Slots - 1 /\ count >= count /\ count < total /\ ~(count > count)
          /\ (count # total - 1 => count < total - 1) /\ total - n = count /\ n \in 1 .. total
      BY <1>6
    <2>3. ~transmitRing'[start].DMAOwnership
      BY <1>7, <2>1, <2>2
    <2>4. ~transmitRing'[start].last =>
                transmitRing'[Next1(start)].DMAOwnership /\ at # Next1(start)
      BY <1>7, <1>28, <2>1, <2>2
    <2>5. ASSUME NEW k \in 0 .. total - 1
          PROVE  /\ frames[Spot(k)] = name <=> k >= count
                 /\ k >= count => places[Spot(k)] = k - count + 1
      <3>1. k \in 0 .. Slots - 1 /\ k < total /\ Spot(k) \in Slot
        BY <1>6, SpotIs
      <3>2. CASE k >= count
        BY <1>11, <3>1, <3>2
      <3>3. CASE ~(k >= count)
        <4>1. Filled(Spot(k))
          BY <1>6, <1>14, <3>1, <3>3
        <4> QED
          BY <1>16, <3>1, <3>3, <4>1
      <3> QED
        BY <3>2, <3>3
    <2>6. Owned(at) => frames[at] # name
      BY <1>15, <1>16
    <2>7. /\ claimed'.count = n /\ claimed'.start = start /\ sender'.at = at /\ created' = name
      BY <1>3, <1>4, <1>18, <2>1
    <2>8. Owned(sender.at)' => frames[sender'.at] # name
      BY <1>20, <2>6, <2>7
    <2>9. ~Given(created)' /\ ~Gone(created)'
      BY <1>3, <1>25, <2>7 DEF Given, Gone, SentName
    <2> QED
      BY <1>12, <1>27, <2>1, <2>2, <2>3, <2>4, <2>5, <2>7, <2>8, <2>9 DEF InHand, Owned, Last
  <1>31. Sending(frames, places)'
    <2>1. sender.status = "Passing" \/ sender.parts # <<>> => Owned(at)
      BY <1>1, <1>18 DEF Sending
    <2>2. ASSUME Owned(at)
          PROVE  /\ places[at] = Len(sender.parts) + 1
                 /\ \E m \in 0 .. Len(sender.parts) :
                        /\ Len(sender.parts) > 0 => m > 0
                        /\ at >= Len(sender.parts) => m = Len(sender.parts)
                        /\ Written(sender.parts, frames[at], m)
                 /\ \A slot \in Slot :
                        Owned(slot)' /\ frames[slot] = frames[at] => places[slot] >= places[at]
      <3>1. /\ partOf[at] = Len(sender.parts) + 1
            /\ \E m \in 0 .. Len(sender.parts) :
                   /\ Len(sender.parts) > 0 => m > 0
                   /\ at >= Len(sender.parts) => m = Len(sender.parts)
                   /\ Written(sender.parts, frameOf[at], m)
            /\ \A slot \in Slot :
                   Owned(slot) /\ frameOf[slot] = frameOf[at] => partOf[slot] >= partOf[at]
        BY <1>1, <1>18, <2>2 DEF Sending
      <3>2. Filled(at) /\ frames[at] = frameOf[at] /\ places[at] = partOf[at] /\ frames[at] # name
        BY <1>15, <1>16, <2>2
      <3>3. ASSUME NEW slot \in Slot, Owned(slot)', frames[slot] = frames[at]
            PROVE  places[slot] >= places[at]
        <4>1. PICK j \in 0 .. Slots - 1 : slot = Spot(j)
          BY SpotIs
        <4>2. ~(j >= count /\ j < total)
          BY <1>11, <3>2, <3>3, <4>1
        <4>3. Owned(slot) /\ Filled(slot)
          BY <1>7, <1>15, <3>3, <4>1, <4>2 DEF Owned
        <4> QED
          BY <1>16, <3>1, <3>2, <3>3, <4>3
      <3> QED
        BY <3>1, <3>2, <3>3
    <2>3. sender' = sender
      BY <1>3
    <2>4. \A m : Written(sender.parts, frames[sender.at], m)' = Written(sender.parts, frames[at], m)
      BY <1>3, <1>18 DEF Written
    <2> QED
      BY <1>18, <1>20, <2>1, <2>2, <2>3, <2>4 DEF Sending
  <1>32. Len(handedOver) \in Nat /\ Len(handedOver) + 0 <= created
    BY <1>3, LenProperties DEF TransmitShape, Counted
  <1>33. InOrder(total, frames)'
    <2>1. SUFFICES ASSUME NoFrameDropped'
                   PROVE  InOrder(total, frames)'
      BY DEF InOrder
    <2>2. NoFrameDropped
      BY <1>3, <1>4, <1>32, <2>1 DEF NoFrameDropped, Filling
    <2>3. /\ \A i \in 1 .. Len(handedOver) : handedOver[i] = i
          /\ \A i \in 1 .. Len(wire) : SentName(i) = i
      BY <1>1, <2>2 DEF InOrder
    <2>4. PICK spot \in 0 .. count :
            /\ at = Spot(spot)
            /\ \A k \in 0 .. count - 1 : Owned(Spot(k)) <=> k >= spot
            /\ Len(wire) + 1 = IF spot < count THEN frameOf[Spot(spot)] ELSE created + 1
      BY <1>1, <1>3, <1>18, <2>2 DEF InOrder
    <2>5. spot \in 0 .. total /\ spot <= count /\ total - n = count /\ spot < total
          /\ spot \in 0 .. Slots - 1
      BY <1>6
    <2>6. ASSUME NEW k \in 0 .. total - 1
          PROVE  transmitRing'[Spot(k)].DMAOwnership <=> k >= spot /\ k # count
      <3>1. k \in 0 .. Slots - 1 /\ k < total
        BY <1>6
      <3>2. CASE k >= count
        <4>1. k >= spot /\ (k > count <=> k # count)
          BY <1>6, <2>5, <3>2
        <4> QED
          BY <1>7, <3>1, <3>2, <4>1
      <3>3. CASE ~(k >= count)
        <4>1. k \in 0 .. count - 1 /\ k # count
          BY <1>6, <3>3
        <4> QED
          BY <1>7, <2>4, <3>1, <3>3, <4>1 DEF Owned
      <3> QED
        BY <3>2, <3>3
    <2>7. Len(wire) + 1 = frames[Spot(spot)]
      <3>1. CASE spot < count
        <4>1. ~(spot >= count)
          BY <1>6, <3>1
        <4> QED
          BY <1>11, <2>4, <2>5, <3>1, <4>1
      <3>2. CASE ~(spot < count)
        <4>1. spot >= count
          BY <1>6, <3>2
        <4> QED
          BY <1>4, <1>11, <2>4, <2>5, <3>2, <4>1
      <3> QED
        BY <3>1, <3>2
    <2>8. claimed'.count = n /\ sender'.at = at /\ wire' = wire /\ handedOver' = handedOver
      BY <1>3, <1>18
    <2> QED
      BY <1>3, <1>12, <2>3, <2>4, <2>5, <2>6, <2>7, <2>8 DEF InOrder, SentName, Owned
  <1>34. Counted'
    BY <1>3, <1>4, <1>32 DEF Counted
  <1>35. Sent'
    <2>1. 1 .. created \subseteq 1 .. created'
      BY <1>3, <1>4
    <2> QED
      BY <1>3, <2>1 DEF Sent, SentName, Written
  <1>36. TransmitRingOK(total, frames, places)'
    BY <1>21, <1>22, <1>24, <1>29, <1>30, <1>31, <1>33 DEF TransmitRingOK
  <1> QED
    BY <1>10, <1>34, <1>35, <1>36

LEMMA TransmitStepKeepsInv ==
    ASSUME TransmitInv, [TransmitNext]_transmitVars
    PROVE  TransmitInv'
  <1>1. PICK count \in 0 .. Slots, frameOf \in [Slot -> Nat], partOf \in [Slot -> Nat] :
            TransmitRingOK(count, frameOf, partOf)
    BY DEF TransmitInv
  <1>2. TransmitShape /\ TransmitShape' /\ Sent /\ Counted
    BY TransmitStepKeepsShape DEF TransmitInv
  <1>3. ASSUME UNCHANGED <<created, wire>>
        PROVE  Sent'
    BY <1>2, <1>3 DEF Sent, SentName, Written
  <1>4. ASSUME UNCHANGED <<created, handedOver>>, Filling' = Filling
        PROVE  Counted'
    BY <1>2, <1>4 DEF Counted
  <1>5. CASE Quiet
    <2>1. TransmitRingOK(count, frameOf, partOf)'
      BY <1>1, <1>2, <1>5, QuietKeepsRing
    <2>2. UNCHANGED <<created, wire, handedOver>> /\ Filling' = Filling
      BY <1>2, <1>5, QuietIs
    <2> QED
      BY <1>2, <1>3, <1>4, <2>1, <2>2 DEF TransmitInv
  <1>6. CASE \E n \in Creatable : CreateFrame(n)
    <2>1. PICK n \in Creatable : CreateFrame(n)
      BY <1>6
    <2> QED
      BY <1>1, <1>2, <2>1, CreateKeepsRing DEF TransmitInv
  <1>7. CASE HandOver
    <2>1. TransmitRingOK(count, frameOf, partOf)' /\ Counted'
      BY <1>1, <1>2, <1>7, HandOverKeepsRing
    <2>2. Sent'
      BY <1>3, <1>7 DEF HandOver
    <2> QED
      BY <1>2, <2>1, <2>2 DEF TransmitInv
  <1>8. CASE claimed.count = 1 /\ DropFrame
    <2>1. TransmitRingOK(count, frameOf, partOf)' /\ Counted'
      BY <1>1, <1>2, <1>8, DropKeepsRing
    <2>2. Sent'
      BY <1>3, <1>8 DEF DropFrame
    <2> QED
      BY <1>2, <2>1, <2>2 DEF TransmitInv
  <1>9. CASE \E n \in 1 .. MaxFragments : Reclaim(n)
    <2>1. PICK n \in 1 .. MaxFragments : Reclaim(n)
      BY <1>9
    <2>2. PICK left \in 0 .. Slots : TransmitRingOK(left, frameOf, partOf)'
      BY <1>1, <1>2, <2>1, ReclaimKeepsRing
    <2>3. Sent' /\ Counted'
      BY <1>3, <1>4, <2>1 DEF Reclaim, Filling
    <2> QED
      BY <1>2, <2>2, <2>3 DEF TransmitInv
  <1>10. CASE SenderPass
    <2>1. TransmitRingOK(count, frameOf, partOf)' /\ Sent'
      BY <1>1, <1>2, <1>10, PassKeepsRing
    <2>2. Counted'
      BY <1>4, <1>10 DEF SenderPass, Filling
    <2> QED
      BY <1>2, <2>1, <2>2 DEF TransmitInv
  <1> QED
    BY <1>5, <1>6, <1>7, <1>8, <1>9, <1>10 DEF TransmitNext, Quiet

(* The transmit ring holds whole frames, one behind the other; the engine  *)
(* owns no descriptor of a frame that was sent, has in hand what is in     *)
(* front of its descriptor, and is given a frame back to front.            *)
THEOREM TransmitInvariant == TransmitSpec => []TransmitInv
  <1> QED
    BY TransmitInitial, TransmitStepKeepsInv, PTL DEF TransmitSpec

(* The variables of the transmit side keep their types.                    *)
THEOREM TransmitTypeCorrect == TransmitSpec => []TransmitTypeOK
  <1>1. ASSUME TransmitInv
        PROVE  TransmitTypeOK
    <2>1. TransmitShape
      BY <1>1 DEF TransmitInv
    <2>2. /\ sender.status \in {"Stopped", "Fetching", "FoundNone", "Passing", "Suspended"}
          /\ sender.at \in Slot /\ sender.parts \in Seq(TransmitPart)
      BY <2>1 DEF TransmitShape
    <2> QED
      BY <2>1, <2>2 DEF TransmitShape, TransmitTypeOK, TransmitPart, TransmitDescriptor
  <1> QED
    BY <1>1, TransmitInvariant, PTL

(* What the engine sends is what the caller of createFrame() wrote, in a   *)
(* ring of any size: no buffer is taken back, or claimed for another       *)
(* frame, before it was read.                                              *)
THEOREM SentAsWritten == TransmitSpec => []FramesSentAsWritten
  <1>1. ASSUME TransmitInv
        PROVE  FramesSentAsWritten
    BY <1>1 DEF TransmitInv, Sent, FramesSentAsWritten
  <1> QED
    BY <1>1, TransmitInvariant, PTL

(* poll() never switches the engine off while there is something to send,  *)
(* unless the engine has suspended itself.                                 *)
THEOREM EngineIsNeverCutOff == TransmitSpec => NeverCutOff
  <1>1. ASSUME TransmitInv, TransmitNext,
               sender'.status = "Stopped", sender.status # "Stopped"
        PROVE  sender.status = "Suspended" \/ (sender.parts = <<>> /\ ~Here.DMAOwnership)
    <2>1. sender \in SenderRecord
      BY <1>1 DEF TransmitInv, TransmitShape, SenderRecord
    <2>2. \A status \in {"Fetching", "Passing", "FoundNone", "Suspended"} :
            [sender EXCEPT !.status = status].status = status
      BY <2>1 DEF SenderRecord
    <2>3. CASE EndReclaim
      <3>1. AllReclaimed
        BY <1>1, <2>3 DEF EndReclaim
      <3>2. PICK count \in 0 .. Slots, frameOf \in [Slot -> Nat], partOf \in [Slot -> Nat] :
                TransmitRingOK(count, frameOf, partOf)
        BY <1>1 DEF TransmitInv
      <3>3. ~Filled(Spot(0)) /\ 0 \in 0 .. Slots - 1
        BY <1>1, <3>1, SpotIs, TransmitConstants DEF AllReclaimed, TransmitInv, Filled
      <3>4. count = 0
        BY <3>2, <3>3, TransmitConstants DEF TransmitRingOK, Used
      <3>5. PICK k \in 0 .. Slots - 1 : sender.at = Spot(k)
        BY <1>1, <2>1, SpotIs DEF TransmitInv, SenderRecord
      <3>6. ~(k < count)
        BY <3>4, <3>5, TransmitConstants
      <3>7. ~Owned(sender.at)
        BY <2>1, <3>2, <3>5, <3>6 DEF TransmitRingOK, Used, SenderRecord
      <3> QED
        BY <3>2, <3>7 DEF TransmitRingOK, Sending, Owned, Here
    <2>4. CASE StopSuspended
      BY <1>1, <2>4 DEF StopSuspended
    <2>5. CASE StartSender
      BY <1>1, <2>2, <2>5 DEF StartSender
    <2>6. CASE SenderFetch
      BY <1>1, <2>2, <2>6 DEF SenderFetch
    <2>7. CASE SenderSuspend
      BY <1>1, <2>2, <2>7 DEF SenderSuspend
    <2>8. CASE SenderPass
      BY <1>1, <2>8 DEF SenderPass
    <2>9. CASE UNCHANGED sender
      BY <1>1, <2>9
    <2> QED
      BY <1>1, <2>3, <2>4, <2>5, <2>6, <2>7, <2>8, <2>9
         DEF TransmitNext, CreateFrame, HandOver, DropFrame, StartReclaim, Reclaim
  <1>2. TransmitInv /\ [TransmitNext]_transmitVars =>
            [(sender'.status = "Stopped" /\ sender.status # "Stopped")
                => \/ sender.status = "Suspended"
                   \/ sender.parts = <<>> /\ ~Here.DMAOwnership]_transmitVars
    BY <1>1
  <1> QED
    BY <1>2, TransmitInvariant, PTL DEF TransmitSpec, NeverCutOff

-----------------------------------------------------------------------------
(* The transmit ring is a queue.                                           *)
SentNames == [i \in 1 .. Len(wire) |-> SentName(i)]
SentByName ==
    /\ Len(wire) \in Nat
    /\ SentNames \in Seq(Nat) /\ Len(SentNames) = Len(wire)
    /\ \A i \in 1 .. Len(wire) : SentNames[i] = SentName(i)
SentInTurn == NoFrameDropped => \A i \in 1 .. Len(wire) : SentName(i) = i

LEMMA SentNamesAre ==
    ASSUME TransmitInv
    PROVE  SentByName /\ SentInTurn
  <1>1. Len(wire) \in Nat
    BY LenProperties DEF TransmitInv, TransmitShape
  <1>2. \A i \in 1 .. Len(wire) : SentNames[i] = SentName(i) /\ SentName(i) \in Nat
    <2>1. \A i \in 1 .. Len(wire) : SentName(i) \in 1 .. created
      BY DEF TransmitInv, Sent
    <2> QED
      BY <2>1 DEF SentNames
  <1>3. SentNames \in [1 .. Len(wire) -> Nat]
    BY <1>2 DEF SentNames
  <1>4. SentByName
    BY <1>1, <1>2, <1>3, LengthIs DEF SentByName
  <1>5. SentInTurn
    BY DEF TransmitInv, TransmitRingOK, InOrder, SentInTurn
  <1> QED
    BY <1>4, <1>5

(* The frame the engine ends is passed on by its name.                     *)
LEMMA SentNamesGrow ==
    ASSUME TransmitInv, TransmitInv', SenderPass, Last(sender.at),
           NEW frame, Append(sender.parts, Here.holds)[1] = <<frame, 1>>
    PROVE  /\ SentNames' = Append(SentNames, frame)
           /\ NoFrameDropped => frame = Len(SentNames) + 1
  <1>1. PICK m \in Nat : m = Len(wire)
    BY LenProperties DEF TransmitInv, TransmitShape
  <1>2. PICK whole : whole = Append(sender.parts, Here.holds)
    OBVIOUS
  <1>3. wire \in Seq(Seq(TransmitPart)) /\ whole \in Seq(TransmitPart) /\ wire' = Append(wire, whole)
    BY <1>2, PassIs DEF TransmitInv, TransmitShape
  <1>4. /\ Len(wire') = m + 1 /\ wire'[m + 1] = whole
        /\ \A i \in 1 .. m : wire'[i] = wire[i]
    BY <1>1, <1>3, AppendProperties
  <1>5. whole[1][1] = frame
    BY <1>2
  <1>6. /\ SentNames \in Seq(Nat) /\ Len(SentNames) = m
        /\ \A i \in 1 .. m : SentNames[i] = wire[i][1][1]
    BY <1>1, SentNamesAre DEF SentByName, SentName
  <1>7. /\ SentNames' \in Seq(Nat) /\ Len(SentNames') = m + 1
        /\ \A i \in 1 .. m + 1 : SentNames'[i] = wire'[i][1][1]
    <2>1. SentByName'
      BY SentNamesAre, PTL
    <2> QED
      BY <1>4, <2>1 DEF SentByName, SentName
  <1>8. frame \in Nat
    <2>1. m + 1 \in 1 .. m + 1 /\ SentNames'[m + 1] = frame
      BY <1>1, <1>4, <1>5, <1>7
    <2> QED
      BY <1>7, <2>1, ElementOfSeq
  <1>9. /\ Append(SentNames, frame) \in Seq(Nat)
        /\ Len(Append(SentNames, frame)) = m + 1
        /\ \A i \in 1 .. m : Append(SentNames, frame)[i] = SentNames[i]
        /\ Append(SentNames, frame)[m + 1] = frame
    BY <1>6, <1>8, AppendProperties
  <1>10. \A i \in 1 .. m + 1 : SentNames'[i] = Append(SentNames, frame)[i]
    <2>1. ASSUME NEW i \in 1 .. m + 1
          PROVE  SentNames'[i] = Append(SentNames, frame)[i]
      <3>1. CASE i = m + 1
        BY <1>1, <1>4, <1>5, <1>7, <1>9, <3>1
      <3>2. CASE i # m + 1
        <4>1. i \in 1 .. m
          BY <1>1, <3>2
        <4> QED
          BY <1>4, <1>6, <1>7, <1>9, <4>1
      <3> QED
        BY <3>1, <3>2
    <2> QED
      BY <2>1
  <1>11. SentNames' = Append(SentNames, frame)
    BY <1>7, <1>9, <1>10, SeqEqual
  <1>12. ASSUME NoFrameDropped
         PROVE  frame = Len(SentNames) + 1
    <2>1. NoFrameDropped'
      BY <1>12 DEF NoFrameDropped, SenderPass
    <2>2. SentInTurn'
      BY SentNamesAre, PTL
    <2>3. \A i \in 1 .. m + 1 : wire'[i][1][1] = i
      BY <1>4, <2>1, <2>2 DEF SentInTurn, SentName
    <2>4. m + 1 \in 1 .. m + 1
      BY <1>1
    <2> QED
      BY <1>4, <1>5, <1>6, <2>3, <2>4
  <1> QED
    BY <1>11, <1>12

LEMMA TransmitQueueStep ==
    ASSUME TransmitInv, [TransmitNext]_transmitVars
    PROVE  [Contract!QueueNext]_Contract!queueVars
  <1>1. TransmitInv' /\ TransmitShape /\ Counted
    BY TransmitStepKeepsInv DEF TransmitInv
  <1>2. PICK count \in 0 .. Slots, frameOf \in [Slot -> Nat], partOf \in [Slot -> Nat] :
            TransmitRingOK(count, frameOf, partOf)
    BY DEF TransmitInv
  <1>3. /\ created \in Nat /\ Len(handedOver) \in Nat
        /\ handedOver \in Seq(1 .. created) /\ DOMAIN handedOver = 1 .. Len(handedOver)
    BY <1>1, LenProperties, TransmitConstants DEF TransmitShape
  <1>4. ASSUME UNCHANGED <<wire, handedOver>>, NoFrameDropped' = NoFrameDropped
        PROVE  UNCHANGED Contract!queueVars
    BY <1>4 DEF Contract!queueVars, SentName
  <1>5. CASE Quiet \/ \E n \in 1 .. MaxFragments : Reclaim(n)
    <2>1. UNCHANGED <<wire, handedOver, created>> /\ Filling' = Filling
      BY <1>1, <1>5, QuietIs DEF Reclaim, Filling
    <2>2. NoFrameDropped' = NoFrameDropped
      BY <2>1 DEF NoFrameDropped, Filling
    <2> QED
      BY <1>4, <2>1, <2>2
  <1>6. CASE \E n \in Creatable : CreateFrame(n)
    <2>1. /\ UNCHANGED <<wire, handedOver>> /\ created' = created + 1
          /\ caller = "idle" /\ caller' = "filling"
      BY <1>6 DEF CreateFrame
    <2>2. PICK given \in Nat : given = Len(handedOver) /\ given = Len(handedOver')
      BY <1>3, <2>1
    <2>3. NoFrameDropped <=> created = given
      BY <2>1, <2>2 DEF NoFrameDropped
    <2>4. NoFrameDropped' <=> created + 1 = given + 1
      BY <2>1, <2>2 DEF NoFrameDropped
    <2>5. NoFrameDropped' = NoFrameDropped
      BY <1>3, <2>2, <2>3, <2>4 DEF NoFrameDropped
    <2> QED
      BY <1>4, <2>1, <2>5
  <1>7. CASE HandOver
    <2>1. /\ handedOver' = Append(handedOver, created) /\ UNCHANGED <<wire, created>>
          /\ caller = "filling" /\ caller' = "handed" /\ Filling
      BY <1>7 DEF HandOver, Filling
    <2>2. Len(handedOver') = Len(handedOver) + 1
      BY <1>1, <1>7, HandOverIs
    <2>3. NoFrameDropped' = NoFrameDropped
      BY <1>3, <2>1, <2>2 DEF NoFrameDropped
    <2>4. created \in 1 .. MaxFrames
      BY <1>1, <2>1, TransmitConstants DEF TransmitShape
    <2>5. ~Given(created)
      BY <1>2, <2>1 DEF TransmitRingOK, InHand
    <2>6. created \notin Contract!ToSet(handedOver)
      BY <1>3, <2>5 DEF Contract!ToSet, Given
    <2>7. Contract!Accept
      BY <2>1, <2>3, <2>4, <2>6 DEF Contract!Accept, SentName
    <2> QED
      BY <2>7 DEF Contract!QueueNext
  <1>8. CASE claimed.count = 1 /\ DropFrame
    <2>1. /\ UNCHANGED <<wire, handedOver, created>>
          /\ caller = "filling" /\ caller' = "idle" /\ Filling
      BY <1>8 DEF DropFrame, Filling
    <2>2. ~NoFrameDropped'
      <3>1. PICK given \in Nat : given = Len(handedOver) /\ given = Len(handedOver')
        BY <1>3, <2>1
      <3>2. given + 1 <= created
        BY <1>1, <2>1, <3>1 DEF Counted
      <3>3. NoFrameDropped' <=> created = given
        BY <2>1, <3>1 DEF NoFrameDropped
      <3> QED
        BY <1>3, <3>2, <3>3
    <2>3. NoFrameDropped' = FALSE
      BY <2>2 DEF NoFrameDropped
    <2>4. Contract!BreakOrder
      BY <2>1, <2>3 DEF Contract!BreakOrder, SentName
    <2> QED
      BY <2>4 DEF Contract!QueueNext
  <1>9. CASE SenderPass
    <2>1. UNCHANGED <<handedOver, created, caller>> /\ sender.status = "Passing"
      BY <1>9 DEF SenderPass
    <2>2. NoFrameDropped' = NoFrameDropped
      BY <2>1 DEF NoFrameDropped
    <2>3. CASE ~Last(sender.at)
      BY <1>1, <1>4, <1>9, <2>1, <2>2, <2>3, PassIs
    <2>4. CASE Last(sender.at)
      <3>1. PICK frame : /\ frame = frameOf[sender.at]
                         /\ Append(sender.parts, Here.holds)[1] = <<frame, 1>>
                         /\ Owned(sender.at)
        BY <1>1, <1>2, <2>1, PassingIs
      <3>2. /\ SentNames' = Append(SentNames, frame)
            /\ NoFrameDropped => frame = Len(SentNames) + 1
        BY <1>1, <1>9, <2>4, <3>1, SentNamesGrow
      <3>3. /\ Len(SentNames) \in Nat /\ DOMAIN SentNames = 1 .. Len(wire)
            /\ Len(SentNames) = Len(wire)
            /\ \A i \in 1 .. Len(wire) : SentNames[i] = SentName(i)
        BY SentNamesAre DEF SentByName, SentNames
      <3>4. Given(frame) /\ ~Gone(frame)
        <4>1. sender.at \in Slot
          BY <1>1 DEF TransmitShape
        <4>2. /\ Given(frame) \/ (Filling /\ frame = created)
              /\ ~Gone(frame)
          BY <1>2, <3>1, <4>1 DEF TransmitRingOK, Owning
        <4>3. Filling => frame # created
          BY <1>2, <3>1 DEF TransmitRingOK, InHand
        <4> QED
          BY <4>2, <4>3
      <3>5. CASE NoFrameDropped
        <4>1. \A i \in 1 .. Len(handedOver) : handedOver[i] = i
          BY <1>2, <3>5 DEF TransmitRingOK, InOrder
        <4>2. frame \in 1 .. Len(handedOver) /\ handedOver[frame] = frame
          BY <3>4, <4>1 DEF Given
        <4>3. Len(SentNames) < Len(handedOver)
          BY <1>3, <3>2, <3>3, <3>5, <4>2
        <4>4. SentNames' = Append(SentNames, handedOver[Len(SentNames) + 1])
          BY <3>2, <3>5, <4>2
        <4>5. Contract!PassInOrder
          BY <2>1, <2>2, <3>5, <4>3, <4>4 DEF Contract!PassInOrder, SentNames
        <4> QED
          BY <4>5 DEF Contract!QueueNext
      <3>6. CASE ~NoFrameDropped
        <4>1. frame \in Contract!ToSet(handedOver)
          BY <1>3, <3>4 DEF Contract!ToSet, Given
        <4>2. frame \notin Contract!ToSet(SentNames)
          BY <3>3, <3>4 DEF Contract!ToSet, Gone
        <4>3. Contract!PassInAnyOrder
          BY <2>1, <2>2, <3>2, <3>6, <4>1, <4>2 DEF Contract!PassInAnyOrder, SentNames
        <4> QED
          BY <4>3 DEF Contract!QueueNext
      <3> QED
        BY <3>5, <3>6
    <2> QED
      BY <2>3, <2>4
  <1> QED
    BY <1>5, <1>6, <1>7, <1>8, <1>9 DEF TransmitNext, Quiet

(* The driver's transmit side implements FrameQueue: only frames that were *)
(* handed over are sent, each once, and in order until a caller of         *)
(* createFrame() drops one.                                                *)
THEOREM TransmitIsQueue == TransmitSpec => TransmitContract
  <1>1. ASSUME TransmitInit
        PROVE  Contract!QueueInit
    <2>1. /\ handedOver = <<>> /\ wire = <<>> /\ Len(wire) = 0
          /\ created = 0 /\ caller = "idle" /\ Len(handedOver) = 0
      BY <1>1 DEF TransmitInit
    <2>2. SentNames \in Seq(Nat) /\ Len(SentNames) = 0
      BY <1>1, <2>1, TransmitInitial, SentNamesAre DEF SentByName
    <2>3. SentNames = <<>>
      BY <2>2, EmptySeq
    <2>4. NoFrameDropped = TRUE
      BY <2>1 DEF NoFrameDropped
    <2> QED
      BY <2>1, <2>3, <2>4 DEF Contract!QueueInit, SentNames
  <1> QED
    BY <1>1, TransmitQueueStep, TransmitInvariant, PTL
    DEF TransmitSpec, TransmitContract, Contract!QueueSpec
=============================================================================
