------------------------------ MODULE MCRings ------------------------------
(***************************************************************************)
(* The two descriptor rings of the EMAC driver, each with its half of the  *)
(* DMA engine.  They share no descriptor and no register: a behaviour runs *)
(* one of them and leaves the other as initialize() made it.  What they    *)
(* share is the memory behind the transmit buffers, in one direction:      *)
(* Spill is all that the receive side sees of the transmit side.           *)
(***************************************************************************)
EXTENDS TransmitRing, ReceiveRing

VARIABLE side           \* which of the two runs; never changes

vars == <<transmitVars, receiveVars, side>>

Init ==
    /\ TransmitInit
    /\ ReceiveInit
    /\ side \in {"transmit", "receive"}

Next ==
    \/ side = "transmit" /\ TransmitNext /\ UNCHANGED <<receiveVars, side>>
    \/ side = "receive" /\ ReceiveNext /\ UNCHANGED <<transmitVars, side>>

Fairness ==
    \/ side = "transmit" /\ TransmitFairness
    \/ side = "receive" /\ ReceiveFairness

Spec == Init /\ [][Next]_vars /\ Fairness
=============================================================================
