--------------------------- MODULE StreamDelivery ---------------------------
(***************************************************************************)
(* What a boot download promises, without segments, timers or handshakes:  *)
(* it accepts one source, takes the bytes of that source's image in order  *)
(* and without a gap, and ends once, complete only with all of them.       *)
(***************************************************************************)
EXTENDS Integers

CONSTANTS
    Sources,      \* those who may upload
    NoSource,     \* nobody yet
    Length        \* the bytes of an image

VARIABLES
    source,       \* whose image is being taken
    delivered,    \* the numbers of the bytes taken
    outcome       \* pending, complete or failed

streamVars == <<source, delivered, outcome>>

Prefix(n) == 0 .. n - 1

StreamInit ==
    /\ source = NoSource
    /\ delivered = {}
    /\ outcome = "pending"

Accept(h) ==
    /\ source = NoSource
    /\ source' = h
    /\ UNCHANGED <<delivered, outcome>>

(* One step may take any number of bytes, but only the next ones.           *)
Deliver(n) ==
    /\ source # NoSource /\ outcome = "pending"
    /\ delivered # Prefix(n) /\ delivered \subseteq Prefix(n)
    /\ delivered' = Prefix(n)
    /\ UNCHANGED <<source, outcome>>

Complete ==
    /\ source # NoSource /\ outcome = "pending"
    /\ delivered = Prefix(Length)
    /\ outcome' = "complete"
    /\ UNCHANGED <<source, delivered>>

Fail ==
    /\ source # NoSource /\ outcome = "pending"
    /\ outcome' = "failed"
    /\ UNCHANGED <<source, delivered>>

StreamNext ==
    \/ \E h \in Sources : Accept(h)
    \/ \E n \in 1 .. Length : Deliver(n)
    \/ Complete
    \/ Fail

StreamSpec == StreamInit /\ [][StreamNext]_streamVars
=============================================================================
