---------------------------- MODULE MCBootloader ----------------------------
(***************************************************************************)
(* main() with its clock, and the judgement of the image.  They share no   *)
(* state: a behaviour runs one of them and leaves the other as it began.   *)
(***************************************************************************)
EXTENDS Bootloader, BootImage

MCMagicSeed == <<5, 7>>

MCContents == { <<3>>, <<9, 0, 14>>, <<15, 2, 2, 0, 1>> }

VARIABLE part           \* which of the two runs; never changes

vars == <<bootVars, imageVars, part>>

Init ==
    /\ part \in {"start", "image"}
    /\ BootInit /\ (part = "image" => uptimeClockMetaTicks = uptimeClockTicks)
    /\ IF part = "image" THEN ImageInit
       ELSE receiveBuffer = <<>> /\ built = <<>> /\ arrived = <<>> /\ verdict = "none"

Next ==
    \/ part = "start" /\ BootNext /\ UNCHANGED <<imageVars, part>>
    \/ part = "image" /\ ImageNext /\ UNCHANGED <<bootVars, part>>

Spec == Init /\ [][Next]_vars
=============================================================================
