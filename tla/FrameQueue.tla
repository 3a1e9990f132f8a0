----------------------------- MODULE FrameQueue -----------------------------
(***************************************************************************)
(* What a descriptor ring promises: frames that were accepted are passed   *)
(* on, each at most once, and in the order in which they were accepted.    *)
(* The order is only promised until somebody breaks it: a caller that      *)
(* takes a frame from the transmit ring and never hands it over.           *)
(***************************************************************************)
EXTENDS Naturals, Sequences, SequencesExt

CONSTANT Frame          \* the names of frames

VARIABLES
    accepted,           \* the frames accepted so far, in order
    passed,             \* the frames passed on so far, in order
    ordered             \* nobody has broken the order yet

queueVars == <<accepted, passed, ordered>>

QueueInit ==
    /\ accepted = <<>>
    /\ passed = <<>>
    /\ ordered = TRUE

Accept ==
    /\ \E f \in Frame \ ToSet(accepted) : accepted' = Append(accepted, f)
    /\ UNCHANGED <<passed, ordered>>

PassInOrder ==
    /\ ordered
    /\ Len(passed) < Len(accepted)
    /\ passed' = Append(passed, accepted[Len(passed) + 1])
    /\ UNCHANGED <<accepted, ordered>>

PassInAnyOrder ==
    /\ ~ordered
    /\ \E f \in ToSet(accepted) \ ToSet(passed) : passed' = Append(passed, f)
    /\ UNCHANGED <<accepted, ordered>>

BreakOrder ==
    /\ ordered' = FALSE
    /\ UNCHANGED <<accepted, passed>>

QueueNext == Accept \/ PassInOrder \/ PassInAnyOrder \/ BreakOrder

QueueSpec == QueueInit /\ [][QueueNext]_queueVars
=============================================================================
