----------------------------- MODULE TcpPatience -----------------------------
(***************************************************************************)
(* TcpDownload with a stopwatch: how long the board has tried to reach the *)
(* host it is bound to when it gives up, and what becomes of it when       *)
(* nothing arrives any more.                                               *)
(***************************************************************************)
EXTENDS TcpDownload

VARIABLE waited      \* ticks since the connection was bound, counted up to Patience

patienceVars == <<vars, waited>>

(* The time six transmissions in a row take to expire.                      *)
Patience == (MaxRetries + 1) * RetryPeriod

PatienceInit == Init /\ waited = 0

PatienceTick ==
    /\ ClockTick
    /\ waited' = IF connection.remote # NoRemote /\ waited < Patience THEN waited + 1 ELSE waited

PatienceNext ==
    \/ /\ \/ \E p \in Peers : PeerStep(p)
          \/ \E s \in network : BoardReceive(s) \/ BoardRefuse(s)
          \/ BoardPoll
       /\ UNCHANGED waited
    \/ PatienceTick

(* The main loop never stops polling and the clock never stops.  That is    *)
(* all that is sure: a host may fall silent at any time, and what is on the *)
(* wire may never arrive.                                                   *)
PatienceFairness ==
    /\ WF_patienceVars(BoardPoll /\ UNCHANGED waited)
    /\ WF_patienceVars(PatienceTick)

PatienceSpec == PatienceInit /\ [][PatienceNext]_patienceVars /\ PatienceFairness
-----------------------------------------------------------------------------
(* As long as there is a frame for every transmission, the board gives an    *)
(* upload up no sooner than MaxRetries + 1 full periods after it began: no   *)
(* order of late segments, polls and ticks makes it lose patience earlier.   *)
GivesUpLate ==
    /\ FrameResults = {TRUE} /\ connection.status = "Closed"
    /\ \A p \in Peers : peer[p].state # "aborted"
    => waited >= Patience

(* Each retransmission stands for one expiry of the timer: the retries used  *)
(* so far never outrun the clock.                                            *)
RetriesTakeTime ==
    FrameResults = {TRUE} /\ connection.status # "Closed" =>
        connection.retryCounter * RetryPeriod + (RetryPeriod - connection.retryTimer)
            <= waited + (IF connection.remote = NoRemote THEN RetryPeriod ELSE 0)

(* From some step on nothing arrives at the board any more.                  *)
NothingArrives == <>[][\A s \in network : ~BoardReceive(s)]_patienceVars

(* A board that is left alone, wherever its connection was, comes to rest:   *)
(* the retry timer takes it out of SynReceived, FinSent and TimedClose.  The *)
(* four places of rest are all there is, and main() goes on from Finished    *)
(* alone: in Listen it waits for a host, in Closed it waits in vain, and so  *)
(* it does in Established, where poll() returns early (Tcp.hpp:334) and no   *)
(* timer watches the host.                                                   *)
LeftAloneComesToRest ==
    NothingArrives =>
        <>[](connection.status \in {"Listen", "Established", "Closed", "Finished"})
=============================================================================
