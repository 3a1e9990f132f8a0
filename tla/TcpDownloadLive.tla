--------------------------- MODULE TcpDownloadLive ---------------------------
(***************************************************************************)
(* TcpDownload under fairness.  The network delivers every segment once,   *)
(* except for at most MaxLosses of them, which it loses; the hosts send    *)
(* what is not acknowledged again and again, so segments do arrive twice.  *)
(***************************************************************************)
EXTENDS TcpDownload

CONSTANTS
    MaxLosses,       \* segments the network may lose
    FinWithData      \* whether a host sends a FIN together with the bytes before it

ASSUME LifetimeAssumption == ~Duplicating

VARIABLE losses      \* segments lost so far

liveVars == <<vars, losses>>

LiveInit == Init /\ losses = 0

Arrive(s) ==
    /\ \/ BoardReceive(s)
       \/ \E p \in Peers : PeerEstablish(p, s) \/ PeerReceive(p, s)
    /\ UNCHANGED losses

Lose(s) ==
    /\ losses < MaxLosses
    /\ losses' = losses + 1
    /\ network' = network \ {s}
    /\ UNCHANGED <<connection, receiveBuffer, peer>>

(* The retransmission timer of a host sends the oldest unacknowledged bytes *)
(* and the FIN, again as long as they are not acknowledged.                 *)
PeerRetransmit(p) ==
    \E length \in 0 .. MaxSegment, finish \in BOOLEAN :
        /\ PeerSend(p, peer[p].acknowledged, length, finish, 0)
        /\ length = MaxSegment \/ peer[p].acknowledged + length = StreamLength
        /\ finish => FinWithData \/ length = 0

LiveNext ==
    \/ \E p \in Peers : (PeerConnect(p) \/ PeerAbort(p) \/ PeerRetransmit(p)) /\ UNCHANGED losses
    \/ \E s \in network : Arrive(s) \/ Lose(s)
    \/ BoardPoll /\ UNCHANGED losses
    \/ ClockTick /\ UNCHANGED losses

(* Every segment these hosts and the board can put on the wire.             *)
PeerSegments ==
    {[PlainSegment(Endpoint(p), Local) EXCEPT
        !.sequenceNumber = NumberOf(p, n), !.acknowledgment = TRUE, !.acknowledgmentNumber = a,
        !.length = length, !.finish = finish] :
      p \in Peers, n \in 0 .. StreamLength + 1, a \in 1 .. 2, length \in 0 .. MaxSegment,
      finish \in BOOLEAN}
    \cup {SynOf(p) : p \in Peers}

BoardSegments ==
    {[PlainSegment(Local, Endpoint(p)) EXCEPT
        !.sequenceNumber = n, !.acknowledgment = TRUE, !.acknowledgmentNumber = NumberOf(p, a),
        !.finish = finish] :
      p \in Peers, n \in 1 .. 2, a \in 0 .. StreamLength + 1, finish \in BOOLEAN}
    \cup {[PlainSegment(Local, Endpoint(p)) EXCEPT
             !.acknowledgment = TRUE, !.acknowledgmentNumber = NumberOf(p, 0),
             !.synchronize = TRUE, !.trailing = 2] : p \in Peers}

(* The main loop never stops polling and the clock never stops; a host      *)
(* that has opened its connection retransmits until all is acknowledged;    *)
(* what is not lost arrives.                                                *)
Fairness ==
    /\ WF_liveVars(BoardPoll /\ UNCHANGED losses)
    /\ WF_liveVars(ClockTick /\ UNCHANGED losses)
    /\ \A p \in Peers : WF_liveVars(PeerRetransmit(p) /\ UNCHANGED losses)
    /\ \A s \in PeerSegments \cup BoardSegments :
          WF_liveVars(s \in network /\ Arrive(s))

LiveSpec == LiveInit /\ [][LiveNext]_liveVars /\ Fairness
-----------------------------------------------------------------------------
(* "closes after the remote finishes" (Tcp.hpp:420): as long as the bound    *)
(* remote goes on once it has sent its FIN, the connection gets to Finished, *)
(* or to Closed, whatever is lost.  It does not say that the bootloader goes *)
(* on then: for a connection in Closed the main loop (Bootloader.cpp:60)     *)
(* runs for ever, and nothing listens again.                                 *)
ClosesAfterRemoteFinishes ==
    \A p \in Peers :
        connection.remote = Endpoint(p) /\ peer[p].finSent
            ~> connection.status \in {"Finished", "Closed"}
=============================================================================
