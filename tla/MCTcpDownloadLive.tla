-------------------------- MODULE MCTcpDownloadLive --------------------------
(* Small instances of TcpDownloadLive.                                      *)
EXTENDS TcpDownloadLive

IsnLow == [p \in Peers |-> 5]
=============================================================================
