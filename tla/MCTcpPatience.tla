---------------------------- MODULE MCTcpPatience ----------------------------
(* Small instances of TcpPatience.                                          *)
EXTENDS TcpPatience

IsnLow == [p \in Peers |-> 5]
=============================================================================
