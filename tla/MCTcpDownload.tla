---------------------------- MODULE MCTcpDownload ----------------------------
(* Small instances of TcpDownload.                                          *)
EXTENDS TcpDownload

(* Initial sequence numbers: far from the end of the sequence space, and    *)
(* for the host b so close to it that its FIN is beyond.                    *)
IsnLow == [p \in Peers |-> 5]
IsnMixed == [p \in Peers |-> IF p = "b" THEN SequenceSpace - 3 ELSE 5]
=============================================================================
