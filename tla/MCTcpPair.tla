------------------------------ MODULE MCTcpPair ------------------------------
(* Small instances of TcpPair: which side closes, and in which states.      *)
EXTENDS TcpPair

ListenerCloses == [h \in {"a", "b"} |-> IF h = "b" THEN {"Established"} ELSE {}]
OpenerCloses == [h \in {"a", "b"} |-> IF h = "a" THEN {"Established"} ELSE {}]
BothClose == [h \in {"a", "b"} |-> {"Established"}]
=============================================================================
