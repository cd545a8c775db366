------------------------------ MODULE MCDatagram ------------------------------
(* A small instance of DatagramDispatcher for TLC: two sessions compete    *)
(* for one stream-id, whose frames come over two connections, and one      *)
(* frame does not decode.                                                  *)
EXTENDS DatagramDispatcher

OneId == [h \in Sessions |-> "i1"]
TwoConns == [f \in Frames |-> IF f = "f1" THEN "c1" ELSE "c2"]
SomeBroken == [f \in Frames |-> IF f = "f3" THEN "truncated" ELSE "i1"]
=============================================================================
