----------------------------- MODULE MCRpcServer -----------------------------
(* A small instance of RpcServer for TLC.                                  *)
EXTENDS RpcServer

(* Two connections for the wire protocol with a substream each, and one    *)
(* for another ALPN.                                                       *)
AcrossConnections == [t \in Streams |-> IF t = "t1" THEN "c1" ELSE "c2"]
OneApp == [c \in Conns |-> IF c = "c3" THEN "app" ELSE "rpc"]
=============================================================================
