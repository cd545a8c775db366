---------------------------- MODULE MCNestedCalls ----------------------------
(* Node a's handler calls b, whose handler calls c, and b and c each have  *)
(* a client of their own: with one permit a node, of the two calls at b    *)
(* and at c one runs while the other waits.                                *)
EXTENDS NestedCalls

AtOf == [k \in Calls |-> CASE k = "a1" -> "a"
                           [] k \in {"b1", "b2"} -> "b"
                           [] k \in {"c1", "c2"} -> "c"]
ParentOf == [k \in Calls |-> CASE k = "b1" -> "a1" [] k = "c1" -> "b1"
                               [] OTHER -> NoCall]
RankOf == [n \in Nodes |-> CASE n = "a" -> 2 [] n = "b" -> 1 [] OTHER -> 0]
=============================================================================
