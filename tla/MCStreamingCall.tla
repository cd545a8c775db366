--------------------------- MODULE MCStreamingCall ---------------------------
(***************************************************************************)
(* StreamingCall for TLC, and the refinement mappings that show each of    *)
(* its directions - three buffers, two pumps, a substream that can be      *)
(* stopped, reset or lost - to implement one StreamPipe.                   *)
(***************************************************************************)
EXTENDS StreamingCall

(* The items on a wire: the frames between the open-request, or the answer *)
(* to it, and the end.                                                     *)
IsItem(f) == f.k \notin {"open", "ack", "nak", "end", "fin"}
Lead(wire) == IF wire # <<>> /\ wire[1].k \in {"open", "ack", "nak"} THEN 1 ELSE 0
LastItem(wire) ==
    CHOOSE n \in Lead(wire)..Len(wire) :
        /\ \A i \in (Lead(wire) + 1)..n : IsItem(wire[i])
        /\ n = Len(wire) \/ ~IsItem(wire[n + 1])
Items(wire) ==
    [i \in 1..(LastItem(wire) - Lead(wire)) |-> ItemOf(wire[Lead(wire) + i])]

ErrorItems(n) == [k : ItemKinds \ {"chunk"}, n : 0..n]

(* Requests: what the caller's sender has accepted and can still reach the *)
(* handler.                                                                *)
RequestsOpen ==
    /\ outPump # "done" /\ lost = {} /\ inReq # "done"
    /\ srv # "await" => hRx = "held"
RequestsRead == inReq # "done" /\ hRx = "held"
RequestsLeft ==
    hReq \o (IF RequestsRead THEN Items(c2s) ELSE <<>>)
         \o (IF RequestsOpen THEN Items(cReq) ELSE <<>>)
RequestPipe == INSTANCE StreamPipe WITH
    Item   <- [k : ItemKinds, n : 1..MaxReq],
    Errors <- ErrorItems(MaxReq),
    q      <- RequestsLeft,
    out    <- hGot,
    open   <- RequestsOpen

(* Responses, likewise.                                                    *)
ResponsesRead ==
    /\ inResp \in {"off", "run"}
    /\ call \in {"idle", "opening"} \/ cReceiver = "held"
ResponsesOpen == srv \in {"await", "drain"} /\ lost = {} /\ ResponsesRead
ResponsesLeft ==
    cResp \o (IF ResponsesRead THEN Items(s2c) ELSE <<>>)
          \o (IF ResponsesOpen THEN Items(hResp) ELSE <<>>)
ResponsePipe == INSTANCE StreamPipe WITH
    Item   <- [k : ItemKinds, n : 1..MaxResp],
    Errors <- ErrorItems(MaxResp),
    q      <- ResponsesLeft,
    out    <- got,
    open   <- ResponsesOpen

(* The requests, from the sender that call_streaming returns to the stream *)
(* the handler is given, are one pipe that can be cut ...                  *)
RequestsAreAPipe == RequestPipe!PipeSpec
(* ... and so are the responses, from the handler's sender through         *)
(* drain_handler_responses and pump_inbound_responses to the caller: what  *)
(* is lost is always a suffix, with one error at most in its place.        *)
ResponsesAreAPipe == ResponsePipe!PipeSpec
=============================================================================
