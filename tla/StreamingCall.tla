---------------------------- MODULE StreamingCall ----------------------------
(***************************************************************************)
(* One bidirectional streaming call of nerw-rpc over one QUIC substream:   *)
(*                                                                         *)
(*   caller -cReq-> pump_outbound_requests =c2s=> pump_inbound_requests    *)
(*                                                  -hReq-> handler        *)
(*   caller <-cResp- pump_inbound_responses <=s2c= drain_handler_responses *)
(*                                                  <-hResp- handler       *)
(*                                                                         *)
(* Single arrows are tokio mpsc channels (capacity ChanCap, 16 in the      *)
(* code), double arrows are the two halves of the substream.  The caller   *)
(* and the handler are application code: they may do anything the types    *)
(* of client.rs and streaming.rs let them do.                              *)
(*                                                                         *)
(* A pump that reads a frame and then waits for room in its channel is one *)
(* action here, enabled when there is room: the frame it holds meanwhile   *)
(* counts as still on the wire.  Likewise an item that a writing pump      *)
(* holds while the write blocks counts as still in its channel.            *)
(***************************************************************************)
EXTENDS Integers, Sequences

CONSTANTS
    ChanCap,    \* capacity of each mpsc channel
    WireCap,    \* frames one direction of the substream buffers
    ReqKinds,   \* what a client may put on its request half
    RespKinds,  \* what a handler may put into its response sender
    Failing,    \* sides whose connection may fail, a subset of {"c", "s"}
    MaxReq,     \* bound: items the caller sends
    MaxResp     \* bound: items the handler sends

(***************************************************************************)
(* "big" is a chunk above MAX_STREAMING_PAYLOAD_LEN, which no writer       *)
(* refuses; "err"/"nerr" an error frame with terminal set/clear; "odd" a   *)
(* well-formed frame of the wrong direction.  The client of this crate     *)
(* sends chunks only; the other kinds are for other implementations of     *)
(* the wire format.                                                        *)
(***************************************************************************)
ASSUME ConstantsAssumption ==
    /\ ChanCap \in Nat \ {0}
    /\ WireCap \in Nat \ {0}
    /\ MaxReq \in Nat
    /\ MaxResp \in Nat
    /\ Failing \subseteq {"c", "s"}
    /\ ReqKinds \subseteq {"chunk", "big", "err", "nerr", "odd"}
    /\ RespKinds \subseteq {"chunk", "big", "err"}

VARIABLES
    \* client
    call,       \* progress of call_streaming
    cSender,    \* the caller's mpsc::Sender: held or gone
    cReceiver,  \* the caller's response stream: held or gone
    cReq, cResp,
    outPump,    \* pump_outbound_requests
    inResp,     \* pump_inbound_responses, and how it ended
    \* transport
    c2s, s2c,         \* frames in flight, in order
    c2sStop, s2cStop, \* STOP_SENDING of the direction: no, sent, seen
    lost,             \* sides whose connection has failed
    \* server
    srv,        \* handle_streaming_substream
    inReq,      \* pump_inbound_requests
    hReq, hResp,
    hRx,        \* the handler's request stream: held or gone
    hTx,        \* the response sender and its clones: held, or all gone
    handler,    \* the handler task
    \* what the application sees
    nReq, nResp,        \* items accepted from the caller, from the handler
    hGot, got           \* items received by the handler, by the caller

callerVars  == <<cSender, cReceiver, nReq, got>>
clientVars  == <<call, cReq, cResp, outPump, inResp>>
wireVars    == <<c2s, s2c, c2sStop, s2cStop, lost>>
serverVars  == <<srv, inReq, hReq, hResp>>
handlerVars == <<hRx, hTx, handler, nResp, hGot>>
vars == <<callerVars, clientVars, wireVars, serverVars, handlerVars>>

-----------------------------------------------------------------------------
(* Frames and channel items.  n numbers the items of one direction in the  *)
(* order their sender issued them; frames made by the framework carry 0.   *)

FrameKinds == {"open", "ack", "nak", "end", "torn", "fin",
               "chunk", "big", "err", "nerr", "odd"}
ItemKinds  == {"chunk", "herr", "merr", "terr"}
Frame == [k : FrameKinds, n : Nat]
Item  == [k : ItemKinds, n : Nat]

F(kind) == [k |-> kind, n |-> 0]

(* Mutant: a frame is handed on as it is read, unclassified.               *)
ItemOf_Unclassified(f) == f

(* What read_streaming_frame and the pump's match make of a frame: the     *)
(* item it forwards, and whether the pump goes on afterwards.              *)
ItemOf(f) ==
    [k |-> CASE f.k = "chunk"           -> "chunk"
             [] f.k \in {"err", "nerr"} -> "herr"
             [] f.k = "torn"            -> "terr"
             [] OTHER                   -> "merr",
     n |-> f.n]
IsEnd(f)   == f.k \in {"end", "fin"}
GoesOn(f)  == f.k \in {"chunk", "nerr"}
TransportReadErr == [k |-> "terr", n |-> 0]

-----------------------------------------------------------------------------
(* The substream, as quinn provides it.  side is "c" or "s".               *)

(* A write completes: the frame is delivered unless the peer is gone.      *)
Written(wire, f) == IF lost = {} THEN Append(wire, f) ELSE wire
WriteFails(side, stop) == side \in lost \/ stop = "seen"
CanWrite(side, wire, stop) == ~WriteFails(side, stop) /\ Len(wire) < WireCap
(* finish(), and equally dropping a SendStream: FIN after what is written. *)
Finished(wire) == Written(wire, F("fin"))
(* Dropping a RecvStream whose FIN has not been read sends STOP_SENDING.   *)
Dropped(stop) == IF stop = "no" THEN "sent" ELSE stop

DeliverStopC2S ==
    /\ c2sStop = "sent" /\ lost = {}
    /\ c2sStop' = "seen" /\ c2s' = <<>>
    /\ UNCHANGED <<callerVars, clientVars, s2c, s2cStop, lost, serverVars, handlerVars>>

DeliverStopS2C ==
    /\ s2cStop = "sent" /\ lost = {}
    /\ s2cStop' = "seen" /\ s2c' = <<>>
    /\ UNCHANGED <<callerVars, clientVars, c2s, c2sStop, lost, serverVars, handlerVars>>

(* The connection fails for one side.  The first failure cuts both         *)
(* directions: of the frames in flight a prefix arrives.                   *)
ConnectionLost(side) ==
    /\ side \notin lost
    /\ lost' = lost \cup {side}
    /\ IF lost = {}
       THEN \E i \in 0..Len(c2s), j \in 0..Len(s2c) :
               c2s' = SubSeq(c2s, 1, i) /\ s2c' = SubSeq(s2c, 1, j)
       ELSE UNCHANGED <<c2s, s2c>>
    /\ UNCHANGED <<callerVars, clientVars, c2sStop, s2cStop, serverVars, handlerVars>>

-----------------------------------------------------------------------------
(* client.rs: call_streaming, up to the open-ack.                          *)

(* open_substream, then write_open_request.                                *)
call_streaming_open ==
    /\ call = "idle"
    /\ IF "c" \in lost
       THEN call' = "failed" /\ UNCHANGED c2s
       ELSE call' = "opening" /\ c2s' = Written(c2s, F("open"))
    /\ UNCHANGED <<callerVars, cReq, cResp, outPump, inResp, s2c, c2sStop, s2cStop,
                   lost, serverVars, handlerVars>>

(* The future is dropped while it writes the open-request ...              *)
CancelWhileWriting ==
    /\ call = "idle" /\ "c" \notin lost
    /\ call' = "cancelled"
    /\ c2s' = Finished(Written(c2s, F("torn")))
    /\ s2cStop' = Dropped(s2cStop)
    /\ UNCHANGED <<callerVars, cReq, cResp, outPump, inResp, s2c, c2sStop, lost,
                   serverVars, handlerVars>>

(* ... or while it waits for the open-ack.                                 *)
CancelWhileOpening ==
    /\ call = "opening"
    /\ call' = "cancelled"
    /\ c2s' = Finished(c2s)
    /\ s2cStop' = Dropped(s2cStop)
    /\ UNCHANGED <<callerVars, cReq, cResp, outPump, inResp, s2c, c2sStop, lost,
                   serverVars, handlerVars>>

(* The ack arrives: two channels and two pumps.                            *)
call_streaming_live ==
    /\ call = "opening" /\ s2c # <<>> /\ Head(s2c).k = "ack"
    /\ call' = "live"
    /\ s2c' = Tail(s2c)
    /\ outPump' = "run" /\ inResp' = "run"
    /\ cSender' = "held" /\ cReceiver' = "held"
    /\ UNCHANGED <<nReq, got, cReq, cResp, c2s, c2sStop, s2cStop,
                   lost, serverVars, handlerVars>>

(* Anything else returns an error and drops both halves: an error ack,     *)
(* end of stream, or a failed read.                                        *)
call_streaming_fails ==
    /\ call = "opening"
    /\ \/ s2c # <<>> /\ Head(s2c).k # "ack"
       \/ s2c = <<>> /\ "c" \in lost
    /\ call' = "failed"
    /\ c2s' = Finished(c2s)
    /\ s2cStop' = Dropped(s2cStop)
    /\ UNCHANGED <<callerVars, cReq, cResp, outPump, inResp, s2c, c2sStop, lost,
                   serverVars, handlerVars>>

-----------------------------------------------------------------------------
(* The caller's own steps.                                                 *)

CallerSend(kind) ==
    /\ cSender = "held" /\ outPump = "run" /\ Len(cReq) < ChanCap /\ nReq < MaxReq
    /\ nReq' = nReq + 1
    /\ cReq' = Append(cReq, [k |-> kind, n |-> nReq + 1])
    /\ UNCHANGED <<cSender, cReceiver, got, call, cResp, outPump,
                   inResp, wireVars, serverVars, handlerVars>>

CallerDropSender ==
    /\ cSender = "held"
    /\ cSender' = "gone"
    /\ UNCHANGED <<cReceiver, nReq, got, clientVars, wireVars,
                   serverVars, handlerVars>>

CallerReceive ==
    /\ cReceiver = "held" /\ cResp # <<>>
    /\ got' = Append(got, Head(cResp))
    /\ cResp' = Tail(cResp)
    /\ UNCHANGED <<cSender, cReceiver, nReq, call, cReq, outPump,
                   inResp, wireVars, serverVars, handlerVars>>

CallerDropReceiver ==
    /\ cReceiver = "held"
    /\ cReceiver' = "gone"
    /\ cResp' = <<>>
    /\ UNCHANGED <<cSender, nReq, got, call, cReq, outPump, inResp,
                   wireVars, serverVars, handlerVars>>

-----------------------------------------------------------------------------
(* client.rs: pump_outbound_requests.                                      *)

(* Mutant: a chunk whose write took too long is written again.             *)
pump_outbound_requests_resends ==
    /\ outPump = "run" /\ cReq # <<>> /\ CanWrite("c", c2s, c2sStop)
    /\ cReq' \in {cReq, Tail(cReq)}
    /\ c2s' = Written(c2s, Head(cReq))
    /\ UNCHANGED <<callerVars, call, cResp, outPump, inResp, s2c, c2sStop, s2cStop,
                   lost, serverVars, handlerVars>>

(* Mutant: one task for both directions, which holds a response until      *)
(* there is room for it before it takes the next request.                  *)
pump_outbound_requests_half_duplex ==
    /\ outPump = "run" /\ cReq # <<>> /\ CanWrite("c", c2s, c2sStop)
    /\ Len(cResp) < ChanCap
    /\ cReq' = Tail(cReq)
    /\ c2s' = Written(c2s, Head(cReq))
    /\ UNCHANGED <<callerVars, call, cResp, outPump, inResp, s2c, c2sStop, s2cStop,
                   lost, serverVars, handlerVars>>

(* The loop body: take a chunk, write it.                                  *)
pump_outbound_requests_chunk ==
    /\ outPump = "run" /\ cReq # <<>> /\ CanWrite("c", c2s, c2sStop)
    /\ cReq' = Tail(cReq)
    /\ c2s' = Written(c2s, Head(cReq))
    /\ UNCHANGED <<callerVars, call, cResp, outPump, inResp, s2c, c2sStop, s2cStop,
                   lost, serverVars, handlerVars>>

(* A write fails: return, dropping the channel and the send half.          *)
pump_outbound_requests_fails ==
    /\ outPump = "run" /\ WriteFails("c", c2sStop)
    /\ cReq # <<>> \/ cSender = "gone"
    /\ outPump' = "done" /\ cReq' = <<>>
    /\ UNCHANGED <<callerVars, call, cResp, inResp, wireVars, serverVars, handlerVars>>

(* Every sender is dropped: REQUEST_END, then finish().                    *)
pump_outbound_requests_end ==
    /\ outPump = "run" /\ cReq = <<>> /\ cSender = "gone" /\ CanWrite("c", c2s, c2sStop)
    /\ outPump' = "done"
    /\ c2s' = Finished(Written(c2s, F("end")))
    /\ UNCHANGED <<callerVars, call, cReq, cResp, inResp, s2c, c2sStop, s2cStop, lost,
                   serverVars, handlerVars>>

-----------------------------------------------------------------------------
(* client.rs: pump_inbound_responses.  When it returns, its task drops the *)
(* receive half and aborts pump_outbound_requests, whose send half is      *)
(* dropped in turn, possibly in the middle of a frame it was writing.      *)

ReturnInboundResponses(how, stop) ==
    /\ inResp' = how
    /\ s2cStop' = stop
    /\ outPump' = "done" /\ cReq' = <<>>
    /\ IF outPump = "run" /\ ~WriteFails("c", c2sStop)
       THEN \/ c2s' = Finished(c2s)
            \/ cReq # <<>> /\ c2s' = Finished(Written(c2s, [Head(cReq) EXCEPT !.k = "torn"]))
       ELSE UNCHANGED c2s

(* Mutant: try_send, dropping the frame when the channel is full.          *)
pump_inbound_responses_try_send ==
    /\ inResp = "run" /\ s2c # <<>> /\ GoesOn(Head(s2c)) /\ cReceiver = "held"
    /\ s2c' = Tail(s2c)
    /\ cResp' = IF Len(cResp) < ChanCap THEN Append(cResp, ItemOf(Head(s2c))) ELSE cResp
    /\ UNCHANGED <<callerVars, call, cReq, outPump, inResp, c2s, c2sStop, s2cStop, lost,
                   serverVars, handlerVars>>

pump_inbound_responses_forward ==
    /\ inResp = "run" /\ s2c # <<>> /\ ~IsEnd(Head(s2c))
    /\ cReceiver = "held" /\ Len(cResp) < ChanCap
    /\ s2c' = Tail(s2c)
    /\ cResp' = Append(cResp, ItemOf(Head(s2c)))
    /\ IF GoesOn(Head(s2c))
       THEN UNCHANGED <<inResp, outPump, cReq, c2s, s2cStop>>
       ELSE ReturnInboundResponses("err", Dropped(s2cStop))
    /\ UNCHANGED <<callerVars, call, c2sStop, lost, serverVars, handlerVars>>

(* Mutant: the failed send is ignored.                                     *)
pump_inbound_responses_deaf ==
    /\ inResp = "run" /\ s2c # <<>> /\ ~IsEnd(Head(s2c)) /\ cReceiver = "gone"
    /\ s2c' = Tail(s2c)
    /\ UNCHANGED <<callerVars, clientVars, c2s, c2sStop, s2cStop, lost, serverVars,
                   handlerVars>>

(* The caller dropped the response stream: a chunk cannot be forwarded.    *)
(* The failed send of an error is ignored, but a terminal one returns too. *)
pump_inbound_responses_gone ==
    /\ inResp = "run" /\ s2c # <<>> /\ ~IsEnd(Head(s2c)) /\ cReceiver = "gone"
    /\ s2c' = Tail(s2c)
    /\ ReturnInboundResponses("gone", Dropped(s2cStop))
    /\ UNCHANGED <<callerVars, call, cResp, c2sStop, lost, serverVars, handlerVars>>

pump_inbound_responses_end ==
    /\ inResp = "run" /\ s2c # <<>> /\ IsEnd(Head(s2c))
    /\ s2c' = Tail(s2c)
    /\ IF Head(s2c).k = "end"
       THEN ReturnInboundResponses("end", Dropped(s2cStop))
       ELSE ReturnInboundResponses("eof", s2cStop)
    /\ UNCHANGED <<callerVars, call, cResp, c2sStop, lost, serverVars, handlerVars>>

(* Mutant: the pump reads again after a failed read.                       *)
pump_inbound_responses_rereads == inResp = "run" /\ "c" \in lost /\ UNCHANGED vars

pump_inbound_responses_lost ==
    /\ inResp = "run" /\ s2c = <<>> /\ "c" \in lost
    /\ cReceiver = "held" => Len(cResp) < ChanCap
    /\ cResp' = IF cReceiver = "held" THEN Append(cResp, TransportReadErr) ELSE cResp
    /\ ReturnInboundResponses("err", s2cStop)
    /\ UNCHANGED <<callerVars, call, s2c, c2sStop, lost, serverVars, handlerVars>>

-----------------------------------------------------------------------------
(* server.rs: streaming_negotiate_open.                                    *)

(* The method is registered: ack, channels, request pump, handler task.    *)
streaming_negotiate_open ==
    /\ srv = "await" /\ c2s # <<>> /\ Head(c2s).k = "open"
    /\ CanWrite("s", s2c, s2cStop)
    /\ c2s' = Tail(c2s)
    /\ s2c' = Written(s2c, F("ack"))
    /\ srv' = "drain" /\ inReq' = "run"
    /\ handler' = "run" /\ hRx' = "held" /\ hTx' = "held"
    /\ UNCHANGED <<callerVars, clientVars, c2sStop, s2cStop, lost, hReq, hResp, nResp,
                   hGot>>

(* No such streaming method: error ack, finish(); both halves dropped.     *)
streaming_negotiate_unknown ==
    /\ srv = "await" /\ c2s # <<>> /\ Head(c2s).k = "open"
    /\ CanWrite("s", s2c, s2cStop)
    /\ c2s' = Tail(c2s)
    /\ c2sStop' = Dropped(c2sStop)
    /\ s2c' = Finished(Written(s2c, F("nak")))
    /\ srv' = "done"
    /\ UNCHANGED <<callerVars, clientVars, s2cStop, lost, inReq, hReq, hResp, handlerVars>>

(* The open-request cannot be read, or the ack cannot be written.          *)
streaming_negotiate_fails ==
    /\ srv = "await"
    /\ \/ c2s # <<>> /\ Head(c2s).k # "open"
       \/ c2s # <<>> /\ Head(c2s).k = "open" /\ WriteFails("s", s2cStop)
       \/ c2s = <<>> /\ "s" \in lost
    /\ c2sStop' = Dropped(c2sStop)
    /\ s2c' = IF WriteFails("s", s2cStop) THEN s2c ELSE Finished(s2c)
    /\ srv' = "done"
    /\ UNCHANGED <<callerVars, clientVars, c2s, s2cStop, lost, inReq, hReq, hResp,
                   handlerVars>>

-----------------------------------------------------------------------------
(* server.rs: pump_inbound_requests.                                       *)

(* Mutant: try_send, dropping the frame when the channel is full.          *)
pump_inbound_requests_try_send ==
    /\ inReq = "run" /\ c2s # <<>> /\ GoesOn(Head(c2s)) /\ hRx = "held"
    /\ c2s' = Tail(c2s)
    /\ hReq' = IF Len(hReq) < ChanCap THEN Append(hReq, ItemOf(Head(c2s))) ELSE hReq
    /\ UNCHANGED <<callerVars, clientVars, s2c, c2sStop, s2cStop, lost, srv, inReq, hResp,
                   handlerVars>>

pump_inbound_requests_forward ==
    /\ inReq = "run" /\ c2s # <<>> /\ ~IsEnd(Head(c2s))
    /\ hRx = "held" /\ Len(hReq) < ChanCap
    /\ c2s' = Tail(c2s)
    /\ hReq' = Append(hReq, ItemOf(Head(c2s)))
    /\ IF GoesOn(Head(c2s))
       THEN UNCHANGED <<inReq, c2sStop>>
       ELSE inReq' = "done" /\ c2sStop' = Dropped(c2sStop)
    /\ UNCHANGED <<callerVars, clientVars, s2c, s2cStop, lost, srv, hResp, handlerVars>>

(* The handler dropped its request stream: only a non-terminal error,      *)
(* whose failed send is ignored, leaves the pump reading.                  *)
pump_inbound_requests_gone ==
    /\ inReq = "run" /\ c2s # <<>> /\ ~IsEnd(Head(c2s)) /\ hRx = "gone"
    /\ c2s' = Tail(c2s)
    /\ IF Head(c2s).k = "nerr"
       THEN UNCHANGED <<inReq, c2sStop>>
       ELSE inReq' = "done" /\ c2sStop' = Dropped(c2sStop)
    /\ UNCHANGED <<callerVars, clientVars, s2c, s2cStop, lost, srv, hReq, hResp,
                   handlerVars>>

pump_inbound_requests_end ==
    /\ inReq = "run" /\ c2s # <<>> /\ IsEnd(Head(c2s))
    /\ c2s' = Tail(c2s)
    /\ inReq' = "done"
    /\ c2sStop' = IF Head(c2s).k = "end" THEN Dropped(c2sStop) ELSE c2sStop
    /\ UNCHANGED <<callerVars, clientVars, s2c, s2cStop, lost, srv, hReq, hResp,
                   handlerVars>>

(* Mutants: a failed read is taken for the end of the stream; the pump     *)
(* reads again after a failed read.                                        *)
pump_inbound_requests_lost_is_end ==
    /\ inReq = "run" /\ c2s = <<>> /\ "s" \in lost
    /\ inReq' = "done"
    /\ UNCHANGED <<callerVars, clientVars, wireVars, srv, hReq, hResp, handlerVars>>
pump_inbound_requests_rereads == inReq = "run" /\ "s" \in lost /\ UNCHANGED vars

pump_inbound_requests_lost ==
    /\ inReq = "run" /\ c2s = <<>> /\ "s" \in lost
    /\ hRx = "held" => Len(hReq) < ChanCap
    /\ hReq' = IF hRx = "held" THEN Append(hReq, TransportReadErr) ELSE hReq
    /\ inReq' = "done"
    /\ UNCHANGED <<callerVars, clientVars, wireVars, srv, hResp, handlerVars>>

-----------------------------------------------------------------------------
(* The handler's own steps.                                                *)

HandlerReceive ==
    /\ hRx = "held" /\ hReq # <<>>
    /\ hGot' = Append(hGot, Head(hReq))
    /\ hReq' = Tail(hReq)
    /\ UNCHANGED <<callerVars, clientVars, wireVars, srv, inReq, hResp, hRx, hTx,
                   handler, nResp>>

HandlerDropRequests ==
    /\ hRx = "held"
    /\ hRx' = "gone" /\ hReq' = <<>>
    /\ UNCHANGED <<callerVars, clientVars, wireVars, srv, inReq, hResp, hTx, handler,
                   nResp, hGot>>

HandlerSend(kind) ==
    /\ hTx = "held" /\ srv = "drain" /\ Len(hResp) < ChanCap /\ nResp < MaxResp
    /\ nResp' = nResp + 1
    /\ hResp' = Append(hResp, [k |-> kind, n |-> nResp + 1])
    /\ UNCHANGED <<callerVars, clientVars, wireVars, srv, inReq, hReq, hRx, hTx,
                   handler, hGot>>

(* The last clone of the response sender is dropped.                       *)
HandlerDropSender ==
    /\ hTx = "held"
    /\ hTx' = "gone"
    /\ UNCHANGED <<callerVars, clientVars, wireVars, serverVars, hRx, handler, nResp,
                   hGot>>

(* handle returns or panics.  Its request stream and its clone of the      *)
(* response sender go with it, unless it has moved them to a task of its   *)
(* own that outlives it.                                                   *)
HandlerReturn(result) ==
    /\ handler = "run"
    /\ handler' = result
    /\ \E rx \in {"gone", hRx}, tx \in {"gone", hTx} :
          /\ hRx' = rx /\ hTx' = tx
          /\ hReq' = IF rx = "held" THEN hReq ELSE <<>>
    /\ UNCHANGED <<callerVars, clientVars, wireVars, srv, inReq, hResp, nResp, hGot>>

-----------------------------------------------------------------------------
(* server.rs: drain_handler_responses, then the rest of                    *)
(* handle_streaming_substream.  srv is "join" when no terminal frame has   *)
(* been written yet, "joinT" when wrote_terminal.                          *)

(* Mutant: what the substream has no room for is dropped.                  *)
drain_handler_responses_drops ==
    /\ srv = "drain" /\ hResp # <<>> /\ ~WriteFails("s", s2cStop)
    /\ s2c' = IF CanWrite("s", s2c, s2cStop) THEN Written(s2c, Head(hResp)) ELSE s2c
    /\ IF Head(hResp).k = "err"
       THEN srv' = "joinT" /\ hResp' = <<>>
       ELSE hResp' = Tail(hResp) /\ UNCHANGED srv
    /\ UNCHANGED <<callerVars, clientVars, c2s, c2sStop, s2cStop, lost, inReq, hReq,
                   handlerVars>>

drain_handler_responses_write ==
    /\ srv = "drain" /\ hResp # <<>> /\ CanWrite("s", s2c, s2cStop)
    /\ s2c' = Written(s2c, Head(hResp))
    /\ IF Head(hResp).k = "err"
       THEN srv' = "joinT" /\ hResp' = <<>>
       ELSE hResp' = Tail(hResp) /\ UNCHANGED srv
    /\ UNCHANGED <<callerVars, clientVars, c2s, c2sStop, s2cStop, lost, inReq, hReq,
                   handlerVars>>

(* Mutant: a failed write is retried.                                      *)
drain_handler_responses_retries ==
    srv = "drain" /\ hResp # <<>> /\ WriteFails("s", s2cStop) /\ UNCHANGED vars

drain_handler_responses_fails ==
    /\ srv = "drain" /\ hResp # <<>> /\ WriteFails("s", s2cStop)
    /\ srv' = "joinT" /\ hResp' = <<>>
    /\ UNCHANGED <<callerVars, clientVars, wireVars, inReq, hReq, handlerVars>>

drain_handler_responses_end ==
    /\ srv = "drain" /\ hResp = <<>> /\ hTx = "gone"
    /\ srv' = "join"
    /\ UNCHANGED <<callerVars, clientVars, wireVars, inReq, hReq, hResp, handlerVars>>

(* req_pump.abort() and finish(): the request pump drops the receive half  *)
(* and the only req_tx.                                                    *)
CloseSubstream(wire) ==
    /\ srv' = "done"
    /\ inReq' = "done"
    /\ c2sStop' = IF inReq = "run" THEN Dropped(c2sStop) ELSE c2sStop
    /\ s2c' = IF WriteFails("s", s2cStop) THEN s2c ELSE Finished(wire)

(* Mutant: the handler's result is not looked at.                          *)
TerminalFrame_AlwaysEnd(result) == F("end")

TerminalFrame(result) == F(IF result = "ok" THEN "end" ELSE "err")

finalise_streaming ==
    /\ srv = "join" /\ handler # "run"
    /\ \/ /\ CanWrite("s", s2c, s2cStop)
          /\ CloseSubstream(Written(s2c, TerminalFrame(handler)))
       \/ /\ WriteFails("s", s2cStop)
          /\ CloseSubstream(s2c)
    /\ UNCHANGED <<callerVars, clientVars, c2s, s2cStop, lost, hReq, hResp, handlerVars>>

skip_finalise ==
    /\ srv = "joinT" /\ handler # "run"
    /\ CloseSubstream(s2c)
    /\ UNCHANGED <<callerVars, clientVars, c2s, s2cStop, lost, hReq, hResp, handlerVars>>

-----------------------------------------------------------------------------
Init ==
    /\ call = "idle" /\ cSender = "gone" /\ cReceiver = "gone"
    /\ cReq = <<>> /\ cResp = <<>> /\ outPump = "off" /\ inResp = "off"
    /\ c2s = <<>> /\ s2c = <<>> /\ c2sStop = "no" /\ s2cStop = "no" /\ lost = {}
    /\ srv = "await" /\ inReq = "off" /\ hReq = <<>> /\ hResp = <<>>
    /\ hRx = "gone" /\ hTx = "gone" /\ handler = "off"
    /\ nReq = 0 /\ nResp = 0 /\ hGot = <<>> /\ got = <<>>

Open == call_streaming_open \/ call_streaming_live \/ call_streaming_fails
Cancel == CancelWhileWriting \/ CancelWhileOpening

pump_outbound_requests ==
    \/ pump_outbound_requests_chunk
    \/ pump_outbound_requests_fails
    \/ pump_outbound_requests_end

pump_inbound_responses ==
    \/ pump_inbound_responses_forward
    \/ pump_inbound_responses_gone
    \/ pump_inbound_responses_end
    \/ pump_inbound_responses_lost

Negotiate ==
    \/ streaming_negotiate_open
    \/ streaming_negotiate_unknown
    \/ streaming_negotiate_fails

pump_inbound_requests ==
    \/ pump_inbound_requests_forward
    \/ pump_inbound_requests_gone
    \/ pump_inbound_requests_end
    \/ pump_inbound_requests_lost

handle_streaming_substream ==
    \/ drain_handler_responses_write
    \/ drain_handler_responses_fails
    \/ drain_handler_responses_end
    \/ finalise_streaming
    \/ skip_finalise

Caller ==
    \/ \E kind \in ReqKinds : CallerSend(kind)
    \/ CallerDropSender
    \/ CallerReceive
    \/ CallerDropReceiver

Handler ==
    \/ HandlerReceive
    \/ HandlerDropRequests
    \/ \E kind \in RespKinds : HandlerSend(kind)
    \/ HandlerDropSender
    \/ \E result \in {"ok", "err", "panic"} : HandlerReturn(result)

Transport ==
    \/ DeliverStopC2S
    \/ DeliverStopS2C
    \/ \E side \in Failing : ConnectionLost(side)

Next ==
    \/ Open \/ Cancel \/ Caller
    \/ pump_outbound_requests \/ pump_inbound_responses
    \/ Negotiate \/ pump_inbound_requests \/ handle_streaming_substream \/ Handler
    \/ Transport

Spec == Init /\ [][Next]_vars

-----------------------------------------------------------------------------
(* Fairness.  The tokio runtime polls every spawned task that can run, and *)
(* QUIC delivers STOP_SENDING while the connection lives; once it is down  *)
(* for one side, the idle timeout ends it for the other.  Nothing is       *)
(* assumed of call_streaming's caller or of the handler here.              *)

ConnectionTimesOut == lost # {} /\ \E side \in Failing : ConnectionLost(side)

FrameworkFairness ==
    /\ WF_vars(Open)
    /\ WF_vars(pump_outbound_requests)
    /\ WF_vars(pump_inbound_responses)
    /\ WF_vars(Negotiate)
    /\ WF_vars(pump_inbound_requests)
    /\ WF_vars(handle_streaming_substream)
    /\ WF_vars(DeliverStopC2S)
    /\ WF_vars(DeliverStopS2C)
    /\ WF_vars(ConnectionTimesOut)

(* The application reads what it is sent.                                  *)
ReaderFairness ==
    /\ WF_vars(CallerReceive)
    /\ WF_vars(HandlerReceive)

FairSpec == Spec /\ FrameworkFairness /\ ReaderFairness

(* Nothing but the framework is fair; what a property needs of the         *)
(* applications besides is a hypothesis of its own.                        *)
PolledSpec == Spec /\ FrameworkFairness

-----------------------------------------------------------------------------
(* The values every variable ranges over.                                  *)
TypeOK ==
    /\ call \in {"idle", "opening", "live", "failed", "cancelled"}
    /\ cSender \in {"held", "gone"} /\ cReceiver \in {"held", "gone"}
    /\ hRx \in {"held", "gone"} /\ hTx \in {"held", "gone"}
    /\ cReq \in Seq([k : ReqKinds, n : Nat]) /\ hResp \in Seq([k : RespKinds, n : Nat])
    /\ cResp \in Seq(Item) /\ hReq \in Seq(Item) /\ hGot \in Seq(Item) /\ got \in Seq(Item)
    /\ c2s \in Seq(Frame) /\ s2c \in Seq(Frame)
    /\ outPump \in {"off", "run", "done"}
    /\ inResp \in {"off", "run", "end", "eof", "err", "gone"}
    /\ c2sStop \in {"no", "sent", "seen"} /\ s2cStop \in {"no", "sent", "seen"}
    /\ lost \subseteq {"c", "s"}
    /\ srv \in {"await", "drain", "join", "joinT", "done"}
    /\ inReq \in {"off", "run", "done"}
    /\ handler \in {"off", "run", "ok", "err", "panic"}
    /\ nReq \in Nat /\ nResp \in Nat

(* The handler's request stream, the caller's response stream yields None: *)
(* every sender is gone and the channel is empty.                          *)
RequestsEnded  == hRx = "held" /\ hReq = <<>> /\ inReq = "done"
ResponsesEnded == cReceiver = "held" /\ cResp = <<>> /\ inResp \notin {"off", "run"}

OnlyChunks(s) == \A i \in DOMAIN s : s[i].k = "chunk"

(* The handler receives the caller's items in the order they were sent,    *)
(* each once and without a gap, whatever is cancelled or lost; a failed    *)
(* read is the only thing it can receive besides (pump_outbound_requests   *)
(* and pump_inbound_requests).                                             *)
RequestsInOrder ==
    \A i \in DOMAIN hGot : hGot[i].k = "terr" \/ hGot[i].n = i

(* A request stream that ends without an error is complete, unless nobody  *)
(* is waiting for the answer any more: the caller's response side is over  *)
(* (whose task aborts pump_outbound_requests), the open was cancelled, or  *)
(* the server has closed the call itself.                                  *)
RequestEndHonest ==
    RequestsEnded /\ OnlyChunks(hGot)
      => \/ cSender = "gone" /\ Len(hGot) = nReq
         \/ inResp \notin {"off", "run"}
         \/ call = "cancelled"
         \/ srv = "done"

(* The caller receives the handler's chunks in order, each once and        *)
(* without a gap, and an error is always the last thing it receives:       *)
(* drain_handler_responses and finalise_streaming between them write one   *)
(* terminal frame, after every chunk.                                      *)
ResponsesInOrder ==
    /\ \A i \in DOMAIN got : got[i].k = "chunk" => got[i].n = i
    /\ \A i \in 1..(Len(got) - 1) : got[i].k = "chunk"

(* A response stream that ends without an error was ended by RESPONSE_END, *)
(* by a handler that returned Ok(()), and every item the handler's sender  *)
(* ever accepted has been received: neither a handler's Err, nor a panic,  *)
(* nor a lost connection can pass for a complete answer.                   *)
CleanEndComplete ==
    ResponsesEnded /\ OnlyChunks(got)
      => inResp = "end" /\ handler = "ok" /\ hTx = "gone" /\ Len(got) = nResp

(* Once the handler has returned and its sender is dropped, the server     *)
(* task closes the substream (and the caller of                            *)
(* handle_inbound_substream gives its stream permit back).                 *)
ServerWindsDown ==
    (handler \in {"ok", "err", "panic"} /\ hTx = "gone") ~> (srv = "done")

(* A caller that keeps reading sees its response stream end after the      *)
(* server has closed the call.                                             *)
CallerLearnsEnd ==
    (srv = "done" /\ call = "live") ~> (ResponsesEnded \/ cReceiver = "gone")

(* Dropping the caller's sender ends the handler's request stream.         *)
RequestEndDelivered ==
    (call = "live" /\ cSender = "gone") ~> (inReq = "done")

CallerKeepsSending  == WF_vars(\E kind \in ReqKinds : CallerSend(kind))
HandlerKeepsSending == WF_vars(\E kind \in RespKinds : HandlerSend(kind))

(* Dropping one end of a direction stops a sender that keeps sending into  *)
(* the other, two channels and a substream away.  pump_inbound_responses   *)
(* and pump_inbound_requests notice at the next chunk, STOP_SENDING then   *)
(* fails drain_handler_responses and pump_outbound_requests, which drop    *)
(* the channel.  The bounds leave room for what is accepted meanwhile.     *)
DroppedEndStopsSender ==
    /\ HandlerKeepsSending =>
         ((call = "live" /\ cReceiver = "gone" /\ nResp + WireCap + 2 <= MaxResp)
            ~> (srv # "drain" \/ hTx = "gone"))
    /\ CallerKeepsSending =>
         ((call = "live" /\ srv # "await" /\ hRx = "gone" /\ nReq + WireCap + 2 <= MaxReq)
            ~> (outPump = "done" \/ cSender = "gone"))

(* The two directions of a call never wait for one another in the          *)
(* framework: a caller blocked in send gets room as long as the handler    *)
(* reads, although nobody reads the responses, and a handler blocked in    *)
(* send as long as the caller reads.  If both block each other, both       *)
(* applications have stopped reading.                                      *)
NoCrossBlocking ==
    /\ WF_vars(HandlerReceive) => ((Len(cReq) = ChanCap) ~> (Len(cReq) < ChanCap))
    /\ WF_vars(CallerReceive) => ((Len(hResp) = ChanCap) ~> (Len(hResp) < ChanCap))
=============================================================================
