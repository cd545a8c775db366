--------------------------- MODULE StreamingProofs ---------------------------
(***************************************************************************)
(* Proofs about StreamingCall: type correctness and the two properties of  *)
(* each direction, for every channel and wire capacity, every set of       *)
(* failing sides, every number of items and every kind of item that a      *)
(* client or a handler may send.  The responses come first.  Then, that    *)
(* the requests implement StreamPipe, and that the responses do.           *)
(***************************************************************************)
EXTENDS MCStreamingCall, CommonLemmas

(* What is on s2c, or will be, can still reach the caller.                 *)
Reading == call \in {"idle", "opening"} \/ (inResp = "run" /\ cReceiver = "held")

(* The frame at position i of s2c that carries an item carries the one     *)
(* numbered Base + i: the open-ack takes a position until it is read.      *)
Base == IF call = "live" THEN Len(got) + Len(cResp) ELSE -1

(* The phases of the call, client and server.                              *)
PhaseInv ==
    /\ srv = "await" => /\ Len(s2c) = 0 /\ Len(hResp) = 0 /\ nResp = 0
                        /\ hTx = "gone" /\ handler = "off"
    /\ call # "live" => /\ Len(got) = 0 /\ Len(cResp) = 0
                        /\ inResp = "off" /\ cReceiver = "gone"
    /\ call = "live" => inResp # "off" /\ srv # "await"
    /\ Reading => s2cStop = "no"

(* What the server has put on the wire while someone reads it.             *)
WireInv ==
    Reading => \A i \in 1..Len(s2c) :
        /\ s2c[i].k \in {"ack", "nak", "fin", "end", "err", "chunk", "big"}
        /\ s2c[i].k \in {"ack", "nak"} => i = 1 /\ call # "live"
        /\ s2c[i].k \in {"chunk", "big"} => s2c[i].n = Base + i
        /\ s2c[i].k = "fin" => IF i = 1 THEN call # "live"
                               ELSE s2c[i - 1].k \in {"nak", "end", "err"}
        /\ s2c[i].k = "end" => /\ srv = "done" /\ handler = "ok" /\ hTx = "gone"
                               /\ nResp = Base + i - 1

(* What the server task still holds for a reader that can be reached.      *)
ServerInv ==
    Reading /\ lost = {} =>
        /\ srv = "drain" => /\ nResp = Base + Len(s2c) + Len(hResp)
                            /\ \A i \in 1..Len(hResp) : hResp[i].n = Base + Len(s2c) + i
        /\ srv = "join" => hTx = "gone" /\ nResp = Base + Len(s2c)
        /\ srv = "joinT" => Len(s2c) > 0 /\ s2c[Len(s2c)].k = "err"

(* What the client has received.                                           *)
CallerInv ==
    /\ \A i \in 1..Len(cResp) : IF cResp[i].k = "chunk" THEN cResp[i].n = Len(got) + i
                               ELSE i = Len(cResp) /\ inResp # "run"
    /\ \A i \in 1..Len(got) : IF got[i].k = "chunk" THEN got[i].n = i
                             ELSE i = Len(got) /\ Len(cResp) = 0 /\ inResp # "run"

(* How pump_inbound_responses ended, for a caller that still listens.      *)
EndInv ==
    cReceiver = "held" =>
    /\ inResp \notin {"eof", "gone"}
    /\ inResp = "end" => /\ srv = "done" /\ handler = "ok" /\ hTx = "gone"
                         /\ Len(got) + Len(cResp) = nResp
    /\ inResp = "err" =>
         \/ Len(cResp) > 0 /\ cResp[Len(cResp)].k # "chunk"
         \/ Len(got) > 0 /\ got[Len(got)].k # "chunk"

RespInv == PhaseInv /\ WireInv /\ ServerInv /\ CallerInv /\ EndInv

-----------------------------------------------------------------------------
(* Facts about sequences and about the frames and items the actions build. *)
LEMMA SeqOps ==
    ASSUME NEW S, NEW s \in Seq(S)
    PROVE  /\ \A x \in S : Append(s, x) \in Seq(S)
           /\ s # <<>> => Head(s) \in S /\ Tail(s) \in Seq(S)
  OBVIOUS

(* A prefix of a wire is a wire.                                            *)
LEMMA PrefixType ==
    ASSUME NEW S, NEW w \in Seq(S), NEW i \in 0..Len(w)
    PROVE  SubSeq(w, 1, i) \in Seq(S)
  BY SMT

(* What a pump makes of a frame is an item.                                *)
LEMMA ItemOfType == \A f \in Frame : ItemOf(f) \in Item
  BY DEF ItemOf, Frame, Item, ItemKinds, FrameKinds

(* The frames and items the framework makes itself.                        *)
LEMMA FType ==
    /\ F("open") \in Frame /\ F("ack") \in Frame /\ F("nak") \in Frame
    /\ F("end") \in Frame /\ F("err") \in Frame /\ F("torn") \in Frame /\ F("fin") \in Frame
    /\ \A r : TerminalFrame(r) \in Frame
    /\ TransportReadErr \in Item
  BY DEF F, Frame, FrameKinds, TerminalFrame, TransportReadErr, Item, ItemKinds

(* The items the caller and the handler put into their senders.            *)
LEMMA SentType ==
    /\ \A x \in [k : ReqKinds, n : Nat] : x \in Frame /\ [x EXCEPT !.k = "torn"] \in Frame
    /\ \A x \in [k : RespKinds, n : Nat] : x \in Frame
  BY ConstantsAssumption DEF Frame, FrameKinds

(* Writing and finishing leave a wire.                                      *)
LEMMA WireType ==
    ASSUME NEW w \in Seq(Frame)
    PROVE  /\ Finished(w) \in Seq(Frame)
           /\ \A f \in Frame : /\ Written(w, f) \in Seq(Frame)
                               /\ Finished(Written(w, f)) \in Seq(Frame)
  BY FType DEF Written, Finished

(* What returning from pump_inbound_responses, and the abort of the other  *)
(* pump, leave behind.                                                     *)
Returned ==
    /\ c2s' \in Seq(Frame) /\ cReq' = <<>> /\ outPump' = "done"
    /\ inResp' \in {"end", "eof", "err", "gone"}
    /\ s2cStop' \in {"no", "sent", "seen"}

(* Returning from pump_inbound_responses has these effects.                *)
LEMMA ReturnType ==
    ASSUME TypeOK, NEW how \in {"end", "eof", "err", "gone"},
           NEW stop \in {s2cStop, Dropped(s2cStop)}, ReturnInboundResponses(how, stop)
    PROVE  Returned
<1>1. c2s' \in Seq(Frame)
  <2>1. CASE c2s' = c2s
    BY <2>1 DEF TypeOK
  <2>2. CASE c2s' = Finished(c2s)
    BY <2>2, WireType DEF TypeOK
  <2>3. CASE cReq # <<>> /\ c2s' = Finished(Written(c2s, [Head(cReq) EXCEPT !.k = "torn"]))
    <3>1. Head(cReq) \in [k : ReqKinds, n : Nat]
      BY <2>3, SeqOps DEF TypeOK
    <3> QED
      BY <2>3, <3>1, SentType, WireType, Zenon DEF TypeOK
  <2> QED
    BY <2>1, <2>2, <2>3 DEF ReturnInboundResponses
<1> QED
  BY <1>1 DEF Returned, ReturnInboundResponses, Dropped, TypeOK

(* A step preserves the types, action by action.                           *)
LEMMA TypeStep == TypeOK /\ [Next]_vars => TypeOK'
<1> SUFFICES ASSUME TypeOK, [Next]_vars PROVE TypeOK'
  OBVIOUS
<1>1. CASE call_streaming_open
  <2>1. c2s' \in Seq(Frame)
    BY <1>1, WireType, FType, Zenon DEF call_streaming_open, TypeOK
  <2> QED
    BY <1>1, <2>1, ConstantsAssumption
       DEF call_streaming_open, callerVars, clientVars, wireVars, serverVars, handlerVars,
           TypeOK, Dropped
<1>2. CASE call_streaming_live
  <2>1. s2c' \in Seq(Frame)
    BY <1>2, SeqOps, Zenon DEF call_streaming_live, TypeOK
  <2> QED
    BY <1>2, <2>1, ConstantsAssumption
       DEF call_streaming_live, callerVars, clientVars, wireVars, serverVars, handlerVars,
           TypeOK, Dropped
<1>3. CASE call_streaming_fails
  <2>1. c2s' \in Seq(Frame)
    BY <1>3, WireType, Zenon DEF call_streaming_fails, TypeOK
  <2> QED
    BY <1>3, <2>1, ConstantsAssumption
       DEF call_streaming_fails, callerVars, clientVars, wireVars, serverVars, handlerVars,
           TypeOK, Dropped
<1>4. CASE CancelWhileWriting
  <2>1. c2s' \in Seq(Frame)
    BY <1>4, WireType, FType, Zenon DEF CancelWhileWriting, TypeOK
  <2> QED
    BY <1>4, <2>1, ConstantsAssumption
       DEF CancelWhileWriting, callerVars, clientVars, wireVars, serverVars, handlerVars,
           TypeOK, Dropped
<1>5. CASE CancelWhileOpening
  <2>1. c2s' \in Seq(Frame)
    BY <1>5, WireType, Zenon DEF CancelWhileOpening, TypeOK
  <2> QED
    BY <1>5, <2>1, ConstantsAssumption
       DEF CancelWhileOpening, callerVars, clientVars, wireVars, serverVars, handlerVars,
           TypeOK, Dropped
<1>6. CASE pump_outbound_requests_chunk
  <2>1. c2s' \in Seq(Frame)
    BY <1>6, WireType, SeqOps, SentType, Zenon DEF pump_outbound_requests_chunk, TypeOK
  <2>2. cReq' \in Seq([k : ReqKinds, n : Nat])
    BY <1>6, SeqOps, Zenon DEF pump_outbound_requests_chunk, TypeOK
  <2> QED
    BY <1>6, <2>1, <2>2, ConstantsAssumption
       DEF pump_outbound_requests_chunk, callerVars, clientVars, wireVars, serverVars,
           handlerVars, TypeOK
<1>7. CASE pump_outbound_requests_fails
  BY <1>7, ConstantsAssumption
     DEF pump_outbound_requests_fails, callerVars, clientVars, wireVars, serverVars,
         handlerVars, TypeOK
<1>8. CASE pump_outbound_requests_end
  <2>1. c2s' \in Seq(Frame)
    BY <1>8, WireType, FType, Zenon DEF pump_outbound_requests_end, TypeOK
  <2> QED
    BY <1>8, <2>1, ConstantsAssumption
       DEF pump_outbound_requests_end, callerVars, clientVars, wireVars, serverVars,
           handlerVars, TypeOK
<1>9. CASE pump_inbound_responses_forward
  <2>1. s2c' \in Seq(Frame) /\ cResp' \in Seq(Item)
    BY <1>9, SeqOps, ItemOfType, Zenon DEF pump_inbound_responses_forward, TypeOK
  <2>2. CASE GoesOn(Head(s2c))
    BY <1>9, <2>1, <2>2
       DEF pump_inbound_responses_forward, callerVars, clientVars, wireVars, serverVars,
           handlerVars, TypeOK
  <2>3. CASE ~GoesOn(Head(s2c))
    <3>1. ReturnInboundResponses("err", Dropped(s2cStop))
      BY <1>9, <2>3 DEF pump_inbound_responses_forward
    <3>2. Returned
      BY <3>1, ReturnType
    <3> QED
      BY <1>9, <2>1, <3>2
         DEF Returned, pump_inbound_responses_forward, callerVars, clientVars, wireVars,
             serverVars, handlerVars, TypeOK
  <2> QED
    BY <2>2, <2>3
<1>10. CASE pump_inbound_responses_gone
  <2>1. s2c' \in Seq(Frame)
    BY <1>10, SeqOps, Zenon DEF pump_inbound_responses_gone, TypeOK
  <2>2. Returned
    BY <1>10, ReturnType DEF pump_inbound_responses_gone
  <2> QED
    BY <1>10, <2>1, <2>2
       DEF Returned, pump_inbound_responses_gone, callerVars, clientVars, wireVars,
           serverVars, handlerVars, TypeOK
<1>11. CASE pump_inbound_responses_end
  <2>1. s2c' \in Seq(Frame)
    BY <1>11, SeqOps, Zenon DEF pump_inbound_responses_end, TypeOK
  <2>2. \/ ReturnInboundResponses("end", Dropped(s2cStop))
        \/ ReturnInboundResponses("eof", s2cStop)
    BY <1>11 DEF pump_inbound_responses_end
  <2>3. Returned
    BY <2>2, ReturnType
  <2> QED
    BY <1>11, <2>1, <2>3
       DEF Returned, pump_inbound_responses_end, callerVars, clientVars, wireVars,
           serverVars, handlerVars, TypeOK
<1>12. CASE pump_inbound_responses_lost
  <2>1. cResp' \in Seq(Item)
    BY <1>12, SeqOps, FType, Zenon DEF pump_inbound_responses_lost, TypeOK
  <2>2. Returned
    BY <1>12, ReturnType DEF pump_inbound_responses_lost
  <2> QED
    BY <1>12, <2>1, <2>2
       DEF Returned, pump_inbound_responses_lost, callerVars, clientVars, wireVars,
           serverVars, handlerVars, TypeOK
<1>13. CASE streaming_negotiate_open
  <2>1. c2s' \in Seq(Frame)
    BY <1>13, SeqOps, Zenon DEF streaming_negotiate_open, TypeOK
  <2>2. s2c' \in Seq(Frame)
    BY <1>13, WireType, FType, Zenon DEF streaming_negotiate_open, TypeOK
  <2> QED
    BY <1>13, <2>1, <2>2, ConstantsAssumption
       DEF streaming_negotiate_open, callerVars, clientVars, wireVars, serverVars,
           handlerVars, TypeOK, Dropped
<1>14. CASE streaming_negotiate_unknown
  <2>1. c2s' \in Seq(Frame)
    BY <1>14, SeqOps, Zenon DEF streaming_negotiate_unknown, TypeOK
  <2>2. s2c' \in Seq(Frame)
    BY <1>14, WireType, FType, Zenon DEF streaming_negotiate_unknown, TypeOK
  <2> QED
    BY <1>14, <2>1, <2>2, ConstantsAssumption
       DEF streaming_negotiate_unknown, callerVars, clientVars, wireVars, serverVars,
           handlerVars, TypeOK, Dropped
<1>15. CASE streaming_negotiate_fails
  <2>1. s2c' \in Seq(Frame)
    BY <1>15, WireType, Zenon DEF streaming_negotiate_fails, TypeOK
  <2> QED
    BY <1>15, <2>1, ConstantsAssumption
       DEF streaming_negotiate_fails, callerVars, clientVars, wireVars, serverVars,
           handlerVars, TypeOK, Dropped
<1>16. CASE pump_inbound_requests_forward
  <2>1. c2s' \in Seq(Frame)
    BY <1>16, SeqOps, Zenon DEF pump_inbound_requests_forward, TypeOK
  <2>2. hReq' \in Seq(Item)
    BY <1>16, SeqOps, ItemOfType, Zenon DEF pump_inbound_requests_forward, TypeOK
  <2> QED
    BY <1>16, <2>1, <2>2, ConstantsAssumption
       DEF pump_inbound_requests_forward, callerVars, clientVars, wireVars, serverVars,
           handlerVars, TypeOK, Dropped
<1>17. CASE pump_inbound_requests_gone
  <2>1. c2s' \in Seq(Frame)
    BY <1>17, SeqOps, Zenon DEF pump_inbound_requests_gone, TypeOK
  <2> QED
    BY <1>17, <2>1, ConstantsAssumption
       DEF pump_inbound_requests_gone, callerVars, clientVars, wireVars, serverVars,
           handlerVars, TypeOK, Dropped
<1>18. CASE pump_inbound_requests_end
  <2>1. c2s' \in Seq(Frame)
    BY <1>18, SeqOps, Zenon DEF pump_inbound_requests_end, TypeOK
  <2> QED
    BY <1>18, <2>1, ConstantsAssumption
       DEF pump_inbound_requests_end, callerVars, clientVars, wireVars, serverVars,
           handlerVars, TypeOK, Dropped
<1>19. CASE pump_inbound_requests_lost
  <2>1. hReq' \in Seq(Item)
    BY <1>19, SeqOps, FType, Zenon DEF pump_inbound_requests_lost, TypeOK
  <2> QED
    BY <1>19, <2>1, ConstantsAssumption
       DEF pump_inbound_requests_lost, callerVars, clientVars, wireVars, serverVars,
           handlerVars, TypeOK, Dropped
<1>20. CASE drain_handler_responses_write
  <2>1. s2c' \in Seq(Frame)
    BY <1>20, WireType, SeqOps, SentType, Zenon DEF drain_handler_responses_write, TypeOK
  <2>2. hResp' \in Seq([k : RespKinds, n : Nat])
    <3>1. hResp' = <<>> \/ hResp' = Tail(hResp)
      BY <1>20 DEF drain_handler_responses_write
    <3>2. Tail(hResp) \in Seq([k : RespKinds, n : Nat])
      BY <1>20, SeqOps, Zenon DEF drain_handler_responses_write, TypeOK
    <3>3. <<>> \in Seq([k : RespKinds, n : Nat])
      OBVIOUS
    <3> QED
      BY <3>1, <3>2, <3>3, Zenon
  <2> QED
    BY <1>20, <2>1, <2>2, ConstantsAssumption
       DEF drain_handler_responses_write, callerVars, clientVars, wireVars, serverVars,
           handlerVars, TypeOK
<1>21. CASE drain_handler_responses_fails
  BY <1>21, ConstantsAssumption
     DEF drain_handler_responses_fails, callerVars, clientVars, wireVars, serverVars,
         handlerVars, TypeOK
<1>22. CASE drain_handler_responses_end
  BY <1>22, ConstantsAssumption
     DEF drain_handler_responses_end, callerVars, clientVars, wireVars, serverVars,
         handlerVars, TypeOK
<1>23. CASE finalise_streaming
  <2>1. s2c' \in Seq(Frame)
    BY <1>23, WireType, FType, Zenon DEF finalise_streaming, TypeOK, CloseSubstream
  <2> QED
    BY <1>23, <2>1, ConstantsAssumption
       DEF finalise_streaming, callerVars, clientVars, wireVars, serverVars, handlerVars,
           TypeOK, CloseSubstream, Dropped
<1>24. CASE skip_finalise
  <2>1. s2c' \in Seq(Frame)
    BY <1>24, WireType, Zenon DEF skip_finalise, TypeOK, CloseSubstream
  <2> QED
    BY <1>24, <2>1, ConstantsAssumption
       DEF skip_finalise, callerVars, clientVars, wireVars, serverVars, handlerVars, TypeOK,
           CloseSubstream, Dropped
<1>25. CASE \E kind \in ReqKinds : CallerSend(kind)
  BY <1>25, ConstantsAssumption
     DEF CallerSend, callerVars, clientVars, wireVars, serverVars, handlerVars, TypeOK
<1>26. CASE CallerDropSender
  BY <1>26, ConstantsAssumption
     DEF CallerDropSender, callerVars, clientVars, wireVars, serverVars, handlerVars, TypeOK
<1>27. CASE CallerReceive
  BY <1>27, ConstantsAssumption
     DEF CallerReceive, callerVars, clientVars, wireVars, serverVars, handlerVars, TypeOK
<1>28. CASE CallerDropReceiver
  BY <1>28, ConstantsAssumption
     DEF CallerDropReceiver, callerVars, clientVars, wireVars, serverVars, handlerVars,
         TypeOK
<1>29. CASE HandlerReceive
  BY <1>29, ConstantsAssumption
     DEF HandlerReceive, callerVars, clientVars, wireVars, serverVars, handlerVars, TypeOK
<1>30. CASE HandlerDropRequests
  BY <1>30, ConstantsAssumption
     DEF HandlerDropRequests, callerVars, clientVars, wireVars, serverVars, handlerVars,
         TypeOK
<1>31. CASE \E kind \in RespKinds : HandlerSend(kind)
  BY <1>31, ConstantsAssumption
     DEF HandlerSend, callerVars, clientVars, wireVars, serverVars, handlerVars, TypeOK
<1>32. CASE HandlerDropSender
  BY <1>32, ConstantsAssumption
     DEF HandlerDropSender, callerVars, clientVars, wireVars, serverVars, handlerVars,
         TypeOK
<1>33. CASE \E result \in {"ok", "err", "panic"} : HandlerReturn(result)
  BY <1>33, ConstantsAssumption
     DEF HandlerReturn, callerVars, clientVars, wireVars, serverVars, handlerVars, TypeOK
<1>34. CASE DeliverStopC2S
  BY <1>34, ConstantsAssumption
     DEF DeliverStopC2S, callerVars, clientVars, wireVars, serverVars, handlerVars, TypeOK
<1>35. CASE DeliverStopS2C
  BY <1>35, ConstantsAssumption
     DEF DeliverStopS2C, callerVars, clientVars, wireVars, serverVars, handlerVars, TypeOK
<1>36. CASE \E side \in Failing : ConnectionLost(side)
  <2>1. PICK side \in Failing : ConnectionLost(side)
    BY <1>36
  <2>2. /\ c2s' = c2s \/ \E i \in 0..Len(c2s) : c2s' = SubSeq(c2s, 1, i)
        /\ s2c' = s2c \/ \E i \in 0..Len(s2c) : s2c' = SubSeq(s2c, 1, i)
    BY <2>1 DEF ConnectionLost
  <2>a. c2s \in Seq(Frame) /\ s2c \in Seq(Frame)
    BY DEF TypeOK
  <2>3. c2s' \in Seq(Frame) /\ s2c' \in Seq(Frame)
    BY <2>2, <2>a, PrefixType, SMT
  <2>4. lost' \subseteq {"c", "s"}
    BY <2>1, ConstantsAssumption DEF ConnectionLost, TypeOK
  <2> QED
    BY <2>1, <2>3, <2>4
       DEF ConnectionLost, callerVars, clientVars, wireVars, serverVars, handlerVars, TypeOK
<1>37. CASE UNCHANGED vars
  BY <1>37 DEF vars, callerVars, clientVars, wireVars, serverVars, handlerVars, TypeOK
<1> QED
  BY <1>1, <1>2, <1>3, <1>4, <1>5, <1>6, <1>7, <1>8, <1>9, <1>10, <1>11, <1>12, <1>13,
     <1>14, <1>15, <1>16, <1>17, <1>18, <1>19, <1>20, <1>21, <1>22, <1>23, <1>24, <1>25,
     <1>26, <1>27, <1>28, <1>29, <1>30, <1>31, <1>32, <1>33, <1>34, <1>35, <1>36, <1>37
     DEF Next, Open, Cancel, pump_outbound_requests, pump_inbound_responses, Negotiate,
         pump_inbound_requests, handle_streaming_substream, Caller, Handler, Transport

(* Every variable keeps its type: TypeOK is an invariant of the call.      *)
THEOREM TypeCorrect == Spec => []TypeOK
<1>1. Init => TypeOK
  BY ConstantsAssumption DEF Init, TypeOK
<1> QED
  BY <1>1, TypeStep, PTL DEF Spec

-----------------------------------------------------------------------------
(* The response direction.  The variables RespInv speaks of:               *)
respVars == <<call, cReceiver, got, cResp, inResp, s2c, s2cStop, lost, srv, hResp, hTx,
              handler, nResp>>

(* Appending to a sequence and taking its head, position by position.      *)
LEMMA AppendAt ==
    ASSUME NEW S, NEW s \in Seq(S), NEW x \in S
    PROVE  /\ Append(s, x) \in Seq(S) /\ Len(Append(s, x)) = Len(s) + 1 /\ Len(s) \in Nat
           /\ \A i \in 1..Len(s) : Append(s, x)[i] = s[i]
           /\ Append(s, x)[Len(s) + 1] = x
  OBVIOUS

(* The same for what remains after the head is taken.                      *)
LEMMA TailAt ==
    ASSUME NEW S, NEW s \in Seq(S), s # <<>>
    PROVE  /\ Len(Tail(s)) = Len(s) - 1 /\ Len(s) \in Nat \ {0}
           /\ \A i \in 1..(Len(s) - 1) : Tail(s)[i] = s[i + 1]
           /\ Head(s) = s[1] /\ Head(s) \in S /\ Tail(s) \in Seq(S)
  OBVIOUS

(* The types of the variables RespInv speaks of.                           *)
LEMMA RespTypes ==
    ASSUME TypeOK
    PROVE  /\ s2c \in Seq(Frame) /\ cResp \in Seq(Item) /\ got \in Seq(Item)
           /\ hResp \in Seq([k : RespKinds, n : Nat]) /\ nResp \in Nat
           /\ Len(s2c) \in Nat /\ Len(cResp) \in Nat /\ Len(got) \in Nat
           /\ Len(hResp) \in Nat
           /\ Base \in Int
  BY DEF TypeOK, Base

(* Nothing the invariant speaks of changes.                                *)
LEMMA RespFrame == RespInv /\ UNCHANGED respVars => RespInv'
  BY DEF RespInv, PhaseInv, WireInv, ServerInv, CallerInv, EndInv, Reading, Base, respVars

(* The open is cancelled or fails: nobody will read the responses.         *)
LEMMA RespNotOpened ==
    ASSUME RespInv, call # "live", call' \in {"failed", "cancelled"},
           UNCHANGED <<cReceiver, got, cResp, inResp, s2c, lost, srv, hResp, hTx, handler,
                       nResp>>
    PROVE  RespInv'
<1>1. ~Reading' /\ PhaseInv'
  BY DEF RespInv, PhaseInv, Reading
<1>2. WireInv' /\ ServerInv'
  BY <1>1 DEF WireInv, ServerInv
<1>3. CallerInv' /\ EndInv'
  BY DEF RespInv, PhaseInv, CallerInv, EndInv
<1> QED
  BY <1>1, <1>2, <1>3 DEF RespInv

(* The caller drops its response stream.                                   *)
LEMMA RespCallerDrops ==
    ASSUME TypeOK, RespInv, CallerDropReceiver
    PROVE  RespInv'
<1>1. /\ cReceiver' = "gone" /\ cResp' = <<>> /\ call = "live"
      /\ UNCHANGED <<got, call, inResp, s2c, s2cStop, lost, srv, hResp, hTx, handler, nResp>>
  BY DEF CallerDropReceiver, RespInv, PhaseInv, wireVars, serverVars, handlerVars
<1>2. ~Reading' /\ PhaseInv' /\ EndInv'
  BY <1>1 DEF RespInv, PhaseInv, EndInv, Reading
<1>3. WireInv' /\ ServerInv'
  BY <1>2 DEF WireInv, ServerInv
<1>4. CallerInv'
  <2>1. Len(cResp') = 0
    BY <1>1
  <2>2. \A i \in 1..Len(got') : IF got'[i].k = "chunk" THEN got'[i].n = i
                               ELSE i = Len(got') /\ Len(cResp') = 0 /\ inResp' # "run"
    BY <1>1, <2>1 DEF RespInv, CallerInv
  <2> QED
    BY <2>1, <2>2 DEF CallerInv
<1> QED
  BY <1>2, <1>3, <1>4 DEF RespInv

(* The handler sends an item: it follows those that are queued.            *)
LEMMA RespHandlerSend ==
    ASSUME TypeOK, RespInv, NEW kind \in RespKinds, HandlerSend(kind)
    PROVE  RespInv'
<1>1. [k |-> kind, n |-> nResp + 1] \in [k : RespKinds, n : Nat]
  BY RespTypes
<1>2. /\ Len(hResp') = Len(hResp) + 1 /\ Len(hResp) \in Nat
      /\ \A i \in 1..Len(hResp) : hResp'[i] = hResp[i]
      /\ hResp'[Len(hResp) + 1].n = nResp + 1
  BY <1>1, AppendAt, RespTypes DEF HandlerSend
<1>3. /\ srv = "drain" /\ nResp' = nResp + 1
      /\ UNCHANGED <<call, cReceiver, got, cResp, inResp, s2c, s2cStop, lost, srv, hTx,
                     handler>>
  BY DEF HandlerSend, callerVars, clientVars, wireVars
<1>4. Base' = Base /\ Reading' = Reading
  BY <1>3 DEF Base, Reading
<1>5. PhaseInv' /\ CallerInv'
  BY <1>3, <1>4 DEF RespInv, PhaseInv, CallerInv
<1>6. WireInv'
  BY <1>3, <1>4 DEF RespInv, WireInv
<1>7. EndInv'
  BY <1>3 DEF RespInv, EndInv
<1>8. ServerInv'
  <2> SUFFICES ASSUME Reading, lost = {}
               PROVE  /\ nResp' = Base + Len(s2c) + Len(hResp')
                      /\ \A i \in 1..Len(hResp') : hResp'[i].n = Base + Len(s2c) + i
    BY <1>3, <1>4 DEF ServerInv
  <2>1. /\ nResp = Base + Len(s2c) + Len(hResp)
        /\ \A i \in 1..Len(hResp) : hResp[i].n = Base + Len(s2c) + i
    BY <1>3 DEF ServerInv, RespInv
  <2>2. nResp' = Base + Len(s2c) + Len(hResp')
    BY <1>2, <1>3, <2>1, RespTypes
  <2>3. ASSUME NEW i \in 1..Len(hResp') PROVE hResp'[i].n = Base + Len(s2c) + i
    <3>1. i \in 1..Len(hResp) \/ i = Len(hResp) + 1
      BY <1>2
    <3>2. CASE i \in 1..Len(hResp)
      <4>1. hResp'[i] = hResp[i] /\ hResp[i].n = Base + Len(s2c) + i
        BY <3>2, <1>2, <2>1
      <4> QED
        BY <4>1
    <3>3. CASE i = Len(hResp) + 1
      BY <3>3, <1>2, <1>3, <2>1, RespTypes
    <3> QED
      BY <3>1, <3>2, <3>3
  <2> QED
    BY <2>2, <2>3
<1> QED
  BY <1>5, <1>6, <1>7, <1>8 DEF RespInv

(* The handler drops its sender, or returns.                               *)
LEMMA RespHandlerEnds ==
    ASSUME RespInv,
           \/ HandlerDropSender
           \/ \E result \in {"ok", "err", "panic"} : HandlerReturn(result)
    PROVE  RespInv'
<1>1. /\ UNCHANGED <<call, cReceiver, got, cResp, inResp, s2c, s2cStop, lost, srv, hResp,
                     nResp>>
      /\ hTx = "gone" => hTx' = "gone"
      /\ handler' = handler \/ handler = "run"
      /\ srv = "await" => FALSE
  BY DEF HandlerDropSender, HandlerReturn, callerVars, clientVars, wireVars, serverVars,
         RespInv, PhaseInv
<1>2. Base' = Base /\ Reading' = Reading
  BY <1>1 DEF Base, Reading
<1>3. PhaseInv' /\ CallerInv'
  BY <1>1, <1>2 DEF RespInv, PhaseInv, CallerInv
<1>4. WireInv'
  BY <1>1, <1>2 DEF RespInv, WireInv
<1>5. ServerInv' /\ EndInv'
  BY <1>1, <1>2 DEF RespInv, ServerInv, EndInv
<1> QED
  BY <1>3, <1>4, <1>5 DEF RespInv

(* The caller takes an item: Base does not move.                           *)
LEMMA RespCallerReceive ==
    ASSUME TypeOK, RespInv, CallerReceive
    PROVE  RespInv'
<1>1. Head(cResp) \in Item
  BY SeqOps, RespTypes DEF CallerReceive
<1>2. /\ Len(got') = Len(got) + 1 /\ Len(got) \in Nat
      /\ \A i \in 1..Len(got) : got'[i] = got[i]
      /\ got'[Len(got) + 1] = cResp[1]
  BY <1>1, AppendAt, TailAt, RespTypes DEF CallerReceive
<1>3. /\ Len(cResp') = Len(cResp) - 1 /\ Len(cResp) \in Nat \ {0}
      /\ \A i \in 1..(Len(cResp) - 1) : cResp'[i] = cResp[i + 1]
  BY TailAt, RespTypes DEF CallerReceive
<1>4. UNCHANGED <<call, cReceiver, inResp, s2c, s2cStop, lost, srv, hResp, hTx, handler,
                  nResp>>
  BY DEF CallerReceive, wireVars, serverVars, handlerVars
<1>5. call = "live"
  BY <1>3 DEF RespInv, PhaseInv
<1>6. Base' = Base /\ Reading' = Reading
  BY <1>2, <1>3, <1>4, <1>5 DEF Base, Reading
<1>7. PhaseInv' /\ WireInv' /\ ServerInv'
  <2>1. PhaseInv'
    BY <1>4, <1>5, <1>6 DEF RespInv, PhaseInv
  <2>2. WireInv'
    BY <1>4, <1>6 DEF RespInv, WireInv
  <2>3. ServerInv'
    BY <1>4, <1>6 DEF RespInv, ServerInv
  <2> QED
    BY <2>1, <2>2, <2>3
<1>8. \A i \in 1..Len(got) : got[i].k = "chunk" /\ got[i].n = i
  BY <1>3 DEF RespInv, CallerInv
<1>9. IF cResp[1].k = "chunk" THEN cResp[1].n = Len(got) + 1
      ELSE 1 = Len(cResp) /\ inResp # "run"
  BY <1>3 DEF RespInv, CallerInv
<1>10. CallerInv'
  <2>1. ASSUME NEW i \in 1..Len(cResp')
        PROVE  IF cResp'[i].k = "chunk" THEN cResp'[i].n = Len(got') + i
               ELSE i = Len(cResp') /\ inResp' # "run"
    <3>1. i + 1 \in 1..Len(cResp) /\ cResp'[i] = cResp[i + 1]
      BY <1>3
    <3>2. IF cResp[i + 1].k = "chunk" THEN cResp[i + 1].n = Len(got) + (i + 1)
          ELSE i + 1 = Len(cResp) /\ inResp # "run"
      BY <3>1 DEF RespInv, CallerInv
    <3> QED
      BY <3>1, <3>2, <1>2, <1>3, <1>4
  <2>2. ASSUME NEW i \in 1..Len(got')
        PROVE  IF got'[i].k = "chunk" THEN got'[i].n = i
               ELSE i = Len(got') /\ Len(cResp') = 0 /\ inResp' # "run"
    <3>1. CASE i \in 1..Len(got)
      BY <3>1, <1>2, <1>8
    <3>2. CASE i = Len(got) + 1
      BY <3>2, <1>2, <1>3, <1>4, <1>9
    <3> QED
      BY <3>1, <3>2, <1>2
  <2> QED
    BY <2>1, <2>2 DEF CallerInv
<1>11. EndInv'
  <2> SUFFICES ASSUME cReceiver = "held"
               PROVE  /\ inResp \notin {"eof", "gone"}
                      /\ inResp = "end" => /\ srv = "done" /\ handler = "ok" /\ hTx = "gone"
                                           /\ Len(got') + Len(cResp') = nResp
                      /\ inResp = "err" =>
                           \/ Len(cResp') > 0 /\ cResp'[Len(cResp')].k # "chunk"
                           \/ Len(got') > 0 /\ got'[Len(got')].k # "chunk"
    BY <1>4 DEF EndInv
  <2>1. /\ inResp \notin {"eof", "gone"}
        /\ inResp = "end" => /\ srv = "done" /\ handler = "ok" /\ hTx = "gone"
                             /\ Len(got) + Len(cResp) = nResp
        /\ inResp = "err" => cResp[Len(cResp)].k # "chunk"
    <3>1. Len(got) > 0 => got[Len(got)].k = "chunk"
      BY <1>2, <1>8
    <3> QED
      BY <3>1 DEF RespInv, EndInv
  <2>2. Len(got') + Len(cResp') = Len(got) + Len(cResp)
    BY <1>2, <1>3
  <2>3. ASSUME cResp[Len(cResp)].k # "chunk"
        PROVE  \/ Len(cResp') > 0 /\ cResp'[Len(cResp')].k # "chunk"
               \/ Len(got') > 0 /\ got'[Len(got')].k # "chunk"
    <3>1. CASE Len(cResp) = 1
      <4>1. Len(got') = Len(got) + 1 /\ Len(got') > 0 /\ got'[Len(got')] = cResp[Len(cResp)]
        BY <3>1, <1>2
      <4> QED
        BY <4>1, <2>3
    <3>2. CASE Len(cResp) # 1
      <4>1. /\ Len(cResp') \in 1..(Len(cResp) - 1) /\ Len(cResp') > 0
            /\ cResp'[Len(cResp')] = cResp[Len(cResp)]
        BY <3>2, <1>3
      <4> QED
        BY <4>1, <2>3
    <3> QED
      BY <3>1, <3>2
  <2> QED
    BY <2>1, <2>2, <2>3
<1> QED
  BY <1>7, <1>10, <1>11 DEF RespInv

(* The ack is read: the items that follow it move up by one position.      *)
LEMMA RespLive ==
    ASSUME TypeOK, RespInv, call_streaming_live
    PROVE  RespInv'
<1>1. /\ Len(s2c') = Len(s2c) - 1 /\ Len(s2c) \in Nat \ {0}
      /\ \A i \in 1..(Len(s2c) - 1) : s2c'[i] = s2c[i + 1]
      /\ s2c[1].k = "ack"
  BY TailAt, RespTypes DEF call_streaming_live
<1>2. /\ call = "opening" /\ call' = "live" /\ inResp' = "run" /\ cReceiver' = "held"
      /\ UNCHANGED <<got, cResp, s2cStop, lost, srv, hResp, hTx, handler, nResp>>
  BY DEF call_streaming_live, serverVars, handlerVars
<1>3. /\ Reading /\ Reading' /\ srv # "await" /\ s2cStop = "no"
      /\ Len(got) = 0 /\ Len(cResp) = 0 /\ Base = -1 /\ Base' = 0
  BY <1>1, <1>2 DEF RespInv, PhaseInv, Reading, Base
<1>4. PhaseInv' /\ CallerInv' /\ EndInv'
  BY <1>2, <1>3 DEF RespInv, PhaseInv, CallerInv, EndInv
<1>5. WireInv'
  <2> SUFFICES ASSUME NEW i \in 1..Len(s2c')
      PROVE /\ s2c'[i].k \in {"ack", "nak", "fin", "end", "err", "chunk", "big"}
            /\ s2c'[i].k \in {"ack", "nak"} => i = 1 /\ call' # "live"
            /\ s2c'[i].k \in {"chunk", "big"} => s2c'[i].n = Base' + i
            /\ s2c'[i].k = "fin" => IF i = 1 THEN call' # "live"
                                   ELSE s2c'[i - 1].k \in {"nak", "end", "err"}
            /\ s2c'[i].k = "end" => /\ srv' = "done" /\ handler' = "ok" /\ hTx' = "gone"
                                   /\ nResp' = Base' + i - 1
    BY DEF WireInv
  <2>1. i + 1 \in 1..Len(s2c) /\ s2c'[i] = s2c[i + 1] /\ i + 1 # 1 /\ i \in Nat
    BY <1>1
  <2>2. /\ s2c[i + 1].k \in {"ack", "nak", "fin", "end", "err", "chunk", "big"}
        /\ s2c[i + 1].k \notin {"ack", "nak"}
        /\ s2c[i + 1].k \in {"chunk", "big"} => s2c[i + 1].n = -1 + (i + 1)
        /\ s2c[i + 1].k = "fin" => s2c[(i + 1) - 1].k \in {"nak", "end", "err"}
        /\ s2c[i + 1].k = "end" => /\ srv = "done" /\ handler = "ok" /\ hTx = "gone"
                                   /\ nResp = -1 + (i + 1) - 1
    BY <2>1, <1>3 DEF RespInv, WireInv
  <2>3. s2c[i + 1].k = "fin" => i # 1 /\ s2c'[i - 1].k \in {"nak", "end", "err"}
    <3>1. (i + 1) - 1 = i
      BY <2>1
    <3>2. i # 1 => s2c'[i - 1] = s2c[i]
      BY <1>1, <2>1
    <3> QED
      BY <3>1, <3>2, <2>2, <1>1
  <2> QED
    BY <2>1, <2>2, <2>3, <1>2, <1>3
<1>6. ServerInv'
  <2>1. Base' + Len(s2c') = Base + Len(s2c)
    BY <1>1, <1>3
  <2>2. (srv = "joinT" /\ lost = {}) => Len(s2c') > 0 /\ s2c'[Len(s2c')].k = "err"
    <3>1. (srv = "joinT" /\ lost = {}) => s2c[Len(s2c)].k = "err"
      BY <1>3 DEF RespInv, ServerInv
    <3>2. s2c[Len(s2c)].k = "err" => Len(s2c) # 1
      BY <1>1
    <3>3. Len(s2c) # 1 => Len(s2c') > 0 /\ s2c'[Len(s2c')] = s2c[Len(s2c)]
      BY <1>1
    <3> QED
      BY <3>1, <3>2, <3>3
  <2>3. (srv = "drain" /\ lost = {}) =>
           /\ nResp = Base' + Len(s2c') + Len(hResp)
           /\ \A i \in 1..Len(hResp) : hResp[i].n = Base' + Len(s2c') + i
    BY <1>3, <2>1 DEF RespInv, ServerInv
  <2>4. (srv = "join" /\ lost = {}) => hTx = "gone" /\ nResp = Base' + Len(s2c')
    BY <1>3, <2>1 DEF RespInv, ServerInv
  <2> QED
    BY <1>2, <2>2, <2>3, <2>4 DEF ServerInv
<1> QED
  BY <1>4, <1>5, <1>6 DEF RespInv

(* pump_inbound_responses returns: nobody reads the wire any more, and it  *)
(* is enough to know how the pump ended and what it put into the channel.  *)
LEMMA RespReturned ==
    ASSUME RespInv, call = "live", inResp' \notin {"off", "run"}, CallerInv', EndInv',
           srv' = srv, call' = call
    PROVE  RespInv'
<1>1. ~Reading' /\ PhaseInv'
  BY DEF RespInv, PhaseInv, Reading
<1>2. WireInv' /\ ServerInv'
  BY <1>1 DEF WireInv, ServerInv
<1> QED
  BY <1>1, <1>2 DEF RespInv

(* What a frame that arrives at a caller who still listens can be.         *)
LEMMA HeadFrame ==
    ASSUME TypeOK, RespInv, inResp = "run", cReceiver = "held", s2c # <<>>
    PROVE  /\ call = "live" /\ Len(s2c) \in Nat \ {0} /\ Head(s2c) = s2c[1]
           /\ Head(s2c).k \in {"end", "err", "chunk", "big"}
           /\ Head(s2c).k \in {"chunk", "big"} => Head(s2c).n = Len(got) + Len(cResp) + 1
           /\ Head(s2c).k = "end" => /\ srv = "done" /\ handler = "ok" /\ hTx = "gone"
                                     /\ nResp = Len(got) + Len(cResp)
<1>1. Len(s2c) \in Nat \ {0} /\ Head(s2c) = s2c[1] /\ 1 \in 1..Len(s2c)
  BY TailAt, RespTypes
<1>2. call = "live" /\ Reading /\ Base = Len(got) + Len(cResp)
  BY DEF RespInv, PhaseInv, Reading, Base
<1>3. /\ s2c[1].k \in {"ack", "nak", "fin", "end", "err", "chunk", "big"}
      /\ s2c[1].k \in {"ack", "nak"} => call # "live"
      /\ s2c[1].k \in {"chunk", "big"} => s2c[1].n = Base + 1
      /\ s2c[1].k = "fin" => call # "live"
      /\ s2c[1].k = "end" => /\ srv = "done" /\ handler = "ok" /\ hTx = "gone"
                             /\ nResp = Base + 1 - 1
  BY <1>1, <1>2 DEF RespInv, WireInv
<1> QED
  BY <1>1, <1>2, <1>3, RespTypes

(* An item enters the caller's channel: what CallerInv then says.          *)
LEMMA ItemQueued ==
    ASSUME TypeOK, RespInv, inResp = "run", NEW x \in Item, cResp' = Append(cResp, x),
           got' = got,
           IF x.k = "chunk" THEN x.n = Len(got) + Len(cResp) + 1 ELSE inResp' # "run"
    PROVE  /\ CallerInv'
           /\ Len(cResp') = Len(cResp) + 1 /\ cResp'[Len(cResp')] = x /\ Len(cResp) \in Nat
<1>1. /\ Len(cResp') = Len(cResp) + 1 /\ Len(cResp) \in Nat /\ Len(got) \in Nat
      /\ \A i \in 1..Len(cResp) : cResp'[i] = cResp[i]
      /\ cResp'[Len(cResp) + 1] = x
  BY AppendAt, RespTypes
<1>2. /\ \A i \in 1..Len(cResp) : cResp[i].k = "chunk" /\ cResp[i].n = Len(got) + i
      /\ \A i \in 1..Len(got) : got[i].k = "chunk" /\ got[i].n = i
  BY DEF RespInv, CallerInv
<1>3. ASSUME NEW i \in 1..Len(cResp')
      PROVE  IF cResp'[i].k = "chunk" THEN cResp'[i].n = Len(got') + i
             ELSE i = Len(cResp') /\ inResp' # "run"
  <2>1. CASE i \in 1..Len(cResp)
    BY <2>1, <1>1, <1>2
  <2>2. CASE i = Len(cResp) + 1
    BY <2>2, <1>1
  <2> QED
    BY <2>1, <2>2, <1>1
<1> QED
  BY <1>1, <1>2, <1>3 DEF CallerInv

(* A chunk is forwarded and the pump goes on: Base moves with the wire.    *)
LEMMA RespForward ==
    ASSUME TypeOK, RespInv, pump_inbound_responses_forward
    PROVE  RespInv'
<1>1. /\ inResp = "run" /\ cReceiver = "held" /\ s2c # <<>> /\ ~IsEnd(Head(s2c))
      /\ s2c' = Tail(s2c) /\ cResp' = Append(cResp, ItemOf(Head(s2c)))
      /\ UNCHANGED <<call, cReceiver, got, lost, srv, hResp, hTx, handler, nResp>>
  BY DEF pump_inbound_responses_forward, callerVars, serverVars, handlerVars
<1>2. /\ call = "live" /\ Len(s2c) \in Nat \ {0} /\ Head(s2c) = s2c[1]
      /\ Head(s2c).k \in {"err", "chunk", "big"}
      /\ Head(s2c).k \in {"chunk", "big"} => Head(s2c).n = Len(got) + Len(cResp) + 1
  BY <1>1, HeadFrame DEF IsEnd
<1>3. ItemOf(Head(s2c)) \in Item
  BY <1>1, TailAt, RespTypes, ItemOfType
<1>4. CASE ~GoesOn(Head(s2c))
  <2>1. inResp' = "err"
    BY <1>4 DEF pump_inbound_responses_forward, ReturnInboundResponses
  <2>2. ItemOf(Head(s2c)).k # "chunk"
    BY <1>2, <1>4 DEF ItemOf, GoesOn
  <2>3. /\ CallerInv'
        /\ Len(cResp') = Len(cResp) + 1 /\ cResp'[Len(cResp')] = ItemOf(Head(s2c))
        /\ Len(cResp) \in Nat
    BY <1>1, <1>3, <2>1, <2>2, ItemQueued
  <2>4. EndInv'
    BY <2>1, <2>2, <2>3 DEF EndInv
  <2> QED
    BY <1>1, <1>2, <2>1, <2>3, <2>4, RespReturned
<1>5. CASE GoesOn(Head(s2c))
  <2>1. inResp' = "run" /\ s2cStop' = s2cStop
    BY <1>1, <1>5 DEF pump_inbound_responses_forward
  <2>2. ItemOf(Head(s2c)).k = "chunk" /\ ItemOf(Head(s2c)).n = Len(got) + Len(cResp) + 1
    BY <1>2, <1>5 DEF ItemOf, GoesOn
  <2>3. CallerInv' /\ Len(cResp') = Len(cResp) + 1
    BY <1>1, <1>3, <2>2, ItemQueued
  <2>4. Reading /\ Reading' /\ Base' = Base + 1 /\ Base \in Int
    BY <1>1, <1>2, <2>1, <2>3, RespTypes DEF Reading, Base
  <2>5. PhaseInv' /\ EndInv'
    BY <1>1, <1>2, <2>1, <2>4 DEF RespInv, PhaseInv, EndInv
  <2>6. /\ Len(s2c') = Len(s2c) - 1
        /\ \A i \in 1..(Len(s2c) - 1) : s2c'[i] = s2c[i + 1]
    BY <1>1, TailAt, RespTypes
  <2>7. WireInv'
    <3> SUFFICES ASSUME NEW i \in 1..Len(s2c')
        PROVE /\ s2c'[i].k \in {"ack", "nak", "fin", "end", "err", "chunk", "big"}
              /\ s2c'[i].k \in {"ack", "nak"} => i = 1 /\ call' # "live"
              /\ s2c'[i].k \in {"chunk", "big"} => s2c'[i].n = Base' + i
              /\ s2c'[i].k = "fin" => IF i = 1 THEN call' # "live"
                                     ELSE s2c'[i - 1].k \in {"nak", "end", "err"}
              /\ s2c'[i].k = "end" => /\ srv' = "done" /\ handler' = "ok" /\ hTx' = "gone"
                                     /\ nResp' = Base' + i - 1
      BY DEF WireInv
    <3>1. i + 1 \in 1..Len(s2c) /\ s2c'[i] = s2c[i + 1] /\ i + 1 # 1 /\ i \in Nat
      BY <1>2, <2>6
    <3>2. /\ s2c[i + 1].k \in {"ack", "nak", "fin", "end", "err", "chunk", "big"}
          /\ s2c[i + 1].k \notin {"ack", "nak"}
          /\ s2c[i + 1].k \in {"chunk", "big"} => s2c[i + 1].n = Base + (i + 1)
          /\ s2c[i + 1].k = "fin" => s2c[(i + 1) - 1].k \in {"nak", "end", "err"}
          /\ s2c[i + 1].k = "end" => /\ srv = "done" /\ handler = "ok" /\ hTx = "gone"
                                     /\ nResp = Base + (i + 1) - 1
      BY <3>1, <2>4 DEF RespInv, WireInv
    <3>3. s2c[i + 1].k = "fin" => i # 1 /\ s2c'[i - 1].k \in {"nak", "end", "err"}
      <4>1. (i + 1) - 1 = i
        BY <3>1
      <4>2. i # 1 => s2c'[i - 1] = s2c[i]
        BY <2>6, <3>1
      <4>3. s2c[1].k = "chunk"
        BY <1>2, <1>5 DEF GoesOn
      <4> QED
        BY <4>1, <4>2, <4>3, <3>2
    <3> QED
      BY <3>1, <3>2, <3>3, <1>1, <2>4
  <2>8. ServerInv'
    <3>1. Base' + Len(s2c') = Base + Len(s2c)
      BY <1>2, <2>4, <2>6
    <3>2. (srv = "joinT" /\ lost = {}) => Len(s2c') > 0 /\ s2c'[Len(s2c')].k = "err"
      <4>1. (srv = "joinT" /\ lost = {}) => s2c[Len(s2c)].k = "err"
        BY <2>4 DEF RespInv, ServerInv
      <4>2. s2c[Len(s2c)].k = "err" => Len(s2c) # 1
        BY <1>2, <1>5 DEF GoesOn
      <4>3. Len(s2c) # 1 => Len(s2c') > 0 /\ s2c'[Len(s2c')] = s2c[Len(s2c)]
        BY <1>2, <2>6
      <4> QED
        BY <4>1, <4>2, <4>3
    <3>3. (srv = "drain" /\ lost = {}) =>
             /\ nResp = Base' + Len(s2c') + Len(hResp)
             /\ \A i \in 1..Len(hResp) : hResp[i].n = Base' + Len(s2c') + i
      BY <2>4, <3>1 DEF RespInv, ServerInv
    <3>4. (srv = "join" /\ lost = {}) => hTx = "gone" /\ nResp = Base' + Len(s2c')
      BY <2>4, <3>1 DEF RespInv, ServerInv
    <3> QED
      BY <1>1, <3>2, <3>3, <3>4 DEF ServerInv
  <2> QED
    BY <2>3, <2>5, <2>7, <2>8 DEF RespInv
<1> QED
  BY <1>4, <1>5

(* The pump returns: nobody listens, the stream ended, the read failed.    *)
LEMMA RespPumpReturns ==
    ASSUME TypeOK, RespInv,
           \/ pump_inbound_responses_gone
           \/ pump_inbound_responses_end
           \/ pump_inbound_responses_lost
    PROVE  RespInv'
<1>1. /\ inResp = "run" /\ call = "live" /\ inResp' \in {"end", "eof", "err", "gone"}
      /\ UNCHANGED <<call, cReceiver, got, lost, srv, hResp, hTx, handler, nResp>>
  BY DEF pump_inbound_responses_gone, pump_inbound_responses_end,
         pump_inbound_responses_lost, ReturnInboundResponses, callerVars, serverVars,
         handlerVars, RespInv, PhaseInv
<1>2. CASE pump_inbound_responses_gone
  <2>1. cReceiver = "gone" /\ cResp' = cResp
    BY <1>2 DEF pump_inbound_responses_gone
  <2>2. CallerInv' /\ EndInv'
    BY <1>1, <2>1 DEF RespInv, CallerInv, EndInv
  <2> QED
    BY <1>1, <2>2, RespReturned
<1>3. CASE pump_inbound_responses_end
  <2>1. s2c # <<>> /\ IsEnd(Head(s2c)) /\ cResp' = cResp
    BY <1>3 DEF pump_inbound_responses_end
  <2>2. CallerInv'
    BY <1>1, <2>1 DEF RespInv, CallerInv
  <2>3. EndInv'
    <3>1. CASE cReceiver # "held"
      BY <1>1, <3>1 DEF EndInv
    <3>2. CASE cReceiver = "held"
      <4>1. /\ Head(s2c).k = "end" /\ srv = "done" /\ handler = "ok" /\ hTx = "gone"
            /\ nResp = Len(got) + Len(cResp)
        BY <1>1, <2>1, <3>2, HeadFrame DEF IsEnd
      <4>2. inResp' = "end"
        BY <1>3, <4>1 DEF pump_inbound_responses_end, ReturnInboundResponses
      <4> QED
        BY <1>1, <2>1, <4>1, <4>2, RespTypes DEF EndInv
    <3> QED
      BY <3>1, <3>2
  <2> QED
    BY <1>1, <2>2, <2>3, RespReturned
<1>4. CASE pump_inbound_responses_lost
  <2>1. inResp' = "err"
    BY <1>4 DEF pump_inbound_responses_lost, ReturnInboundResponses
  <2>2. CASE cReceiver # "held"
    <3>1. cResp' = cResp
      BY <1>4, <2>2 DEF pump_inbound_responses_lost
    <3>2. CallerInv' /\ EndInv'
      BY <1>1, <2>2, <3>1 DEF RespInv, CallerInv, EndInv
    <3> QED
      BY <1>1, <3>2, RespReturned
  <2>3. CASE cReceiver = "held"
    <3>1. cResp' = Append(cResp, TransportReadErr)
      BY <1>4, <2>3 DEF pump_inbound_responses_lost
    <3>2. TransportReadErr \in Item /\ TransportReadErr.k # "chunk"
      BY FType DEF TransportReadErr
    <3>3. /\ CallerInv' /\ Len(cResp') = Len(cResp) + 1 /\ Len(cResp) \in Nat
          /\ cResp'[Len(cResp')] = TransportReadErr
      BY <1>1, <2>1, <3>1, <3>2, ItemQueued
    <3>4. EndInv'
      BY <2>1, <3>2, <3>3 DEF EndInv
    <3> QED
      BY <1>1, <3>3, <3>4, RespReturned
  <2> QED
    BY <2>2, <2>3
<1> QED
  BY <1>2, <1>3, <1>4

(* What WireInv says of one frame: f at position i, after a frame of kind   *)
(* prev, with the state it depends on as arguments.                        *)
FrameAt(f, i, prev, live, base, over, n) ==
    /\ f.k \in {"ack", "nak", "fin", "end", "err", "chunk", "big"}
    /\ f.k \in {"ack", "nak"} => i = 1 /\ ~live
    /\ f.k \in {"chunk", "big"} => f.n = base + i
    /\ f.k = "fin" => IF i = 1 THEN ~live ELSE prev \in {"nak", "end", "err"}
    /\ f.k = "end" => over /\ n = base + i - 1
WireOK(w, live, base, over, n) ==
    \A i \in 1..Len(w) : FrameAt(w[i], i, w[i - 1].k, live, base, over, n)
Over == srv = "done" /\ handler = "ok" /\ hTx = "gone"

(* WireInv, frame by frame, in a state and in its successor.               *)
LEMMA WireAt ==
    /\ WireInv <=> (Reading => WireOK(s2c, call = "live", Base, Over, nResp))
    /\ WireInv' <=> (Reading' => WireOK(s2c', call' = "live", Base', Over', nResp'))
  BY DEF WireInv, WireOK, FrameAt, Over

(* A frame is added at the end of a wire.                                  *)
LEMMA WireAppend ==
    ASSUME NEW w \in Seq(Frame), NEW f \in Frame, NEW live \in BOOLEAN, NEW base,
           NEW over \in BOOLEAN, NEW n, WireOK(w, live, base, over, n),
           FrameAt(f, Len(w) + 1, w[Len(w)].k, live, base, over, n)
    PROVE  /\ WireOK(Append(w, f), live, base, over, n)
           /\ Append(w, f) \in Seq(Frame) /\ Len(Append(w, f)) = Len(w) + 1
           /\ Append(w, f)[Len(w) + 1] = f /\ Len(w) \in Nat
<1>1. /\ Append(w, f) \in Seq(Frame) /\ Len(Append(w, f)) = Len(w) + 1 /\ Len(w) \in Nat
      /\ \A i \in 1..Len(w) : Append(w, f)[i] = w[i]
      /\ Append(w, f)[Len(w) + 1] = f
  BY AppendAt
<1>2. ASSUME NEW i \in 1..Len(Append(w, f))
      PROVE  FrameAt(Append(w, f)[i], i, Append(w, f)[i - 1].k, live, base, over, n)
  <2>1. CASE i = Len(w) + 1
    <3>1. CASE Len(w) = 0
      BY <1>1, <2>1, <3>1 DEF FrameAt
    <3>2. CASE Len(w) > 0
      <4>1. i - 1 = Len(w) /\ Append(w, f)[i - 1] = w[Len(w)]
        BY <1>1, <2>1, <3>2
      <4> QED
        BY <1>1, <2>1, <4>1
    <3>3. Len(w) = 0 \/ Len(w) > 0
      BY <1>1
    <3> QED
      BY <3>1, <3>2, <3>3, Zenon
  <2>2. CASE i \in 1..Len(w)
    <3>1. Append(w, f)[i] = w[i] /\ FrameAt(w[i], i, w[i - 1].k, live, base, over, n)
      BY <1>1, <2>2 DEF WireOK
    <3>2. CASE i = 1
      BY <3>1, <3>2 DEF FrameAt
    <3>3. CASE i # 1
      <4>1. Append(w, f)[i - 1] = w[i - 1]
        BY <1>1, <2>2, <3>3
      <4> QED
        BY <3>1, <4>1
    <3> QED
      BY <3>2, <3>3
  <2>3. i = Len(w) + 1 \/ i \in 1..Len(w)
    BY <1>1
  <2> QED
    BY <2>1, <2>2, <2>3, Zenon
<1> QED
  BY <1>1, <1>2 DEF WireOK

(* A wire without RESPONSE_END stays well formed when the call is over.    *)
LEMMA WireOver ==
    ASSUME NEW w, NEW live \in BOOLEAN, NEW base, NEW over \in BOOLEAN, NEW n,
           WireOK(w, live, base, FALSE, n)
    PROVE  WireOK(w, live, base, over, n)
  BY DEF WireOK, FrameAt

(* The server's own steps leave what the client holds alone.               *)
LEMMA ServerFrame ==
    ASSUME TypeOK, RespInv, srv # "await" => srv' # "await",
           UNCHANGED <<call, cReceiver, got, cResp, inResp, s2cStop>>,
           srv = "done" => srv' = "done",
           srv = "done" => handler' = handler /\ hTx' = hTx /\ nResp' = nResp
    PROVE  /\ CallerInv' /\ EndInv' /\ Base' = Base /\ Reading' = Reading
           /\ Reading => s2cStop = "no" /\ (call = "live" => srv # "await")
<1>1. CallerInv' /\ EndInv'
  BY DEF RespInv, CallerInv, EndInv
<1> QED
  BY <1>1 DEF RespInv, PhaseInv, Base, Reading

(* streaming_negotiate_open.                                               *)
LEMMA RespNegotiated ==
    ASSUME TypeOK, RespInv, streaming_negotiate_open
    PROVE  RespInv'
<1>1. /\ srv = "await" /\ srv' = "drain" /\ hTx' = "held" /\ handler' = "run"
      /\ s2c' = Written(s2c, F("ack"))
      /\ UNCHANGED <<call, cReceiver, got, cResp, inResp, s2cStop, lost, hResp, nResp>>
  BY DEF streaming_negotiate_open, callerVars, clientVars
<1>2. /\ CallerInv' /\ EndInv' /\ Base' = Base /\ Reading' = Reading
      /\ call # "live" /\ Base = -1 /\ s2c = <<>> /\ Len(hResp) = 0 /\ nResp = 0
  <2>1. CallerInv' /\ EndInv' /\ Base' = Base /\ Reading' = Reading
    BY <1>1, ServerFrame
  <2>2. call # "live" /\ Len(s2c) = 0 /\ Len(hResp) = 0 /\ nResp = 0
    BY <1>1 DEF RespInv, PhaseInv
  <2> QED
    BY <2>1, <2>2, RespTypes DEF Base
<1>3. PhaseInv'
  BY <1>1, <1>2 DEF RespInv, PhaseInv
<1>4. CASE lost = {}
  <2>1. s2c' = <<F("ack")>>
    BY <1>1, <1>2, <1>4 DEF Written
  <2>2. Len(s2c') = 1 /\ s2c'[1].k = "ack"
    BY <2>1 DEF F
  <2>3. WireInv'
    BY <1>1, <1>2, <2>2 DEF WireInv
  <2>4. ServerInv'
    BY <1>1, <1>2, <2>2 DEF ServerInv
  <2> QED
    BY <1>2, <1>3, <2>3, <2>4 DEF RespInv
<1>5. CASE lost # {}
  <2>1. Len(s2c') = 0
    BY <1>1, <1>2, <1>5 DEF Written
  <2>2. WireInv' /\ ServerInv'
    BY <1>1, <1>5, <2>1 DEF WireInv, ServerInv
  <2> QED
    BY <1>2, <1>3, <2>2 DEF RespInv
<1> QED
  BY <1>4, <1>5

(* The negotiation fails: an error ack, or none.                           *)
LEMMA RespNotNegotiated ==
    ASSUME TypeOK, RespInv, streaming_negotiate_unknown \/ streaming_negotiate_fails
    PROVE  RespInv'
<1>1. /\ srv = "await" /\ srv' = "done"
      /\ s2c' \in {s2c, Finished(s2c), Finished(Written(s2c, F("nak")))}
      /\ UNCHANGED <<call, cReceiver, got, cResp, inResp, s2cStop, lost, hResp, hTx,
                     handler, nResp>>
  BY DEF streaming_negotiate_unknown, streaming_negotiate_fails, callerVars, clientVars,
         handlerVars
<1>2. /\ CallerInv' /\ EndInv' /\ Base' = Base /\ Reading' = Reading
      /\ call # "live" /\ s2c = <<>>
  <2>1. CallerInv' /\ EndInv' /\ Base' = Base /\ Reading' = Reading
    BY <1>1, ServerFrame
  <2>2. call # "live" /\ Len(s2c) = 0
    BY <1>1 DEF RespInv, PhaseInv
  <2> QED
    BY <2>1, <2>2, RespTypes
<1>3. PhaseInv' /\ ServerInv'
  BY <1>1, <1>2 DEF RespInv, PhaseInv, ServerInv
<1>4. s2c' \in {<<>>, <<F("fin")>>, <<F("nak"), F("fin")>>}
  <2>1. CASE lost = {}
    BY <1>1, <1>2, <2>1 DEF Written, Finished
  <2>2. CASE lost # {}
    BY <1>1, <1>2, <2>2 DEF Written, Finished
  <2> QED
    BY <2>1, <2>2
<1>5. \/ Len(s2c') = 0
      \/ Len(s2c') = 1 /\ s2c'[1].k = "fin"
      \/ Len(s2c') = 2 /\ s2c'[1].k = "nak" /\ s2c'[2].k = "fin"
  BY <1>4 DEF F
<1>6. WireInv'
  BY <1>1, <1>2, <1>5 DEF WireInv
<1> QED
  BY <1>2, <1>3, <1>6 DEF RespInv

(* drain_handler_responses writes an item.                                 *)
LEMMA RespDrainWrite ==
    ASSUME TypeOK, RespInv, drain_handler_responses_write
    PROVE  RespInv'
<1>1. /\ srv = "drain" /\ hResp # <<>> /\ s2c' = Written(s2c, Head(hResp))
      /\ IF Head(hResp).k = "err" THEN srv' = "joinT" /\ hResp' = <<>>
         ELSE hResp' = Tail(hResp) /\ srv' = srv
      /\ UNCHANGED <<call, cReceiver, got, cResp, inResp, s2cStop, lost, hTx, handler, nResp>>
  BY DEF drain_handler_responses_write, callerVars, clientVars, handlerVars
<1>2. /\ CallerInv' /\ EndInv' /\ Base' = Base /\ Reading' = Reading
  BY <1>1, ServerFrame
<1>3. PhaseInv'
  BY <1>1, <1>2 DEF RespInv, PhaseInv
<1>4. Over = FALSE /\ Over' = FALSE
  BY <1>1 DEF Over
<1>5. CASE lost # {}
  <2>1. s2c' = s2c
    BY <1>1, <1>5 DEF Written
  <2>2. WireInv'
    BY <1>1, <1>2, <1>4, <2>1, WireAt DEF RespInv
  <2>3. ServerInv'
    BY <1>1, <1>5 DEF ServerInv
  <2> QED
    BY <1>2, <1>3, <2>2, <2>3 DEF RespInv
<1>6. CASE ~Reading
  <2>1. WireInv' /\ ServerInv'
    BY <1>2, <1>6 DEF WireInv, ServerInv
  <2> QED
    BY <1>2, <1>3, <2>1 DEF RespInv
<1>7. CASE lost = {} /\ Reading
  <2>1. /\ Head(hResp) = hResp[1] /\ Len(hResp) \in Nat \ {0} /\ Head(hResp) \in Frame
        /\ Head(hResp).k \in {"chunk", "big", "err"}
        /\ Len(Tail(hResp)) = Len(hResp) - 1
        /\ \A i \in 1..(Len(hResp) - 1) : Tail(hResp)[i] = hResp[i + 1]
    <3>1. Head(hResp) \in [k : RespKinds, n : Nat]
      BY <1>1, TailAt, RespTypes
    <3>2. Head(hResp).k \in RespKinds /\ Head(hResp) \in Frame
      BY <3>1, SentType
    <3> QED
      BY <1>1, <3>2, TailAt, RespTypes, ConstantsAssumption
  <2>2. /\ nResp = Base + Len(s2c) + Len(hResp)
        /\ \A i \in 1..Len(hResp) : hResp[i].n = Base + Len(s2c) + i
    BY <1>1, <1>7 DEF RespInv, ServerInv
  <2>3. Head(hResp).n = Base + (Len(s2c) + 1)
    BY <2>1, <2>2, RespTypes
  <2>4. FrameAt(Head(hResp), Len(s2c) + 1, s2c[Len(s2c)].k, call = "live", Base, FALSE, nResp)
    BY <2>1, <2>3 DEF FrameAt
  <2>5. WireOK(s2c, call = "live", Base, FALSE, nResp)
    BY <1>4, <1>7, WireAt DEF RespInv
  <2>6. s2c' = Append(s2c, Head(hResp)) /\ s2c \in Seq(Frame)
    BY <1>1, <1>7, RespTypes DEF Written
  <2>7. /\ WireOK(s2c', call = "live", Base, FALSE, nResp)
        /\ Len(s2c') = Len(s2c) + 1 /\ s2c'[Len(s2c) + 1] = Head(hResp)
    BY <2>1, <2>4, <2>5, <2>6, WireAppend
  <2>8. WireInv'
    BY <1>1, <1>2, <1>4, <2>7, WireAt
  <2>9. ServerInv'
    <3>1. CASE Head(hResp).k = "err"
      BY <1>1, <2>7, <3>1, RespTypes DEF ServerInv
    <3>2. CASE Head(hResp).k # "err"
      <4>1. hResp' = Tail(hResp) /\ srv' = "drain"
        BY <1>1, <3>2
      <4>2. nResp = Base + Len(s2c') + Len(hResp')
        BY <2>1, <2>2, <2>7, <4>1, RespTypes
      <4>3. ASSUME NEW i \in 1..Len(hResp') PROVE hResp'[i].n = Base + Len(s2c') + i
        <5>1. i + 1 \in 1..Len(hResp) /\ hResp'[i] = hResp[i + 1]
          BY <2>1, <4>1
        <5>2. hResp[i + 1].n = Base + Len(s2c) + (i + 1)
          BY <2>2, <5>1
        <5> QED
          BY <5>1, <5>2, <2>7, RespTypes
      <4> QED
        BY <1>1, <1>2, <4>1, <4>2, <4>3 DEF ServerInv
    <3> QED
      BY <3>1, <3>2
  <2> QED
    BY <1>2, <1>3, <2>8, <2>9 DEF RespInv
<1> QED
  BY <1>5, <1>6, <1>7

(* The drain ends: every sender is gone, or a write has failed.            *)
LEMMA RespDrainEnds ==
    ASSUME TypeOK, RespInv, drain_handler_responses_end \/ drain_handler_responses_fails
    PROVE  RespInv'
<1>1. /\ srv = "drain" /\ srv' \in {"join", "joinT"}
      /\ UNCHANGED <<call, cReceiver, got, cResp, inResp, s2c, s2cStop, lost, hTx, handler,
                     nResp>>
  BY DEF drain_handler_responses_end, drain_handler_responses_fails, callerVars, clientVars,
         wireVars, handlerVars
<1>2. /\ CallerInv' /\ EndInv' /\ Base' = Base /\ Reading' = Reading
      /\ Reading => s2cStop = "no"
  BY <1>1, ServerFrame
<1>3. PhaseInv'
  BY <1>1, <1>2 DEF RespInv, PhaseInv
<1>4. WireInv'
  BY <1>1, <1>2 DEF RespInv, WireInv
<1>5. ServerInv'
  <2>1. CASE drain_handler_responses_end
    <3>1. hResp = <<>> /\ hTx = "gone" /\ srv' = "join" /\ Len(hResp) = 0
      BY <2>1 DEF drain_handler_responses_end
    <3>2. Reading /\ lost = {} => nResp = Base + Len(s2c)
      BY <1>1, <3>1, RespTypes DEF RespInv, ServerInv
    <3> QED
      BY <1>1, <1>2, <3>1, <3>2 DEF ServerInv
  <2>2. CASE drain_handler_responses_fails
    <3>1. Reading => lost # {}
      BY <1>2, <2>2 DEF drain_handler_responses_fails, WriteFails
    <3> QED
      BY <1>1, <1>2, <3>1 DEF ServerInv
  <2> QED
    BY <2>1, <2>2
<1> QED
  BY <1>2, <1>3, <1>4, <1>5 DEF RespInv

(* The substream is closed, with or without a terminal frame of its own.   *)
LEMMA RespClose ==
    ASSUME TypeOK, RespInv, finalise_streaming \/ skip_finalise
    PROVE  RespInv'
<1>1. /\ srv \in {"join", "joinT"} /\ srv' = "done"
      /\ UNCHANGED <<call, cReceiver, got, cResp, inResp, s2cStop, lost, hResp, hTx, handler,
                     nResp>>
  BY DEF finalise_streaming, skip_finalise, CloseSubstream, callerVars, clientVars,
         handlerVars
<1>2. /\ CallerInv' /\ EndInv' /\ Base' = Base /\ Reading' = Reading
      /\ Reading => s2cStop = "no"
  BY <1>1, ServerFrame
<1>3. PhaseInv' /\ ServerInv'
  BY <1>1, <1>2 DEF RespInv, PhaseInv, ServerInv
<1>4. Over = FALSE /\ Over' = (handler = "ok" /\ hTx = "gone") /\ Over' \in BOOLEAN
  BY <1>1 DEF Over
<1>5. WireInv'
  <2> SUFFICES ASSUME Reading
               PROVE  WireOK(s2c', call = "live", Base, Over', nResp)
    BY <1>1, <1>2, WireAt
  <2>1. WireOK(s2c, call = "live", Base, Over', nResp) /\ s2c \in Seq(Frame)
    BY <1>4, WireAt, WireOver, RespTypes DEF RespInv
  <2>2. CASE s2c' = s2c
    BY <2>1, <2>2
  <2>3. CASE s2c' # s2c /\ srv = "joinT"
    <3>1. lost = {} /\ s2c' = Append(s2c, F("fin"))
      BY <2>3, <1>1 DEF finalise_streaming, skip_finalise, CloseSubstream, Finished, Written
    <3>2. Len(s2c) \in Nat /\ Len(s2c) > 0 /\ s2c[Len(s2c)].k = "err"
      BY <2>3, <3>1, RespTypes DEF RespInv, ServerInv
    <3>3. FrameAt(F("fin"), Len(s2c) + 1, s2c[Len(s2c)].k, call = "live", Base, Over', nResp)
      BY <3>2 DEF FrameAt, F
    <3> QED
      BY <1>4, <2>1, <3>1, <3>3, WireAppend, FType
  <2>4. CASE s2c' # s2c /\ srv = "join"
    <3>1. /\ lost = {}
          /\ s2c' = Append(Append(s2c, TerminalFrame(handler)), F("fin"))
      <4>1. finalise_streaming /\ ~WriteFails("s", s2cStop)
        BY <2>4 DEF finalise_streaming, skip_finalise, CloseSubstream
      <4>2. s2c' = Finished(Written(s2c, TerminalFrame(handler)))
        BY <4>1 DEF finalise_streaming, CloseSubstream
      <4> QED
        BY <2>4, <4>2 DEF Finished, Written
    <3>2. hTx = "gone" /\ nResp = Base + Len(s2c)
      BY <2>4, <3>1 DEF RespInv, ServerInv
    <3>3. FrameAt(TerminalFrame(handler), Len(s2c) + 1, s2c[Len(s2c)].k, call = "live",
                  Base, Over', nResp)
      <4>1. /\ TerminalFrame(handler).k \in {"end", "err"}
            /\ TerminalFrame(handler).k = "end" => handler = "ok"
        BY DEF TerminalFrame, F
      <4>2. nResp = Base + (Len(s2c) + 1) - 1
        BY <3>2, RespTypes
      <4>3. handler = "ok" => Over'
        BY <1>4, <3>2
      <4> QED
        BY <4>1, <4>2, <4>3 DEF FrameAt
    <3>4. TerminalFrame(handler) \in Frame /\ TerminalFrame(handler).k \in {"end", "err"}
      BY FType DEF TerminalFrame, F
    <3> DEFINE w == Append(s2c, TerminalFrame(handler))
    <3>5. /\ WireOK(w, call = "live", Base, Over', nResp)
          /\ w \in Seq(Frame) /\ Len(w) = Len(s2c) + 1
          /\ w[Len(w)].k \in {"end", "err"} /\ Len(s2c) \in Nat
      BY <1>4, <2>1, <3>3, <3>4, WireAppend
    <3> HIDE DEF w
    <3>6. FrameAt(F("fin"), Len(w) + 1, w[Len(w)].k, call = "live", Base, Over', nResp)
      BY <3>5 DEF FrameAt, F
    <3>7. WireOK(Append(w, F("fin")), call = "live", Base, Over', nResp)
      BY <1>4, <3>5, <3>6, WireAppend, FType
    <3> QED
      BY <3>1, <3>7 DEF w
  <2> QED
    BY <1>1, <2>2, <2>3, <2>4
<1> QED
  BY <1>2, <1>3, <1>5 DEF RespInv

(* STOP_SENDING arrives: it was sent, so nobody reads.                     *)
LEMMA RespStop ==
    ASSUME TypeOK, RespInv, DeliverStopS2C
    PROVE  RespInv'
<1>1. /\ s2cStop = "sent" /\ s2c' = <<>>
      /\ UNCHANGED <<call, cReceiver, got, cResp, inResp, lost, srv, hResp, hTx, handler,
                     nResp>>
  BY DEF DeliverStopS2C, callerVars, clientVars, serverVars, handlerVars
<1>2. ~Reading' /\ PhaseInv'
  BY <1>1 DEF RespInv, PhaseInv, Reading
<1>3. WireInv' /\ ServerInv' /\ CallerInv' /\ EndInv'
  BY <1>1, <1>2 DEF RespInv, WireInv, ServerInv, CallerInv, EndInv
<1> QED
  BY <1>2, <1>3 DEF RespInv

(* The connection fails: of what is on the wire a prefix arrives.          *)
LEMMA RespLost ==
    ASSUME TypeOK, RespInv, NEW side \in Failing, ConnectionLost(side)
    PROVE  RespInv'
<1>1. /\ lost' # {}
      /\ UNCHANGED <<call, cReceiver, got, cResp, inResp, s2cStop, srv, hResp, hTx, handler,
                     nResp>>
  BY DEF ConnectionLost, callerVars, clientVars, serverVars, handlerVars
<1>2. /\ Len(s2c') \in 0..Len(s2c)
      /\ \A i \in 1..Len(s2c') : s2c'[i] = s2c[i]
  <2>1. CASE s2c' = s2c
    BY <2>1, RespTypes
  <2>2. CASE \E j \in 0..Len(s2c) : s2c' = SubSeq(s2c, 1, j)
    <3>1. PICK j \in 0..Len(s2c) : s2c' = SubSeq(s2c, 1, j)
      BY <2>2
    <3>2. Len(SubSeq(s2c, 1, j)) = j /\ \A i \in 1..j : SubSeq(s2c, 1, j)[i] = s2c[i]
      BY RespTypes
    <3> QED
      BY <3>1, <3>2
  <2> QED
    BY <2>1, <2>2 DEF ConnectionLost
<1>3. /\ CallerInv' /\ EndInv' /\ Base' = Base /\ Reading' = Reading
  BY <1>1, ServerFrame
<1>4. PhaseInv' /\ ServerInv'
  BY <1>1, <1>2, <1>3, RespTypes DEF RespInv, PhaseInv, ServerInv
<1>5. WireInv'
  <2> SUFFICES ASSUME Reading, NEW i \in 1..Len(s2c')
      PROVE FrameAt(s2c'[i], i, s2c'[i - 1].k, call = "live", Base, Over, nResp)
    BY <1>1, <1>3, WireAt DEF WireOK, Over
  <2>1. i \in 1..Len(s2c) /\ s2c'[i] = s2c[i] /\ i \in Nat
    BY <1>2, RespTypes
  <2>2. FrameAt(s2c[i], i, s2c[i - 1].k, call = "live", Base, Over, nResp)
    BY <2>1, WireAt DEF RespInv, WireOK
  <2>3. CASE i = 1
    BY <2>1, <2>2, <2>3 DEF FrameAt
  <2>4. CASE i # 1
    <3>1. s2c'[i - 1] = s2c[i - 1]
      BY <1>2, <2>1, <2>4
    <3> QED
      BY <2>1, <2>2, <3>1
  <2> QED
    BY <2>3, <2>4
<1> QED
  BY <1>3, <1>4, <1>5 DEF RespInv

(* The open-request is written: the phase moves on, or the call has failed. *)
LEMMA RespOpen ==
    ASSUME RespInv, call_streaming_open
    PROVE  RespInv'
<1>1. /\ call = "idle" /\ call' \in {"opening", "failed"}
      /\ UNCHANGED <<cReceiver, got, cResp, inResp, s2c, s2cStop, lost, srv, hResp, hTx,
                     handler, nResp>>
  BY DEF call_streaming_open, callerVars, serverVars, handlerVars
<1>2. CASE call' = "failed"
  BY <1>1, <1>2, RespNotOpened
<1>3. CASE call' = "opening"
  <2>1. Base' = Base /\ Reading /\ Reading'
    BY <1>1, <1>3 DEF Base, Reading
  <2>2. PhaseInv' /\ CallerInv' /\ EndInv'
    BY <1>1, <1>3, <2>1 DEF RespInv, PhaseInv, CallerInv, EndInv
  <2>3. WireInv'
    BY <1>1, <1>3, <2>1 DEF RespInv, WireInv
  <2>4. ServerInv'
    BY <1>1, <2>1 DEF RespInv, ServerInv
  <2> QED
    BY <2>2, <2>3, <2>4 DEF RespInv
<1> QED
  BY <1>1, <1>2, <1>3

(* Every step preserves RespInv.                                           *)
LEMMA RespStep == TypeOK /\ RespInv /\ [Next]_vars => RespInv'
<1> SUFFICES ASSUME TypeOK, RespInv, [Next]_vars PROVE RespInv'
  OBVIOUS
<1> USE DEF callerVars, clientVars, wireVars, serverVars, handlerVars, respVars
<1>1. CASE Open \/ Cancel
  <2>1. CASE call_streaming_open
    BY <2>1, RespOpen
  <2>2. CASE call_streaming_live
    BY <2>2, RespLive
  <2>3. CASE call_streaming_fails \/ Cancel
    BY <2>3, RespNotOpened
       DEF call_streaming_fails, Cancel, CancelWhileWriting, CancelWhileOpening
  <2> QED
    BY <1>1, <2>1, <2>2, <2>3 DEF Open
<1>2. CASE Caller
  <2>1. CASE CallerDropSender \/ \E kind \in ReqKinds : CallerSend(kind)
    BY <2>1, RespFrame DEF CallerDropSender, CallerSend
  <2> QED
    BY <1>2, <2>1, RespCallerReceive, RespCallerDrops DEF Caller
<1>3. CASE pump_outbound_requests \/ pump_inbound_requests
  BY <1>3, RespFrame
     DEF pump_outbound_requests, pump_outbound_requests_chunk, pump_outbound_requests_fails,
         pump_outbound_requests_end, pump_inbound_requests, pump_inbound_requests_forward,
         pump_inbound_requests_gone, pump_inbound_requests_end, pump_inbound_requests_lost
<1>4. CASE pump_inbound_responses
  BY <1>4, RespForward, RespPumpReturns DEF pump_inbound_responses
<1>5. CASE Negotiate
  BY <1>5, RespNegotiated, RespNotNegotiated DEF Negotiate
<1>6. CASE handle_streaming_substream
  BY <1>6, RespDrainWrite, RespDrainEnds, RespClose DEF handle_streaming_substream
<1>7. CASE Handler
  <2>1. CASE HandlerReceive \/ HandlerDropRequests
    BY <2>1, RespFrame DEF HandlerReceive, HandlerDropRequests
  <2> QED
    BY <1>7, <2>1, RespHandlerSend, RespHandlerEnds DEF Handler
<1>8. CASE Transport
  <2>1. CASE DeliverStopC2S
    BY <2>1, RespFrame DEF DeliverStopC2S
  <2> QED
    BY <1>8, <2>1, RespStop, RespLost DEF Transport
<1>9. CASE UNCHANGED vars
  BY <1>9, RespFrame DEF vars
<1> QED
  BY <1>1, <1>2, <1>3, <1>4, <1>5, <1>6, <1>7, <1>8, <1>9 DEF Next

(* The inductive invariant of the response direction holds throughout.     *)
THEOREM ResponseInvariant == Spec => []RespInv
<1>1. Init => RespInv
  BY DEF Init, RespInv, PhaseInv, WireInv, ServerInv, CallerInv, EndInv, Reading, Base
<1> QED
  BY <1>1, RespStep, TypeCorrect, PTL DEF Spec

(* For every capacity, every number of items and every pattern of          *)
(* failures and cancellations, the caller receives the handler's chunks in *)
(* order, each once and without a gap, and an error only as the last item. *)
THEOREM ResponsesOrdered == Spec => []ResponsesInOrder
<1>1. TypeOK /\ RespInv => ResponsesInOrder
  <2> SUFFICES ASSUME TypeOK, RespInv PROVE ResponsesInOrder
    OBVIOUS
  <2>1. DOMAIN got = 1..Len(got)
    BY RespTypes
  <2>2. \A i \in 1..Len(got) : IF got[i].k = "chunk" THEN got[i].n = i ELSE i = Len(got)
    BY DEF RespInv, CallerInv
  <2>3. \A i \in DOMAIN got : got[i].k = "chunk" => got[i].n = i
    BY <2>1, <2>2
  <2>4. ASSUME NEW i \in 1..(Len(got) - 1) PROVE got[i].k = "chunk"
    <3>1. PICK m \in Nat : m = Len(got)
      BY RespTypes
    <3>2. i \in 1..(m - 1) => i \in 1..m /\ i # m
      OBVIOUS
    <3> QED
      BY <2>2, <3>1, <3>2
  <2> QED
    BY <2>3, <2>4 DEF ResponsesInOrder
<1> QED
  BY <1>1, ResponseInvariant, TypeCorrect, PTL

(* A response stream that ends without an error is the complete answer of  *)
(* a handler that returned Ok(()).                                         *)
THEOREM CleanEndIsComplete == Spec => []CleanEndComplete
<1>1. TypeOK /\ RespInv => CleanEndComplete
  <2> SUFFICES ASSUME TypeOK, RespInv, cReceiver = "held", cResp = <<>>,
                      inResp \notin {"off", "run"}, OnlyChunks(got)
               PROVE  inResp = "end" /\ handler = "ok" /\ hTx = "gone" /\ Len(got) = nResp
    BY DEF CleanEndComplete, ResponsesEnded
  <2>1. Len(cResp) = 0 /\ Len(got) \in Nat /\ DOMAIN got = 1..Len(got)
    BY RespTypes
  <2>2. Len(got) > 0 => got[Len(got)].k = "chunk"
    BY <2>1 DEF OnlyChunks
  <2>3. inResp = "end"
    <3>1. inResp \in {"off", "run", "end", "eof", "err", "gone"}
      BY DEF TypeOK
    <3>2. /\ inResp \notin {"eof", "gone"}
          /\ inResp = "err" => Len(cResp) > 0 \/ (Len(got) > 0 /\ got[Len(got)].k # "chunk")
      BY DEF RespInv, EndInv
    <3>3. inResp # "err"
      BY <2>1, <2>2, <3>2
    <3> QED
      BY <3>1, <3>2, <3>3
  <2> QED
    BY <2>1, <2>3 DEF RespInv, EndInv
<1> QED
  BY <1>1, ResponseInvariant, TypeCorrect, PTL

-----------------------------------------------------------------------------
(* The requests.                                                           *)

(* What is on c2s, or will be, can still reach the handler.                *)
ReqReading == srv = "await" \/ (inReq = "run" /\ hRx = "held")

(* The frame at position i of c2s that carries an item carries the one     *)
(* numbered ReqBase + i: the open-request takes a position until it is     *)
(* read.                                                                   *)
ReqBase == IF srv = "await" THEN -1 ELSE Len(hGot) + Len(hReq)

(* The caller has dropped its sender; nobody waits for the answer.         *)
Sent == cSender = "gone" /\ call = "live"
Unheeded == inResp \notin {"off", "run"} \/ call = "cancelled" \/ srv = "done"

(* The phases of the call.                                                 *)
ReqPhase ==
    /\ srv = "await" => /\ Len(hReq) = 0 /\ Len(hGot) = 0
                        /\ inReq = "off" /\ hRx = "gone"
    /\ call = "idle" => Len(c2s) = 0 /\ (lost = {} => srv = "await")
    /\ call # "live" => /\ outPump = "off" /\ nReq = 0 /\ Len(cReq) = 0
                        /\ cSender = "gone"
    /\ ReqReading => c2sStop = "no"

(* A call that waits for its ack finds it, or the server has closed.       *)
AckInv ==
    call = "opening" /\ lost = {} /\ srv # "await"
      => Len(s2c) > 0 /\ (s2c[1].k = "ack" \/ srv = "done")

(* What may be at position i of a wire of requests, after a frame prev.    *)
ReqFrameAt(f, i, prev, first, base, sent, unheeded, n) ==
    /\ f.k \in {"open", "torn", "fin", "end"} \cup ReqKinds
    /\ f.k = "open" => i = 1 /\ first
    /\ f.k \in ReqKinds => f.n = base + i
    /\ f.k = "fin" => unheeded \/ (i # 1 /\ prev = "end")
    /\ f.k = "end" => sent /\ n = base + i - 1
ReqWireOK(w, first, base, sent, unheeded, n) ==
    \A i \in 1..Len(w) : ReqFrameAt(w[i], i, w[i - 1].k, first, base, sent, unheeded, n)

(* What the client has put on the wire while the server reads it.          *)
ReqWire ==
    ReqReading => ReqWireOK(c2s, srv = "await", ReqBase, Sent, Unheeded, nReq)

(* What the client still holds for a server that can be reached.           *)
ReqSource ==
    ReqReading /\ lost = {} /\ (call = "opening" \/ outPump = "run") =>
        /\ nReq = ReqBase + Len(c2s) + Len(cReq)
        /\ \A i \in 1..Len(cReq) : cReq[i].n = ReqBase + Len(c2s) + i

(* What the handler has received, and what waits in its channel.           *)
ReqHandler ==
    /\ \A i \in 1..Len(hGot) : hGot[i].k = "terr" \/ hGot[i].n = i
    /\ \A i \in 1..Len(hReq) : hReq[i].k = "terr" \/ hReq[i].n = Len(hGot) + i

(* How pump_inbound_requests ended, for a handler that still listens.      *)
ReqEnd ==
    inReq = "done" /\ hRx = "held" =>
        \/ \E i \in 1..Len(hReq) : hReq[i].k # "chunk"
        \/ \E i \in 1..Len(hGot) : hGot[i].k # "chunk"
        \/ Sent /\ nReq = Len(hGot) + Len(hReq)
        \/ Unheeded

ReqInv == ReqPhase /\ AckInv /\ ReqWire /\ ReqSource /\ ReqHandler /\ ReqEnd

-----------------------------------------------------------------------------
(* The types of the variables ReqInv speaks of.                            *)
LEMMA ReqTypes ==
    ASSUME TypeOK
    PROVE  /\ c2s \in Seq(Frame) /\ s2c \in Seq(Frame) /\ hReq \in Seq(Item)
           /\ hGot \in Seq(Item) /\ cReq \in Seq([k : ReqKinds, n : Nat]) /\ nReq \in Nat
           /\ Len(c2s) \in Nat /\ Len(s2c) \in Nat /\ Len(hReq) \in Nat
           /\ Len(hGot) \in Nat /\ Len(cReq) \in Nat
           /\ ReqBase \in Int
  BY DEF TypeOK, ReqBase

(* The front of a wire that is not cut is the oldest frame.                *)
LEMMA Front ==
    ASSUME lost = {}
    PROVE  /\ \A w \in Seq(Frame), f \in Frame :
                /\ Written(w, f) \in Seq(Frame) /\ Len(Written(w, f)) > 0
                /\ Len(w) > 0 => Written(w, f)[1] = w[1]
                /\ Len(w) = 0 => Written(w, f)[1] = f
           /\ \A w \in Seq(Frame) :
                /\ Len(Finished(w)) > 0
                /\ Len(w) > 0 => Finished(w)[1] = w[1]
<1>1. ASSUME NEW w \in Seq(Frame), NEW f \in Frame
      PROVE  /\ Written(w, f) \in Seq(Frame) /\ Len(Written(w, f)) > 0
             /\ Len(w) > 0 => Written(w, f)[1] = w[1]
             /\ Len(w) = 0 => Written(w, f)[1] = f
  <2>1. Written(w, f) = Append(w, f)
    BY DEF Written
  <2> QED
    BY <2>1, AppendAt
<1>2. F("fin") \in Frame
  BY FType
<1> QED
  BY <1>1, <1>2 DEF Finished

(* Only the negotiation answers the open-request, and the ack stays in     *)
(* front until the call reads it.                                          *)
LEMMA AckStep == TypeOK /\ RespInv /\ ReqPhase /\ AckInv /\ [Next]_vars => AckInv'
<1> SUFFICES ASSUME TypeOK, RespInv, ReqPhase, AckInv, [Next]_vars,
                    call' = "opening", lost' = {}, srv' # "await"
             PROVE  Len(s2c') > 0 /\ (s2c'[1].k = "ack" \/ srv' = "done")
  BY DEF AckInv
<1> USE DEF callerVars, clientVars, wireVars, serverVars, handlerVars
<1>0. CASE UNCHANGED <<call, lost, srv, s2c>>
  BY <1>0 DEF AckInv
<1>1. CASE Open \/ Cancel
  BY <1>1, <1>0 DEF Open, Cancel, call_streaming_open, call_streaming_live,
     call_streaming_fails, CancelWhileWriting, CancelWhileOpening, ReqPhase
<1>2. CASE Caller \/ pump_outbound_requests \/ pump_inbound_requests
  <2>1. CASE Caller
    BY <2>1, <1>0 DEF Caller, CallerSend, CallerDropSender, CallerReceive, CallerDropReceiver
  <2>2. CASE pump_outbound_requests
    BY <2>2, <1>0 DEF pump_outbound_requests, pump_outbound_requests_chunk,
       pump_outbound_requests_fails, pump_outbound_requests_end
  <2>3. CASE pump_inbound_requests
    BY <2>3, <1>0 DEF pump_inbound_requests, pump_inbound_requests_forward,
       pump_inbound_requests_gone, pump_inbound_requests_end, pump_inbound_requests_lost
  <2> QED
    BY <1>2, <2>1, <2>2, <2>3
<1>3. CASE pump_inbound_responses
  <2>1. call = "live" /\ call' = call
    BY <1>3 DEF RespInv, PhaseInv, pump_inbound_responses, pump_inbound_responses_forward,
       pump_inbound_responses_gone, pump_inbound_responses_end, pump_inbound_responses_lost
  <2> QED
    BY <2>1
<1>4. CASE Handler
  BY <1>4, <1>0 DEF Handler, HandlerReceive, HandlerDropRequests, HandlerSend,
     HandlerDropSender, HandlerReturn
<1>5. CASE Negotiate
  <2>1. /\ srv = "await" /\ Len(s2c) = 0 /\ call = "opening" /\ lost = {}
        /\ ~WriteFails("s", s2cStop) /\ s2c \in Seq(Frame)
    BY <1>5, ReqTypes DEF Negotiate, streaming_negotiate_open, streaming_negotiate_unknown,
       streaming_negotiate_fails, RespInv, PhaseInv, Reading, WriteFails
  <2>2. CASE streaming_negotiate_open
    <3>1. s2c' = Written(s2c, F("ack")) /\ F("ack").k = "ack"
      BY <2>2 DEF streaming_negotiate_open, F
    <3>2. F("ack") \in Frame
      BY FType
    <3>3. Len(s2c') > 0 /\ s2c'[1] = F("ack")
      BY <2>1, <3>1, <3>2, Front, Zenon
    <3> QED
      BY <3>1, <3>3
  <2>3. CASE streaming_negotiate_unknown
    <3>1. s2c' = Finished(Written(s2c, F("nak"))) /\ srv' = "done"
      BY <2>3 DEF streaming_negotiate_unknown
    <3> QED
      BY <2>1, <3>1, Front, FType, Zenon
  <2>4. CASE streaming_negotiate_fails
    <3>1. s2c' = Finished(s2c) /\ srv' = "done"
      BY <2>1, <2>4 DEF streaming_negotiate_fails
    <3> QED
      BY <2>1, <3>1, Front, Zenon
  <2> QED
    BY <1>5, <2>2, <2>3, <2>4 DEF Negotiate
<1>6. CASE handle_streaming_substream
  <2>1. call = "opening" /\ lost = {} /\ srv \notin {"await", "done"}
    BY <1>6 DEF handle_streaming_substream, drain_handler_responses_write,
       drain_handler_responses_fails, drain_handler_responses_end, finalise_streaming,
       skip_finalise
  <2>2. Len(s2c) > 0 /\ s2c[1].k = "ack" /\ s2c \in Seq(Frame)
    BY <2>1, ReqTypes DEF AckInv
  <2>3. CASE drain_handler_responses_write
    <3>1. s2c' = Written(s2c, Head(hResp)) /\ Head(hResp) \in Frame
      BY <2>3, RespTypes, SeqOps, SentType, Zenon DEF drain_handler_responses_write
    <3>2. Len(s2c') > 0 /\ s2c'[1] = s2c[1]
      BY <2>1, <2>2, <3>1, Front, Zenon
    <3> QED
      BY <2>2, <3>2
  <2>4. CASE drain_handler_responses_fails \/ drain_handler_responses_end
    BY <2>2, <2>4 DEF drain_handler_responses_fails, drain_handler_responses_end
  <2>5. CASE finalise_streaming \/ skip_finalise
    <3>1. /\ srv' = "done"
          /\ \/ s2c' = s2c \/ s2c' = Finished(s2c)
             \/ s2c' = Finished(Written(s2c, TerminalFrame(handler)))
      BY <2>5 DEF finalise_streaming, skip_finalise, CloseSubstream
    <3>2. Written(s2c, TerminalFrame(handler)) \in Seq(Frame)
      BY <2>1, <2>2, Front, FType, Zenon
    <3>3. Len(s2c') > 0
      BY <2>1, <2>2, <3>1, <3>2, Front, Zenon
    <3> QED
      BY <3>1, <3>3
  <2> QED
    BY <1>6, <2>3, <2>4, <2>5 DEF handle_streaming_substream
<1>7. CASE Transport
  BY <1>7, <1>0 DEF Transport, DeliverStopC2S, DeliverStopS2C, ConnectionLost, RespInv,
     PhaseInv, Reading
<1>8. CASE UNCHANGED vars
  BY <1>8, <1>0 DEF vars
<1> QED
  BY <1>1, <1>2, <1>3, <1>4, <1>5, <1>6, <1>7, <1>8 DEF Next

(* The phases of the call.                                                 *)
LEMMA ReqPhaseStep == TypeOK /\ RespInv /\ ReqPhase /\ [Next]_vars => ReqPhase'
<1> SUFFICES ASSUME TypeOK, RespInv, ReqPhase, [Next]_vars PROVE ReqPhase'
  OBVIOUS
<1> USE DEF callerVars, clientVars, wireVars, serverVars, handlerVars
<1>1. CASE Open \/ Cancel
  <2>1. CASE call_streaming_open
    BY <2>1 DEF call_streaming_open, ReqPhase, ReqReading
  <2>2. CASE call_streaming_live
    BY <2>2 DEF call_streaming_live, ReqPhase, ReqReading
  <2>3. CASE call_streaming_fails \/ Cancel
    BY <2>3 DEF call_streaming_fails, Cancel, CancelWhileWriting, CancelWhileOpening, ReqPhase,
       ReqReading
  <2> QED
    BY <1>1, <2>1, <2>2, <2>3 DEF Open
<1>2. CASE Caller
  <2>1. CASE CallerDropSender \/ \E kind \in ReqKinds : CallerSend(kind)
    <3>1. call = "live"
      BY <2>1 DEF CallerDropSender, CallerSend, ReqPhase
    <3> QED
      BY <2>1, <3>1 DEF CallerDropSender, CallerSend, ReqPhase, ReqReading
  <2>2. CASE CallerReceive \/ CallerDropReceiver
    BY <2>2 DEF CallerReceive, CallerDropReceiver, ReqPhase, ReqReading
  <2> QED
    BY <1>2, <2>1, <2>2 DEF Caller
<1>3. CASE pump_outbound_requests
  <2>1. call = "live"
    BY <1>3 DEF pump_outbound_requests, pump_outbound_requests_chunk,
       pump_outbound_requests_fails, pump_outbound_requests_end, ReqPhase
  <2> QED
    BY <1>3, <2>1 DEF pump_outbound_requests, pump_outbound_requests_chunk,
       pump_outbound_requests_fails, pump_outbound_requests_end, ReqPhase, ReqReading
<1>4. CASE pump_inbound_responses
  <2>1. call = "live" /\ UNCHANGED <<call, c2sStop, lost, srv, inReq, hReq, hGot, hRx>>
    BY <1>4 DEF RespInv, PhaseInv, pump_inbound_responses, pump_inbound_responses_forward,
       pump_inbound_responses_gone, pump_inbound_responses_end, pump_inbound_responses_lost
  <2> QED
    BY <2>1 DEF ReqPhase, ReqReading
<1>5. CASE Negotiate
  <2>1. CASE streaming_negotiate_open
    <3>1. call # "idle"
      BY <2>1, ReqTypes DEF streaming_negotiate_open, ReqPhase
    <3> QED
      BY <2>1, <3>1 DEF streaming_negotiate_open, ReqPhase, ReqReading
  <2>2. CASE streaming_negotiate_unknown \/ streaming_negotiate_fails
    <3>1. call = "idle" => "s" \in lost /\ c2s' = c2s
      BY <2>2, ReqTypes DEF streaming_negotiate_unknown, streaming_negotiate_fails, ReqPhase
    <3> QED
      BY <2>2, <3>1 DEF streaming_negotiate_unknown, streaming_negotiate_fails, ReqPhase,
         ReqReading
  <2> QED
    BY <1>5, <2>1, <2>2 DEF Negotiate
<1>6. CASE pump_inbound_requests
  <2>1. /\ inReq = "run" /\ srv # "await" /\ (call # "idle" \/ lost # {})
        /\ UNCHANGED <<call, outPump, nReq, cReq, cSender, lost, srv, hRx, hGot>>
    BY <1>6 DEF pump_inbound_requests, pump_inbound_requests_forward, ReqPhase,
       pump_inbound_requests_gone, pump_inbound_requests_end, pump_inbound_requests_lost
  <2>2. ReqReading' => c2sStop' = "no"
    BY <1>6, <2>1 DEF pump_inbound_requests, pump_inbound_requests_forward, ReqReading,
       pump_inbound_requests_gone, pump_inbound_requests_end, pump_inbound_requests_lost,
       ReqPhase
  <2>3. call = "idle" => c2s' = c2s
    BY <1>6, ReqTypes DEF pump_inbound_requests, pump_inbound_requests_forward, ReqPhase,
       pump_inbound_requests_gone, pump_inbound_requests_end, pump_inbound_requests_lost
  <2>4. srv # "await" /\ inReq = "run"
    BY <1>6 DEF pump_inbound_requests, pump_inbound_requests_forward, ReqPhase,
       pump_inbound_requests_gone, pump_inbound_requests_end, pump_inbound_requests_lost
  <2> QED
    BY <2>1, <2>2, <2>3, <2>4 DEF ReqPhase
<1>7. CASE handle_streaming_substream
  <2>1. /\ srv # "await" /\ srv' # "await" /\ inReq' \in {inReq, "done"}
        /\ inReq' = "run" => c2sStop' = c2sStop
        /\ UNCHANGED <<call, cSender, nReq, cReq, outPump, c2s, lost, hReq, hGot, hRx>>
    BY <1>7 DEF handle_streaming_substream, drain_handler_responses_write, TypeOK,
       drain_handler_responses_fails, drain_handler_responses_end, finalise_streaming,
       skip_finalise, CloseSubstream
  <2> QED
    BY <2>1 DEF ReqPhase, ReqReading
<1>8. CASE Handler
  BY <1>8, ReqTypes DEF Handler, HandlerReceive, HandlerDropRequests, HandlerSend,
     HandlerDropSender, HandlerReturn, ReqPhase, ReqReading
<1>9. CASE Transport
  <2>1. CASE DeliverStopC2S \/ DeliverStopS2C
    BY <2>1 DEF DeliverStopC2S, DeliverStopS2C, ReqPhase, ReqReading
  <2>2. CASE \E side \in Failing : ConnectionLost(side)
    <3>1. lost' # {} /\ (Len(c2s) = 0 => Len(c2s') = 0)
      BY <2>2, ReqTypes DEF ConnectionLost
    <3> QED
      BY <2>2, <3>1 DEF ConnectionLost, ReqPhase, ReqReading
  <2> QED
    BY <1>9, <2>1, <2>2 DEF Transport
<1>10. CASE UNCHANGED vars
  BY <1>10 DEF vars, ReqPhase, ReqReading
<1> QED
  BY <1>1, <1>2, <1>3, <1>4, <1>5, <1>6, <1>7, <1>8, <1>9, <1>10 DEF Next

-----------------------------------------------------------------------------
(* The conditions on a wire survive what only adds to what is known.       *)
LEMMA ReqWeaken ==
    ASSUME NEW w, NEW first, NEW base, NEW sent, NEW unheeded, NEW n,
           NEW sent2, NEW unheeded2, NEW n2,
           ReqWireOK(w, first, base, sent, unheeded, n),
           sent => sent2 /\ n2 = n, unheeded => unheeded2
    PROVE  ReqWireOK(w, first, base, sent2, unheeded2, n2)
  BY DEF ReqWireOK, ReqFrameAt

(* A frame is written at the end of a wire, which may be cut.              *)
LEMMA ReqWritten ==
    ASSUME NEW w \in Seq(Frame), NEW f \in Frame, NEW first, NEW base, NEW sent,
           NEW unheeded, NEW n, ReqWireOK(w, first, base, sent, unheeded, n),
           lost = {} =>
             ReqFrameAt(f, Len(w) + 1, w[Len(w)].k, first, base, sent, unheeded, n)
    PROVE  /\ ReqWireOK(Written(w, f), first, base, sent, unheeded, n)
           /\ Written(w, f) \in Seq(Frame)
<1>1. CASE lost # {}
  BY <1>1 DEF Written
<1>2. CASE lost = {}
  <2>1. /\ Append(w, f) \in Seq(Frame) /\ Len(Append(w, f)) = Len(w) + 1 /\ Len(w) \in Nat
        /\ \A i \in 1..Len(w) : Append(w, f)[i] = w[i]
        /\ Append(w, f)[Len(w) + 1] = f
    BY AppendAt
  <2>2. ASSUME NEW i \in 1..Len(Append(w, f))
        PROVE  ReqFrameAt(Append(w, f)[i], i, Append(w, f)[i - 1].k, first, base, sent,
                          unheeded, n)
    <3>1. CASE i = 1
      <4>1. CASE Len(w) = 0
        <5>1. ReqFrameAt(f, 1, w[Len(w)].k, first, base, sent, unheeded, n)
          BY <1>2, <4>1
        <5> QED
          BY <2>1, <3>1, <4>1, <5>1 DEF ReqFrameAt
      <4>2. CASE Len(w) # 0
        <5>1. ReqFrameAt(w[1], 1, w[1 - 1].k, first, base, sent, unheeded, n)
          BY <2>1, <4>2 DEF ReqWireOK
        <5>2. Append(w, f)[1] = w[1]
          BY <2>1, <4>2
        <5> QED
          BY <3>1, <5>1, <5>2 DEF ReqFrameAt
      <4> QED
        BY <4>1, <4>2
    <3>2. CASE i # 1 /\ i \in 1..Len(w)
      <4>1. Append(w, f)[i] = w[i] /\ Append(w, f)[i - 1] = w[i - 1]
        BY <2>1, <3>2
      <4> QED
        BY <3>2, <4>1 DEF ReqWireOK
    <3>3. CASE i # 1 /\ i = Len(w) + 1
      <4>1. Append(w, f)[i] = f /\ Append(w, f)[i - 1] = w[Len(w)]
        BY <2>1, <3>3
      <4> QED
        BY <1>2, <3>3, <4>1
    <3>4. i \in 1..Len(w) \/ i = Len(w) + 1
      BY <2>1
    <3> QED
      BY <3>1, <3>2, <3>3, <3>4, Zenon
  <2> QED
    BY <1>2, <2>1, <2>2 DEF ReqWireOK, Written
<1> QED
  BY <1>1, <1>2

(* The head of a wire is read, and does not end the stream.                *)
LEMMA ReqTail ==
    ASSUME NEW w \in Seq(Frame), w # <<>>, NEW first, NEW base \in Int, NEW sent,
           NEW unheeded, NEW n, ReqWireOK(w, first, base, sent, unheeded, n), w[1].k # "end"
    PROVE  ReqWireOK(Tail(w), FALSE, base + 1, sent, unheeded, n)
<1> SUFFICES ASSUME NEW i \in 1..Len(Tail(w))
             PROVE  ReqFrameAt(Tail(w)[i], i, Tail(w)[i - 1].k, FALSE, base + 1, sent,
                               unheeded, n)
  BY DEF ReqWireOK
<1>1. /\ Len(Tail(w)) = Len(w) - 1 /\ Len(w) \in Nat \ {0}
      /\ \A j \in 1..(Len(w) - 1) : Tail(w)[j] = w[j + 1]
  BY TailAt
<1>2. /\ i \in Nat /\ i + 1 \in 1..Len(w) /\ i + 1 # 1 /\ (i + 1) - 1 = i
      /\ Tail(w)[i] = w[i + 1]
  BY <1>1
<1>3. ReqFrameAt(w[i + 1], i + 1, w[i].k, first, base, sent, unheeded, n)
  <2>1. ReqFrameAt(w[i + 1], i + 1, w[(i + 1) - 1].k, first, base, sent, unheeded, n)
    BY <1>2 DEF ReqWireOK
  <2> QED
    BY <1>2, <2>1
<1>4. i # 1 => Tail(w)[i - 1] = w[i]
  <2>1. i # 1 => i - 1 \in 1..(Len(w) - 1) /\ (i - 1) + 1 = i
    BY <1>1, <1>2
  <2> QED
    BY <1>1, <2>1
<1>5. base + (i + 1) = (base + 1) + i /\ base + (i + 1) - 1 = (base + 1) + i - 1
  BY <1>2
<1>6. /\ w[i + 1].k \in {"torn", "fin", "end"} \cup ReqKinds
      /\ w[i + 1].k \in ReqKinds => w[i + 1].n = (base + 1) + i
      /\ w[i + 1].k = "end" => sent /\ n = (base + 1) + i - 1
      /\ w[i + 1].k = "fin" => unheeded \/ w[i].k = "end"
      /\ w[i + 1].k # "open"
  BY <1>2, <1>3, <1>5 DEF ReqFrameAt
<1>7. w[i].k = "end" => i # 1
  OBVIOUS
<1> QED
  BY <1>2, <1>4, <1>6, <1>7 DEF ReqFrameAt

(* What is sent stays sent, and an answer that nobody waits for is not     *)
(* waited for later.                                                       *)
LEMMA SentStays ==
    ASSUME TypeOK, RespInv, ReqPhase, [Next]_vars
    PROVE  /\ Sent => Sent' /\ nReq' = nReq
           /\ Unheeded => Unheeded'
<1> USE DEF callerVars, clientVars, wireVars, serverVars, handlerVars, Sent, Unheeded
<1>1. CASE Open \/ Cancel
  BY <1>1 DEF Open, Cancel, call_streaming_open, call_streaming_live, call_streaming_fails,
     CancelWhileWriting, CancelWhileOpening, RespInv, PhaseInv
<1>2. CASE Caller
  BY <1>2 DEF Caller, CallerSend, CallerDropSender, CallerReceive, CallerDropReceiver
<1>3. CASE pump_outbound_requests
  BY <1>3 DEF pump_outbound_requests, pump_outbound_requests_chunk,
     pump_outbound_requests_fails, pump_outbound_requests_end
<1>4. CASE pump_inbound_responses
  <2>1. inResp = "run" /\ inResp' \in {"run", "err", "gone", "end", "eof"}
    BY <1>4 DEF pump_inbound_responses, pump_inbound_responses_forward,
       pump_inbound_responses_gone, pump_inbound_responses_end, pump_inbound_responses_lost,
       ReturnInboundResponses
  <2>2. UNCHANGED <<cSender, call, nReq, srv>>
    BY <1>4 DEF pump_inbound_responses, pump_inbound_responses_forward,
       pump_inbound_responses_gone, pump_inbound_responses_end, pump_inbound_responses_lost
  <2> QED
    BY <2>1, <2>2
<1>5. CASE Negotiate
  BY <1>5 DEF Negotiate, streaming_negotiate_open, streaming_negotiate_unknown,
     streaming_negotiate_fails
<1>6. CASE pump_inbound_requests
  BY <1>6 DEF pump_inbound_requests, pump_inbound_requests_forward,
     pump_inbound_requests_gone, pump_inbound_requests_end, pump_inbound_requests_lost
<1>7. CASE handle_streaming_substream
  BY <1>7 DEF handle_streaming_substream, drain_handler_responses_write, CloseSubstream,
     drain_handler_responses_fails, drain_handler_responses_end, finalise_streaming,
     skip_finalise
<1>8. CASE Handler
  BY <1>8 DEF Handler, HandlerReceive, HandlerDropRequests, HandlerSend,
     HandlerDropSender, HandlerReturn
<1>9. CASE Transport
  BY <1>9 DEF Transport, DeliverStopC2S, DeliverStopS2C, ConnectionLost
<1>10. CASE UNCHANGED vars
  BY <1>10 DEF vars
<1> QED
  BY <1>1, <1>2, <1>3, <1>4, <1>5, <1>6, <1>7, <1>8, <1>9, <1>10 DEF Next

(* The parts of ReqInv that speak of items and of the end of the stream.   *)
ReqData == ReqWire /\ ReqSource /\ ReqHandler /\ ReqEnd

(* A step that moves no item towards the handler: what it may do.          *)
Aside ==
    /\ ReqReading' => /\ ReqReading /\ (srv' = "await" <=> srv = "await")
                      /\ ReqWireOK(c2s', srv = "await", ReqBase, Sent', Unheeded', nReq')
    /\ hGot' = hGot
    /\ hReq' = hReq \/ (hReq' = <<>> /\ hRx' = "gone")
    /\ inReq' = "done" /\ hRx' = "held" => (inReq = "done" /\ hRx = "held") \/ Unheeded'
    /\ ReqReading' /\ lost' = {} /\ (call' = "opening" \/ outPump' = "run") =>
          /\ lost = {} /\ (call = "opening" \/ outPump = "run")
          /\ UNCHANGED <<c2s, nReq, cReq>>

(* Such a step keeps the order and the end.                                *)
LEMMA ReqAside ==
    ASSUME TypeOK, RespInv, ReqPhase, ReqData, [Next]_vars, Aside
    PROVE  ReqData'
<1>1. /\ Sent => Sent' /\ nReq' = nReq
      /\ Unheeded => Unheeded'
  BY SentStays
<1>2. ReqReading' => hReq' = hReq /\ ReqBase' = ReqBase
  <2> SUFFICES ASSUME ReqReading' PROVE hReq' = hReq /\ ReqBase' = ReqBase
    OBVIOUS
  <2>1. hReq' = hReq
    <3>1. CASE srv' = "await"
      <4>1. Len(hReq) = 0 /\ hReq \in Seq(Item)
        BY <3>1, ReqTypes DEF Aside, ReqPhase
      <4> QED
        BY <4>1 DEF Aside
    <3>2. CASE srv' # "await"
      BY <3>2 DEF Aside, ReqReading
    <3> QED
      BY <3>1, <3>2
  <2> QED
    BY <2>1 DEF Aside, ReqBase
<1>3. ReqWire'
  BY <1>2 DEF Aside, ReqWire
<1>4. ReqSource'
  BY <1>2 DEF Aside, ReqSource, ReqData
<1>5. ReqHandler'
  <2>1. CASE hReq' = hReq
    BY <2>1 DEF Aside, ReqHandler, ReqData
  <2>2. CASE hReq' = <<>>
    BY <2>2 DEF Aside, ReqHandler, ReqData
  <2> QED
    BY <2>1, <2>2 DEF Aside
<1>6. ReqEnd'
  <2> SUFFICES ASSUME inReq' = "done", hRx' = "held", ~Unheeded'
               PROVE  ReqEnd'
    BY DEF ReqEnd
  <2>1. inReq = "done" /\ hRx = "held" /\ hReq' = hReq /\ hGot' = hGot /\ ~Unheeded
    BY <1>1 DEF Aside
  <2> QED
    BY <1>1, <2>1 DEF ReqEnd, ReqData
<1> QED
  BY <1>3, <1>4, <1>5, <1>6 DEF ReqData

(* The wire after a step that leaves it alone.                             *)
LEMMA WireStays ==
    ASSUME TypeOK, RespInv, ReqPhase, ReqData, [Next]_vars, ReqReading
    PROVE  ReqWireOK(c2s, srv = "await", ReqBase, Sent', Unheeded', nReq')
<1>1. ReqWireOK(c2s, srv = "await", ReqBase, Sent, Unheeded, nReq)
  BY DEF ReqData, ReqWire
<1> QED
  BY <1>1, SentStays, ReqWeaken

(* The request stream is opened, cancelled or given up.                    *)
LEMMA ReqOpenStep ==
    ASSUME TypeOK, RespInv, ReqPhase, AckInv, ReqData, [Next]_vars, Open \/ Cancel
    PROVE  ReqData'
<1>1. /\ UNCHANGED <<srv, inReq, hRx, hReq, hGot, lost, nReq, cReq>>
      /\ ReqReading' = ReqReading
      /\ ReqReading => ReqWireOK(c2s, srv = "await", ReqBase, Sent', Unheeded', nReq')
      /\ c2s \in Seq(Frame) /\ F("fin") \in Frame
  BY WireStays, ReqTypes, FType DEF Open, Cancel, call_streaming_open, call_streaming_live,
     call_streaming_fails, CancelWhileWriting, CancelWhileOpening, callerVars, clientVars,
     serverVars, handlerVars, ReqReading
<1>2. CASE call_streaming_open
  <2>1. CASE lost # {}
    <3>1. c2s' = c2s /\ outPump' = outPump
      BY <1>2, <2>1 DEF call_streaming_open, Written
    <3>2. Aside
      BY <1>1, <2>1, <3>1 DEF Aside
    <3> QED
      BY <3>2, ReqAside
  <2>2. CASE lost = {}
    <3>1. /\ call = "idle" /\ call' = "opening" /\ srv = "await" /\ Len(c2s) = 0
          /\ outPump = "off" /\ outPump' = "off" /\ nReq = 0 /\ Len(cReq) = 0
          /\ c2s' = Written(c2s, F("open"))
      BY <1>2, <2>2 DEF call_streaming_open, ReqPhase
    <3>2. ReqReading /\ ReqBase = -1 /\ ReqBase' = -1
      BY <1>1, <3>1 DEF ReqReading, ReqBase
    <3>3. /\ Len(c2s') = 1 /\ c2s'[1] = F("open") /\ F("open").k = "open"
      <4>1. F("open") \in Frame /\ c2s' = Append(c2s, F("open"))
        BY <2>2, <3>1, FType DEF Written
      <4> QED
        BY <1>1, <3>1, <4>1, AppendAt DEF F
    <3>4. ReqWire'
      <4>1. srv' = "await"
        BY <1>1, <3>1
      <4>2. ReqFrameAt(c2s'[1], 1, c2s'[1 - 1].k, srv' = "await", ReqBase', Sent', Unheeded',
                       nReq')
        BY <3>3, <4>1, ConstantsAssumption DEF ReqFrameAt
      <4>3. \A i \in 1..Len(c2s') : i = 1
        BY <3>3
      <4>4. ReqWireOK(c2s', srv' = "await", ReqBase', Sent', Unheeded', nReq')
        BY <4>2, <4>3 DEF ReqWireOK
      <4> QED
        BY <4>4 DEF ReqWire
    <3>5. ReqSource'
      BY <1>1, <3>1, <3>2, <3>3 DEF ReqSource
    <3>6. ReqHandler' /\ ReqEnd'
      <4>1. inReq = "off"
        BY <3>1 DEF ReqPhase
      <4> QED
        BY <1>1, <4>1 DEF ReqData, ReqHandler, ReqEnd
    <3> QED
      BY <3>4, <3>5, <3>6 DEF ReqData
  <2> QED
    BY <2>1, <2>2
<1>3. CASE call_streaming_live
  <2>1. c2s' = c2s /\ call = "opening"
    BY <1>3 DEF call_streaming_live
  <2>2. Aside
    BY <1>1, <2>1 DEF Aside
  <2> QED
    BY <2>2, ReqAside
<1>4. CASE call_streaming_fails \/ CancelWhileOpening \/ CancelWhileWriting
  <2>1. call' \notin {"opening", "live"} /\ outPump' = outPump /\ outPump = "off"
    BY <1>4 DEF call_streaming_fails, CancelWhileOpening, CancelWhileWriting, ReqPhase
  <2>2. ReqReading /\ lost = {} => Unheeded'
    <3>1. CASE call_streaming_fails
      <4> SUFFICES ASSUME lost = {} PROVE Unheeded'
        OBVIOUS
      <4>1. s2c # <<>> /\ Head(s2c).k # "ack" /\ call = "opening" /\ s2c \in Seq(Frame)
        BY <3>1, ReqTypes DEF call_streaming_fails
      <4>2. Len(s2c) # 0 /\ s2c[1].k # "ack"
        BY <4>1
      <4>3. srv # "await"
        BY <4>2 DEF RespInv, PhaseInv
      <4>4. srv = "done"
        BY <4>1, <4>2, <4>3 DEF AckInv
      <4> QED
        BY <1>1, <4>4 DEF Unheeded
    <3>2. CASE CancelWhileOpening \/ CancelWhileWriting
      BY <3>2 DEF CancelWhileOpening, CancelWhileWriting, Unheeded
    <3> QED
      BY <1>4, <3>1, <3>2
  <2>3. ASSUME ReqReading
        PROVE  ReqWireOK(c2s', srv = "await", ReqBase, Sent', Unheeded', nReq')
    <3>1. ASSUME NEW w \in Seq(Frame),
                 ReqWireOK(w, srv = "await", ReqBase, Sent', Unheeded', nReq')
          PROVE  ReqWireOK(Finished(w), srv = "await", ReqBase, Sent', Unheeded', nReq')
      <4>1. lost = {} => ReqFrameAt(F("fin"), Len(w) + 1, w[Len(w)].k, srv = "await",
                                    ReqBase, Sent', Unheeded', nReq')
        BY <2>2, <2>3, ConstantsAssumption DEF ReqFrameAt, F
      <4> QED
        BY <1>1, <3>1, <4>1, ReqWritten DEF Finished
    <3>2. CASE call_streaming_fails \/ CancelWhileOpening
      <4>1. c2s' = Finished(c2s)
        BY <3>2 DEF call_streaming_fails, CancelWhileOpening
      <4> QED
        BY <1>1, <2>3, <3>1, <4>1
    <3>3. CASE CancelWhileWriting
      <4>1. c2s' = Finished(Written(c2s, F("torn"))) /\ F("torn") \in Frame
        BY <3>3, FType DEF CancelWhileWriting
      <4>2. ReqFrameAt(F("torn"), Len(c2s) + 1, c2s[Len(c2s)].k, srv = "await", ReqBase,
                       Sent', Unheeded', nReq')
        BY ConstantsAssumption DEF ReqFrameAt, F
      <4>3. /\ ReqWireOK(Written(c2s, F("torn")), srv = "await", ReqBase, Sent', Unheeded',
                         nReq')
            /\ Written(c2s, F("torn")) \in Seq(Frame)
        BY <1>1, <2>3, <4>1, <4>2, ReqWritten
      <4> QED
        BY <3>1, <4>1, <4>3
    <3> QED
      BY <1>4, <3>2, <3>3
  <2>4. Aside
    BY <1>1, <2>1, <2>3 DEF Aside
  <2> QED
    BY <2>4, ReqAside
<1> QED
  BY <1>2, <1>3, <1>4 DEF Open, Cancel

(* The caller's own steps: what it sends is numbered after what is on its  *)
(* way.                                                                    *)
LEMMA ReqCallerStep ==
    ASSUME TypeOK, RespInv, ReqPhase, ReqData, [Next]_vars, Caller
    PROVE  ReqData'
<1>1. /\ UNCHANGED <<srv, inReq, hRx, hReq, hGot, lost, c2s, outPump, call>>
      /\ ReqReading' = ReqReading /\ ReqBase' = ReqBase
      /\ ReqReading => ReqWireOK(c2s, srv = "await", ReqBase, Sent', Unheeded', nReq')
  BY WireStays DEF Caller, CallerSend, CallerDropSender, CallerReceive, CallerDropReceiver,
     clientVars, wireVars, serverVars, handlerVars, ReqReading, ReqBase
<1>2. CASE CallerDropSender \/ CallerReceive \/ CallerDropReceiver
  <2>1. UNCHANGED <<nReq, cReq>>
    BY <1>2 DEF CallerDropSender, CallerReceive, CallerDropReceiver, clientVars
  <2>2. Aside
    BY <1>1, <2>1 DEF Aside
  <2> QED
    BY <2>2, ReqAside
<1>3. CASE \E kind \in ReqKinds : CallerSend(kind)
  <2>1. PICK kind \in ReqKinds : CallerSend(kind)
    BY <1>3
  <2>2. /\ nReq' = nReq + 1 /\ outPump = "run" /\ cSender = "held"
        /\ cReq' = Append(cReq, [k |-> kind, n |-> nReq + 1])
        /\ nReq \in Nat /\ cReq \in Seq([k : ReqKinds, n : Nat])
        /\ [k |-> kind, n |-> nReq + 1] \in [k : ReqKinds, n : Nat]
    BY <2>1, ReqTypes DEF CallerSend
  <2>3. /\ Len(cReq') = Len(cReq) + 1 /\ Len(cReq) \in Nat
        /\ \A i \in 1..Len(cReq) : cReq'[i] = cReq[i]
        /\ cReq'[Len(cReq) + 1].n = nReq + 1
    BY <2>2, AppendAt
  <2>4. ReqWire'
    BY <1>1 DEF ReqWire
  <2>5. ReqSource'
    <3> SUFFICES ASSUME ReqReading, lost = {}
                 PROVE  /\ nReq' = ReqBase + Len(c2s) + Len(cReq')
                        /\ \A i \in 1..Len(cReq') : cReq'[i].n = ReqBase + Len(c2s) + i
      BY <1>1 DEF ReqSource
    <3>1. /\ nReq = ReqBase + Len(c2s) + Len(cReq)
          /\ \A i \in 1..Len(cReq) : cReq[i].n = ReqBase + Len(c2s) + i
      BY <2>2 DEF ReqData, ReqSource
    <3>2. ReqBase \in Int /\ Len(c2s) \in Nat
      BY ReqTypes
    <3>3. nReq' = ReqBase + Len(c2s) + Len(cReq')
      BY <2>2, <2>3, <3>1, <3>2
    <3>4. ASSUME NEW i \in 1..Len(cReq') PROVE cReq'[i].n = ReqBase + Len(c2s) + i
      <4>1. CASE i \in 1..Len(cReq)
        BY <2>3, <3>1, <4>1
      <4>2. CASE i = Len(cReq) + 1
        BY <2>3, <3>1, <3>2, <4>2
      <4>3. i \in 1..Len(cReq) \/ i = Len(cReq) + 1
        BY <2>3
      <4> QED
        BY <4>1, <4>2, <4>3
    <3> QED
      BY <3>3, <3>4
  <2>6. ReqHandler' /\ ReqEnd'
    <3>1. ~Sent /\ (Unheeded => Unheeded')
      BY <2>2, SentStays DEF Sent
    <3> QED
      BY <1>1, <3>1 DEF ReqData, ReqHandler, ReqEnd
  <2> QED
    BY <2>4, <2>5, <2>6 DEF ReqData
<1> QED
  BY <1>2, <1>3 DEF Caller

(* pump_outbound_requests: a chunk keeps its number on the wire, and       *)
(* REQUEST_END says how many there were.                                   *)
LEMMA ReqOutboundStep ==
    ASSUME TypeOK, RespInv, ReqPhase, ReqData, [Next]_vars, pump_outbound_requests
    PROVE  ReqData'
<1>1. /\ UNCHANGED <<srv, inReq, hRx, hReq, hGot, lost, call, nReq>>
      /\ ReqReading' = ReqReading /\ ReqBase' = ReqBase
      /\ ReqReading => ReqWireOK(c2s, srv = "await", ReqBase, Sent', Unheeded', nReq')
      /\ outPump = "run" /\ call = "live" /\ c2s \in Seq(Frame)
  BY WireStays, ReqTypes DEF pump_outbound_requests, pump_outbound_requests_chunk,
     pump_outbound_requests_fails, pump_outbound_requests_end, callerVars, wireVars,
     serverVars, handlerVars, ReqReading, ReqBase, ReqPhase
<1>2. CASE pump_outbound_requests_fails
  <2>1. c2s' = c2s /\ outPump' = "done"
    BY <1>2 DEF pump_outbound_requests_fails, wireVars
  <2>2. Aside
    BY <1>1, <2>1 DEF Aside
  <2> QED
    BY <2>2, ReqAside
<1>3. CASE pump_outbound_requests_end
  <2>1. outPump' = "done" /\ cSender = "gone" /\ cSender' = "gone" /\ Len(cReq) = 0
    BY <1>3, ReqTypes DEF pump_outbound_requests_end, callerVars
  <2>2. c2s' = Finished(Written(c2s, F("end"))) /\ F("end") \in Frame /\ F("fin") \in Frame
    BY <1>3, FType DEF pump_outbound_requests_end
  <2>3. ASSUME ReqReading
        PROVE  ReqWireOK(c2s', srv = "await", ReqBase, Sent', Unheeded', nReq')
    <3>1. Sent' /\ (lost = {} => nReq' = ReqBase + (Len(c2s) + 1) - 1)
      BY <1>1, <2>1, <2>3, ReqTypes DEF Sent, ReqData, ReqSource
    <3>2. lost = {} => ReqFrameAt(F("end"), Len(c2s) + 1, c2s[Len(c2s)].k, srv = "await",
                                  ReqBase, Sent', Unheeded', nReq')
      BY <3>1, ConstantsAssumption DEF ReqFrameAt, F
    <3> DEFINE w == Written(c2s, F("end"))
    <3>3. /\ ReqWireOK(w, srv = "await", ReqBase, Sent', Unheeded', nReq')
          /\ w \in Seq(Frame)
      BY <1>1, <2>2, <2>3, <3>2, ReqWritten
    <3>4. lost = {} => Len(w) # 0 /\ w[Len(w)].k = "end" /\ Len(w) \in Nat
      <4>1. lost = {} => w = Append(c2s, F("end"))
        BY DEF Written
      <4> QED
        BY <1>1, <2>2, <4>1, AppendAt DEF F
    <3> HIDE DEF w
    <3>5. lost = {} => ReqFrameAt(F("fin"), Len(w) + 1, w[Len(w)].k, srv = "await",
                                  ReqBase, Sent', Unheeded', nReq')
      BY <3>4, ConstantsAssumption DEF ReqFrameAt, F
    <3>6. ReqWireOK(Written(w, F("fin")), srv = "await", ReqBase, Sent', Unheeded', nReq')
      BY <2>2, <3>3, <3>5, ReqWritten
    <3> QED
      BY <2>2, <3>6 DEF w, Finished
  <2>4. Aside
    BY <1>1, <2>1, <2>3 DEF Aside
  <2> QED
    BY <2>4, ReqAside
<1>4. CASE pump_outbound_requests_chunk
  <2>1. /\ cReq # <<>> /\ cReq' = Tail(cReq) /\ c2s' = Written(c2s, Head(cReq))
        /\ cReq \in Seq([k : ReqKinds, n : Nat]) /\ nReq \in Nat
        /\ ReqBase \in Int /\ Len(c2s) \in Nat
    BY <1>4, ReqTypes DEF pump_outbound_requests_chunk
  <2>2. /\ Len(Tail(cReq)) = Len(cReq) - 1 /\ Len(cReq) \in Nat \ {0}
        /\ \A i \in 1..(Len(cReq) - 1) : Tail(cReq)[i] = cReq[i + 1]
        /\ Head(cReq) = cReq[1] /\ Head(cReq) \in [k : ReqKinds, n : Nat]
    BY <2>1, TailAt
  <2>3. Head(cReq) \in Frame /\ Head(cReq).k \in ReqKinds
    BY <2>2, SentType
  <2>4. ReqReading /\ lost = {} =>
            /\ nReq = ReqBase + Len(c2s) + Len(cReq)
            /\ \A i \in 1..Len(cReq) : cReq[i].n = ReqBase + Len(c2s) + i
    BY <1>1 DEF ReqData, ReqSource
  <2>5. ReqWire'
    <3> SUFFICES ASSUME ReqReading
                 PROVE  ReqWireOK(c2s', srv = "await", ReqBase, Sent', Unheeded', nReq')
      BY <1>1 DEF ReqWire
    <3>1. lost = {} => Head(cReq).n = ReqBase + (Len(c2s) + 1)
      BY <2>1, <2>2, <2>4
    <3>2. lost = {} => ReqFrameAt(Head(cReq), Len(c2s) + 1, c2s[Len(c2s)].k, srv = "await",
                                  ReqBase, Sent', Unheeded', nReq')
      BY <2>3, <3>1, ConstantsAssumption DEF ReqFrameAt
    <3> QED
      BY <1>1, <2>1, <2>3, <3>2, ReqWritten
  <2>6. ReqSource'
    <3> SUFFICES ASSUME ReqReading, lost = {}
                 PROVE  /\ nReq = ReqBase + Len(c2s') + Len(cReq')
                        /\ \A i \in 1..Len(cReq') : cReq'[i].n = ReqBase + Len(c2s') + i
      BY <1>1 DEF ReqSource
    <3>1. c2s' = Append(c2s, Head(cReq))
      BY <2>1 DEF Written
    <3>2. Len(c2s') = Len(c2s) + 1
      BY <1>1, <2>3, <3>1, AppendAt
    <3>3. nReq = ReqBase + Len(c2s') + Len(cReq')
      <4>1. nReq = ReqBase + Len(c2s) + Len(cReq) /\ Len(cReq') = Len(cReq) - 1
        BY <2>1, <2>2, <2>4
      <4>2. Len(cReq) \in Int /\ ReqBase \in Int /\ Len(c2s) \in Int
        BY <2>1, <2>2
      <4> QED
        BY <3>2, <4>1, <4>2
    <3>4. ASSUME NEW i \in 1..Len(cReq') PROVE cReq'[i].n = ReqBase + Len(c2s') + i
      <4>1. i \in Nat /\ i + 1 \in 1..Len(cReq) /\ cReq'[i] = cReq[i + 1]
        BY <2>1, <2>2
      <4>2. cReq[i + 1].n = ReqBase + Len(c2s) + (i + 1)
        BY <2>4, <4>1
      <4>3. i \in Int /\ ReqBase \in Int /\ Len(c2s) \in Int
        BY <2>1, <4>1
      <4>4. ReqBase + Len(c2s) + (i + 1) = ReqBase + Len(c2s') + i
        BY <3>2, <4>3
      <4> QED
        BY <4>1, <4>2, <4>4
    <3> QED
      BY <3>3, <3>4
  <2>7. ReqHandler' /\ ReqEnd'
    BY <1>1, SentStays DEF ReqData, ReqHandler, ReqEnd
  <2> QED
    BY <2>5, <2>6, <2>7 DEF ReqData
<1> QED
  BY <1>2, <1>3, <1>4 DEF pump_outbound_requests

(* pump_inbound_responses: when it returns, the abort of the other pump    *)
(* may tear a frame, and nobody waits for the answer.                      *)
LEMMA ReqReturnStep ==
    ASSUME TypeOK, RespInv, ReqPhase, ReqData, [Next]_vars, pump_inbound_responses
    PROVE  ReqData'
<1>1. /\ UNCHANGED <<srv, inReq, hRx, hReq, hGot, lost, call, nReq>>
      /\ ReqReading' = ReqReading /\ ReqBase' = ReqBase
      /\ ReqReading => ReqWireOK(c2s, srv = "await", ReqBase, Sent', Unheeded', nReq')
      /\ inResp = "run" /\ call = "live" /\ c2s \in Seq(Frame)
  BY WireStays, ReqTypes DEF pump_inbound_responses, pump_inbound_responses_forward,
     pump_inbound_responses_gone, pump_inbound_responses_end, pump_inbound_responses_lost,
     callerVars, serverVars, handlerVars, ReqReading, ReqBase, RespInv, PhaseInv
<1>2. CASE UNCHANGED <<outPump, cReq, c2s>>
  <2>1. Aside
    BY <1>1, <1>2 DEF Aside
  <2> QED
    BY <2>1, ReqAside
<1>3. CASE \E how \in {"end", "eof", "err", "gone"}, stop \in {s2cStop, Dropped(s2cStop)} :
             ReturnInboundResponses(how, stop)
  <2>1. Unheeded' /\ outPump' = "done" /\ F("fin") \in Frame
    BY <1>3, FType DEF ReturnInboundResponses, Unheeded
  <2>2. ASSUME ReqReading
        PROVE  ReqWireOK(c2s', srv = "await", ReqBase, Sent', Unheeded', nReq')
    <3>1. ASSUME NEW w \in Seq(Frame),
                 ReqWireOK(w, srv = "await", ReqBase, Sent', Unheeded', nReq')
          PROVE  ReqWireOK(Finished(w), srv = "await", ReqBase, Sent', Unheeded', nReq')
      <4>1. ReqFrameAt(F("fin"), Len(w) + 1, w[Len(w)].k, srv = "await", ReqBase, Sent',
                       Unheeded', nReq')
        BY <2>1, ConstantsAssumption DEF ReqFrameAt, F
      <4> QED
        BY <2>1, <3>1, <4>1, ReqWritten DEF Finished
    <3>2. CASE c2s' = c2s \/ c2s' = Finished(c2s)
      BY <1>1, <2>2, <3>1, <3>2
    <3>3. CASE cReq # <<>> /\ c2s' = Finished(Written(c2s, [Head(cReq) EXCEPT !.k = "torn"]))
      <4> DEFINE f == [Head(cReq) EXCEPT !.k = "torn"]
      <4>1. Head(cReq) \in [k : ReqKinds, n : Nat]
        BY <3>3, ReqTypes, SeqOps
      <4>2. f \in Frame /\ f.k = "torn"
        BY <4>1, SentType
      <4> HIDE DEF f
      <4>3. ReqFrameAt(f, Len(c2s) + 1, c2s[Len(c2s)].k, srv = "await", ReqBase, Sent',
                       Unheeded', nReq')
        BY <4>2, ConstantsAssumption DEF ReqFrameAt
      <4>4. /\ ReqWireOK(Written(c2s, f), srv = "await", ReqBase, Sent', Unheeded', nReq')
            /\ Written(c2s, f) \in Seq(Frame)
        BY <1>1, <2>2, <4>2, <4>3, ReqWritten
      <4>5. c2s' = Finished(Written(c2s, f))
        BY <3>3 DEF f
      <4> QED
        BY <3>1, <4>4, <4>5
    <3> QED
      BY <1>3, <3>2, <3>3 DEF ReturnInboundResponses
  <2>3. Aside
    BY <1>1, <2>1, <2>2 DEF Aside
  <2> QED
    BY <2>3, ReqAside
<1> QED
  BY <1>2, <1>3 DEF pump_inbound_responses, pump_inbound_responses_forward,
     pump_inbound_responses_gone, pump_inbound_responses_end, pump_inbound_responses_lost

(* Steps of the server, the handler and the transport that move no item.   *)
LEMMA ReqAsideStep ==
    ASSUME TypeOK, RespInv, ReqPhase, ReqData, [Next]_vars,
           \/ streaming_negotiate_unknown \/ streaming_negotiate_fails
           \/ pump_inbound_requests_gone \/ handle_streaming_substream
           \/ HandlerDropRequests \/ \E kind \in RespKinds : HandlerSend(kind)
           \/ HandlerDropSender \/ \E result \in {"ok", "err", "panic"} : HandlerReturn(result)
           \/ DeliverStopC2S \/ DeliverStopS2C \/ UNCHANGED vars
    PROVE  ReqData'
<1> USE DEF callerVars, clientVars, wireVars, serverVars, handlerVars
<1>1. ReqReading => ReqWireOK(c2s, srv = "await", ReqBase, Sent', Unheeded', nReq')
  BY WireStays
<1>2. CASE streaming_negotiate_unknown \/ streaming_negotiate_fails
  <2>1. srv = "await" /\ inReq = "off" /\ ~ReqReading'
    BY <1>2 DEF streaming_negotiate_unknown, streaming_negotiate_fails, ReqPhase, ReqReading
  <2>2. Aside
    BY <1>2, <2>1 DEF streaming_negotiate_unknown, streaming_negotiate_fails, Aside
  <2> QED
    BY <2>2, ReqAside
<1>3. CASE pump_inbound_requests_gone
  <2>1. hRx = "gone" /\ hRx' = "gone" /\ inReq = "run" /\ srv # "await" /\ ~ReqReading'
    BY <1>3 DEF pump_inbound_requests_gone, ReqPhase, ReqReading
  <2>2. Aside
    BY <1>3, <2>1 DEF pump_inbound_requests_gone, Aside
  <2> QED
    BY <2>2, ReqAside
<1>4. CASE handle_streaming_substream
  <2>1. /\ srv # "await" /\ srv' # "await"
        /\ UNCHANGED <<call, cSender, nReq, cReq, outPump, c2s, lost, hReq, hGot, hRx, inResp>>
        /\ inReq' = inReq \/ (inReq' = "done" /\ srv' = "done")
    BY <1>4 DEF handle_streaming_substream, drain_handler_responses_write, CloseSubstream,
       drain_handler_responses_fails, drain_handler_responses_end, finalise_streaming,
       skip_finalise
  <2>2. srv' = "done" => Unheeded'
    BY DEF Unheeded
  <2>3. ReqReading' => ReqReading
    BY <2>1 DEF ReqReading
  <2>4. Aside
    BY <1>1, <2>1, <2>2, <2>3 DEF Aside
  <2> QED
    BY <2>4, ReqAside
<1>5. CASE \/ HandlerDropRequests \/ \E kind \in RespKinds : HandlerSend(kind)
           \/ HandlerDropSender
           \/ \E result \in {"ok", "err", "panic"} : HandlerReturn(result)
  <2>1. /\ UNCHANGED <<call, cSender, nReq, cReq, outPump, c2s, lost, hGot, inResp, srv, inReq>>
        /\ (hReq' = hReq /\ hRx' = hRx) \/ (hReq' = <<>> /\ hRx' = "gone")
    <3>1. hRx \in {"held", "gone"}
      BY DEF TypeOK
    <3>2. CASE \E result \in {"ok", "err", "panic"} : HandlerReturn(result)
      BY <3>1, <3>2 DEF HandlerReturn
    <3>3. CASE HandlerDropRequests \/ HandlerDropSender
      BY <3>3 DEF HandlerDropRequests, HandlerDropSender
    <3>4. CASE \E kind \in RespKinds : HandlerSend(kind)
      BY <3>4 DEF HandlerSend
    <3> QED
      BY <1>5, <3>2, <3>3, <3>4
  <2>2. ReqReading' => ReqReading
    BY <2>1 DEF ReqReading
  <2>3. Aside
    BY <1>1, <2>1, <2>2 DEF Aside
  <2> QED
    BY <2>3, ReqAside
<1>6. CASE DeliverStopC2S
  <2>1. c2sStop = "sent" /\ ~ReqReading /\ ~ReqReading'
    BY <1>6 DEF DeliverStopC2S, ReqPhase, ReqReading
  <2>2. Aside
    BY <1>6, <2>1 DEF DeliverStopC2S, Aside
  <2> QED
    BY <2>2, ReqAside
<1>7. CASE DeliverStopS2C \/ UNCHANGED vars
  <2>1. UNCHANGED <<call, cSender, nReq, cReq, outPump, c2s, lost, hGot, inResp, srv, inReq,
                    hReq, hRx>>
    BY <1>7 DEF DeliverStopS2C, vars
  <2>2. ReqReading' = ReqReading
    BY <2>1 DEF ReqReading
  <2>3. Aside
    BY <1>1, <2>1, <2>2 DEF Aside
  <2> QED
    BY <2>3, ReqAside
<1> QED
  BY <1>2, <1>3, <1>4, <1>5, <1>6, <1>7

(* The server reads the open-request.                                      *)
LEMMA ReqNegotiated ==
    ASSUME TypeOK, RespInv, ReqPhase, ReqData, [Next]_vars, streaming_negotiate_open
    PROVE  ReqData'
<1>1. /\ UNCHANGED <<hReq, hGot, lost, call, nReq, cReq, outPump>>
      /\ srv = "await" /\ srv' = "drain" /\ inReq' = "run"
      /\ Len(hReq) = 0 /\ Len(hGot) = 0
      /\ c2s # <<>> /\ Head(c2s).k = "open" /\ c2s' = Tail(c2s) /\ c2s \in Seq(Frame)
  BY ReqTypes DEF streaming_negotiate_open, callerVars, clientVars, ReqPhase
<1>2. ReqReading /\ ReqReading' /\ ReqBase = -1 /\ ReqBase' = 0
  BY <1>1 DEF ReqReading, ReqBase, streaming_negotiate_open
<1>3. /\ Len(Tail(c2s)) = Len(c2s) - 1 /\ Len(c2s) \in Nat \ {0} /\ Head(c2s) = c2s[1]
  BY <1>1, TailAt
<1>4. ReqWire'
  <2>1. ReqWireOK(c2s, srv = "await", ReqBase, Sent', Unheeded', nReq')
    BY <1>2, WireStays
  <2>2. c2s[1].k # "end" /\ ReqBase \in Int /\ ReqBase + 1 = 0
    BY <1>1, <1>2, <1>3
  <2>3. ReqWireOK(c2s', FALSE, ReqBase', Sent', Unheeded', nReq')
    <3>1. ReqWireOK(Tail(c2s), FALSE, ReqBase + 1, Sent', Unheeded', nReq')
      BY <1>1, <2>1, <2>2, ReqTail
    <3> QED
      BY <1>1, <1>2, <2>2, <3>1
  <2>4. (srv' = "await") = FALSE
    BY <1>1
  <2> QED
    BY <2>3, <2>4 DEF ReqWire
<1>5. ReqSource'
  <2>1. ReqBase' + Len(c2s') = ReqBase + Len(c2s)
    BY <1>1, <1>2, <1>3
  <2> QED
    BY <1>1, <1>2, <2>1 DEF ReqSource, ReqData
<1>6. ReqHandler' /\ ReqEnd'
  BY <1>1 DEF ReqData, ReqHandler, ReqEnd
<1> QED
  BY <1>4, <1>5, <1>6 DEF ReqData

(* pump_inbound_requests forwards a frame: the item has the next number.   *)
LEMMA ReqForward ==
    ASSUME TypeOK, RespInv, ReqPhase, ReqData, [Next]_vars, pump_inbound_requests_forward
    PROVE  ReqData'
<1>1. /\ UNCHANGED <<hRx, hGot, lost, call, nReq, cReq, outPump, srv>>
      /\ inReq = "run" /\ hRx = "held" /\ srv # "await"
      /\ c2s # <<>> /\ ~IsEnd(Head(c2s)) /\ c2s' = Tail(c2s) /\ c2s \in Seq(Frame)
      /\ hReq' = Append(hReq, ItemOf(Head(c2s))) /\ hReq \in Seq(Item)
      /\ GoesOn(Head(c2s)) => inReq' = "run"
      /\ ~GoesOn(Head(c2s)) => inReq' = "done"
  <2>1. c2s \in Seq(Frame) /\ hReq \in Seq(Item)
    BY ReqTypes
  <2>2. inReq = "run" /\ srv # "await"
    BY DEF pump_inbound_requests_forward, ReqPhase
  <2> QED
    BY <2>1, <2>2 DEF pump_inbound_requests_forward, callerVars, clientVars, handlerVars
<1>2. ReqReading /\ ReqBase = Len(hGot) + Len(hReq)
  BY <1>1 DEF ReqReading, ReqBase
<1>3. /\ Len(Tail(c2s)) = Len(c2s) - 1 /\ Len(c2s) \in Nat \ {0} /\ Head(c2s) = c2s[1]
      /\ Head(c2s) \in Frame
  BY <1>1, TailAt
<1>4. /\ Len(hReq') = Len(hReq) + 1 /\ Len(hReq) \in Nat
      /\ \A i \in 1..Len(hReq) : hReq'[i] = hReq[i]
      /\ hReq'[Len(hReq) + 1] = ItemOf(Head(c2s))
  <2>1. ItemOf(Head(c2s)) \in Item
    BY <1>3, ItemOfType
  <2> QED
    BY <1>1, <2>1, AppendAt
<1>5. ReqWireOK(c2s, srv = "await", ReqBase, Sent', Unheeded', nReq')
  BY <1>2, WireStays
<1>6. /\ Head(c2s).k \in {"torn"} \cup ReqKinds
      /\ Head(c2s).k \in ReqKinds => Head(c2s).n = Len(hGot) + Len(hReq) + 1
  <2>1. ReqFrameAt(c2s[1], 1, c2s[1 - 1].k, srv = "await", ReqBase, Sent', Unheeded', nReq')
    BY <1>3, <1>5 DEF ReqWireOK
  <2> QED
    BY <1>1, <1>2, <1>3, <2>1 DEF ReqFrameAt, IsEnd
<1>7. ReqWire'
  <2> SUFFICES ASSUME ReqReading' PROVE ReqWire'
    BY DEF ReqWire
  <2>1. c2s[1].k # "end" /\ ReqBase \in Int
    BY <1>1, <1>3, ReqTypes DEF IsEnd
  <2>2. ReqWireOK(c2s', FALSE, ReqBase + 1, Sent', Unheeded', nReq')
    BY <1>1, <1>5, <2>1, ReqTail
  <2>3. ReqBase' = ReqBase + 1 /\ (srv' = "await") = FALSE
    BY <1>1, <1>2, <1>4, ReqTypes DEF ReqBase
  <2> QED
    BY <2>2, <2>3 DEF ReqWire
<1>8. ReqSource'
  <2>1. ReqBase' = ReqBase + 1 /\ ReqBase \in Int
    BY <1>1, <1>2, <1>4, ReqTypes DEF ReqBase
  <2>2. ReqBase' + Len(c2s') = ReqBase + Len(c2s)
    BY <1>1, <1>3, <2>1
  <2> QED
    BY <1>1, <1>2, <2>2 DEF ReqSource, ReqData
<1>9. ReqHandler'
  <2>1. \A i \in 1..Len(hGot) : hGot[i].k = "terr" \/ hGot[i].n = i
    BY DEF ReqData, ReqHandler
  <2>2. ASSUME NEW i \in 1..Len(hReq') PROVE hReq'[i].k = "terr" \/ hReq'[i].n = Len(hGot) + i
    <3>1. CASE i \in 1..Len(hReq)
      BY <1>4, <3>1 DEF ReqData, ReqHandler
    <3>2. CASE i = Len(hReq) + 1
      <4>1. Head(c2s).k = "torn" => ItemOf(Head(c2s)).k = "terr"
        BY DEF ItemOf
      <4>2. ItemOf(Head(c2s)).n = Head(c2s).n
        BY DEF ItemOf
      <4>3. Len(hGot) + Len(hReq) + 1 = Len(hGot) + i
        BY <1>4, <3>2, ReqTypes
      <4> QED
        BY <1>4, <1>6, <3>2, <4>1, <4>2, <4>3
    <3>3. i \in 1..Len(hReq) \/ i = Len(hReq) + 1
      BY <1>4
    <3> QED
      BY <3>1, <3>2, <3>3
  <2> QED
    BY <1>1, <2>1, <2>2 DEF ReqHandler
<1>10. ReqEnd'
  <2> SUFFICES ASSUME inReq' = "done"
               PROVE  \E i \in 1..Len(hReq') : hReq'[i].k # "chunk"
    BY DEF ReqEnd
  <2>1. ItemOf(Head(c2s)).k # "chunk"
    BY <1>1 DEF GoesOn, ItemOf
  <2>2. Len(hReq) + 1 \in 1..Len(hReq')
    BY <1>4
  <2> QED
    BY <1>4, <2>1, <2>2
<1> QED
  BY <1>7, <1>8, <1>9, <1>10 DEF ReqData

(* pump_inbound_requests returns: the stream is over, or a read fails.     *)
LEMMA ReqInboundEnds ==
    ASSUME TypeOK, RespInv, ReqPhase, ReqData, [Next]_vars,
           pump_inbound_requests_end \/ pump_inbound_requests_lost
    PROVE  ReqData'
<1>1. /\ UNCHANGED <<hRx, hGot, lost, call, cSender, nReq, cReq, outPump, srv, inResp>>
      /\ inReq = "run" /\ inReq' = "done" /\ srv # "await" /\ ~ReqReading'
  BY DEF pump_inbound_requests_end, pump_inbound_requests_lost, callerVars, clientVars,
     wireVars, handlerVars, ReqPhase, ReqReading
<1>2. ReqWire' /\ ReqSource'
  BY <1>1 DEF ReqWire, ReqSource
<1>3. CASE pump_inbound_requests_end
  <2>1. hReq' = hReq /\ c2s # <<>> /\ IsEnd(Head(c2s)) /\ c2s \in Seq(Frame)
    BY <1>3, ReqTypes DEF pump_inbound_requests_end
  <2>2. ReqHandler'
    BY <1>1, <2>1 DEF ReqHandler, ReqData
  <2>3. ReqEnd'
    <3> SUFFICES ASSUME hRx = "held"
                 PROVE  (Sent /\ nReq = Len(hGot) + Len(hReq)) \/ Unheeded
      BY <1>1, <2>1 DEF ReqEnd, Sent, Unheeded
    <3>1. ReqReading /\ ReqBase = Len(hGot) + Len(hReq) /\ ReqBase \in Int
      BY <1>1, ReqTypes DEF ReqReading, ReqBase
    <3>2. Len(c2s) \in Nat \ {0} /\ Head(c2s) = c2s[1]
      BY <2>1, TailAt
    <3>3. ReqFrameAt(c2s[1], 1, c2s[1 - 1].k, srv = "await", ReqBase, Sent, Unheeded, nReq)
      BY <3>1, <3>2 DEF ReqData, ReqWire, ReqWireOK
    <3> QED
      BY <2>1, <3>1, <3>2, <3>3 DEF ReqFrameAt, IsEnd
  <2> QED
    BY <1>2, <2>2, <2>3 DEF ReqData
<1>4. CASE pump_inbound_requests_lost
  <2>1. /\ hRx = "held" => hReq' = Append(hReq, TransportReadErr)
        /\ hRx # "held" => hReq' = hReq
        /\ hReq \in Seq(Item) /\ TransportReadErr \in Item /\ TransportReadErr.k = "terr"
    BY <1>4, ReqTypes, FType DEF pump_inbound_requests_lost, TransportReadErr
  <2>2. hRx = "held" =>
           /\ Len(hReq') = Len(hReq) + 1 /\ Len(hReq) \in Nat
           /\ \A i \in 1..Len(hReq) : hReq'[i] = hReq[i]
           /\ hReq'[Len(hReq) + 1].k = "terr"
    BY <2>1, AppendAt
  <2>3. ReqHandler'
    <3>1. CASE hRx # "held"
      BY <1>1, <2>1, <3>1 DEF ReqHandler, ReqData
    <3>2. CASE hRx = "held"
      <4>1. ASSUME NEW i \in 1..Len(hReq')
            PROVE  hReq'[i].k = "terr" \/ hReq'[i].n = Len(hGot) + i
        <5>1. i \in 1..Len(hReq) \/ i = Len(hReq) + 1
          BY <2>2, <3>2
        <5> QED
          BY <2>2, <3>2, <5>1 DEF ReqHandler, ReqData
      <4> QED
        BY <1>1, <4>1 DEF ReqHandler, ReqData
    <3> QED
      BY <3>1, <3>2
  <2>4. ReqEnd'
    <3> SUFFICES ASSUME hRx = "held"
                 PROVE  \E i \in 1..Len(hReq') : hReq'[i].k # "chunk"
      BY <1>1 DEF ReqEnd
    <3>1. Len(hReq) + 1 \in 1..Len(hReq')
      BY <2>2
    <3> QED
      BY <2>2, <3>1
  <2> QED
    BY <1>2, <2>3, <2>4 DEF ReqData
<1> QED
  BY <1>3, <1>4

(* The handler receives an item: it keeps its number.                      *)
LEMMA ReqHandlerReceive ==
    ASSUME TypeOK, RespInv, ReqPhase, ReqData, [Next]_vars, HandlerReceive
    PROVE  ReqData'
<1>1. /\ UNCHANGED <<hRx, lost, call, cSender, nReq, cReq, outPump, srv, inReq, inResp, c2s>>
      /\ hRx = "held" /\ hReq # <<>> /\ hReq \in Seq(Item) /\ hGot \in Seq(Item)
      /\ hGot' = Append(hGot, Head(hReq)) /\ hReq' = Tail(hReq)
      /\ Sent' = Sent /\ Unheeded' = Unheeded
  <2>1. hReq \in Seq(Item) /\ hGot \in Seq(Item)
    BY ReqTypes
  <2> QED
    BY <2>1 DEF HandlerReceive, callerVars, clientVars, wireVars, Sent, Unheeded
<1>2. /\ Len(Tail(hReq)) = Len(hReq) - 1 /\ Len(hReq) \in Nat \ {0}
      /\ \A i \in 1..(Len(hReq) - 1) : Tail(hReq)[i] = hReq[i + 1]
      /\ Head(hReq) = hReq[1] /\ Head(hReq) \in Item
  BY <1>1, TailAt
<1>3. /\ Len(hGot') = Len(hGot) + 1 /\ Len(hGot) \in Nat
      /\ \A i \in 1..Len(hGot) : hGot'[i] = hGot[i]
      /\ hGot'[Len(hGot) + 1] = hReq[1]
  BY <1>1, <1>2, AppendAt
<1>4. Len(hGot') + Len(hReq') = Len(hGot) + Len(hReq)
  BY <1>1, <1>2, <1>3
<1>5. srv # "await"
  BY <1>1 DEF ReqPhase
<1>6. ReqBase' = ReqBase /\ ReqReading' = ReqReading
  BY <1>1, <1>4, <1>5 DEF ReqBase, ReqReading
<1>7. ReqWire' /\ ReqSource'
  BY <1>1, <1>6 DEF ReqData, ReqWire, ReqSource
<1>8. ReqHandler'
  <2>1. ASSUME NEW i \in 1..Len(hGot') PROVE hGot'[i].k = "terr" \/ hGot'[i].n = i
    <3>1. CASE i \in 1..Len(hGot)
      BY <1>3, <3>1 DEF ReqData, ReqHandler
    <3>2. CASE i = Len(hGot) + 1
      <4>1. 1 \in 1..Len(hReq)
        BY <1>2
      <4> QED
        BY <1>3, <3>2, <4>1 DEF ReqData, ReqHandler
    <3>3. i \in 1..Len(hGot) \/ i = Len(hGot) + 1
      BY <1>3
    <3> QED
      BY <3>1, <3>2, <3>3
  <2>2. ASSUME NEW i \in 1..Len(hReq')
        PROVE  hReq'[i].k = "terr" \/ hReq'[i].n = Len(hGot') + i
    <3>1. i \in Nat /\ i + 1 \in 1..Len(hReq) /\ hReq'[i] = hReq[i + 1]
      BY <1>1, <1>2
    <3>2. hReq[i + 1].k = "terr" \/ hReq[i + 1].n = Len(hGot) + (i + 1)
      BY <3>1 DEF ReqData, ReqHandler
    <3>3. Len(hGot) + (i + 1) = Len(hGot') + i
      BY <1>3, <3>1
    <3> QED
      BY <3>1, <3>2, <3>3
  <2> QED
    BY <2>1, <2>2 DEF ReqHandler
<1>9. ReqEnd'
  <2> SUFFICES ASSUME inReq = "done", ~Unheeded, ~(Sent /\ nReq = Len(hGot) + Len(hReq))
               PROVE  \/ \E i \in 1..Len(hReq') : hReq'[i].k # "chunk"
                      \/ \E i \in 1..Len(hGot') : hGot'[i].k # "chunk"
    BY <1>1, <1>4 DEF ReqEnd
  <2>1. \/ \E i \in 1..Len(hReq) : hReq[i].k # "chunk"
        \/ \E i \in 1..Len(hGot) : hGot[i].k # "chunk"
    BY <1>1 DEF ReqData, ReqEnd
  <2>2. CASE \E i \in 1..Len(hGot) : hGot[i].k # "chunk"
    <3>1. PICK i \in 1..Len(hGot) : hGot[i].k # "chunk"
      BY <2>2
    <3>2. i \in 1..Len(hGot') /\ hGot'[i] = hGot[i]
      BY <1>3
    <3> QED
      BY <3>1, <3>2
  <2>3. CASE \E i \in 1..Len(hReq) : hReq[i].k # "chunk"
    <3>1. PICK i \in 1..Len(hReq) : hReq[i].k # "chunk"
      BY <2>3
    <3>2. CASE i = 1
      <4>1. Len(hGot) + 1 \in 1..Len(hGot')
        BY <1>3
      <4> QED
        BY <1>3, <3>1, <3>2, <4>1
    <3>3. CASE i # 1
      <4>1. i - 1 \in 1..(Len(hReq) - 1) /\ (i - 1) + 1 = i
        BY <1>2, <3>3
      <4>2. i - 1 \in 1..Len(hReq') /\ hReq'[i - 1] = hReq[i]
        BY <1>1, <1>2, <4>1
      <4> QED
        BY <3>1, <4>2
    <3> QED
      BY <3>2, <3>3
  <2> QED
    BY <2>1, <2>2, <2>3
<1> QED
  BY <1>7, <1>8, <1>9 DEF ReqData

(* The connection fails: of what is on the wire a prefix arrives.          *)
LEMMA ReqLost ==
    ASSUME TypeOK, RespInv, ReqPhase, ReqData, [Next]_vars, NEW side \in Failing,
           ConnectionLost(side)
    PROVE  ReqData'
<1>1. /\ lost' # {}
      /\ UNCHANGED <<call, inResp, cSender, srv, inReq, hRx, hReq, hGot, nReq>>
      /\ ReqReading' = ReqReading
  BY DEF ConnectionLost, callerVars, clientVars, serverVars, handlerVars, ReqReading
<1>2. /\ Len(c2s') \in 0..Len(c2s)
      /\ \A i \in 1..Len(c2s') : c2s'[i] = c2s[i]
  <2>1. CASE c2s' = c2s
    BY <2>1, ReqTypes
  <2>2. CASE \E j \in 0..Len(c2s) : c2s' = SubSeq(c2s, 1, j)
    <3>1. PICK j \in 0..Len(c2s) : c2s' = SubSeq(c2s, 1, j)
      BY <2>2
    <3>2. Len(SubSeq(c2s, 1, j)) = j /\ \A i \in 1..j : SubSeq(c2s, 1, j)[i] = c2s[i]
      BY ReqTypes
    <3> QED
      BY <3>1, <3>2
  <2> QED
    BY <2>1, <2>2 DEF ConnectionLost
<1>3. ASSUME ReqReading
      PROVE  ReqWireOK(c2s', srv = "await", ReqBase, Sent', Unheeded', nReq')
  <2> SUFFICES ASSUME NEW i \in 1..Len(c2s')
               PROVE  ReqFrameAt(c2s'[i], i, c2s'[i - 1].k, srv = "await", ReqBase, Sent',
                                 Unheeded', nReq')
    BY DEF ReqWireOK
  <2>1. i \in 1..Len(c2s) /\ c2s'[i] = c2s[i]
    BY <1>2, ReqTypes
  <2>2. ReqFrameAt(c2s[i], i, c2s[i - 1].k, srv = "await", ReqBase, Sent', Unheeded', nReq')
    BY <1>3, <2>1, WireStays DEF ReqWireOK
  <2>3. CASE i = 1
    BY <2>1, <2>2, <2>3 DEF ReqFrameAt
  <2>4. CASE i # 1
    <3>1. c2s'[i - 1] = c2s[i - 1]
      BY <1>2, <2>1, <2>4
    <3> QED
      BY <2>1, <2>2, <3>1
  <2> QED
    BY <2>3, <2>4
<1>4. Aside
  BY <1>1, <1>3 DEF Aside
<1> QED
  BY <1>4, ReqAside

(* Every step preserves ReqInv.                                            *)
LEMMA ReqStep == TypeOK /\ RespInv /\ ReqInv /\ [Next]_vars => ReqInv'
<1> SUFFICES ASSUME TypeOK, RespInv, ReqInv, [Next]_vars PROVE ReqInv'
  OBVIOUS
<1>1. ReqPhase /\ AckInv /\ ReqData
  BY DEF ReqInv, ReqData
<1>2. ReqPhase' /\ AckInv'
  BY <1>1, AckStep, ReqPhaseStep
<1>3. ReqData'
  <2>1. CASE Open \/ Cancel
    BY <1>1, <2>1, ReqOpenStep
  <2>2. CASE Caller
    BY <1>1, <2>2, ReqCallerStep
  <2>3. CASE pump_outbound_requests
    BY <1>1, <2>3, ReqOutboundStep
  <2>4. CASE pump_inbound_responses
    BY <1>1, <2>4, ReqReturnStep
  <2>5. CASE Negotiate
    BY <1>1, <2>5, ReqNegotiated, ReqAsideStep DEF Negotiate
  <2>6. CASE pump_inbound_requests
    BY <1>1, <2>6, ReqForward, ReqInboundEnds, ReqAsideStep DEF pump_inbound_requests
  <2>7. CASE handle_streaming_substream
    BY <1>1, <2>7, ReqAsideStep
  <2>8. CASE Handler
    BY <1>1, <2>8, ReqHandlerReceive, ReqAsideStep DEF Handler
  <2>9. CASE Transport
    BY <1>1, <2>9, ReqLost, ReqAsideStep DEF Transport
  <2>10. CASE UNCHANGED vars
    BY <1>1, <2>10, ReqAsideStep
  <2> QED
    BY <2>1, <2>2, <2>3, <2>4, <2>5, <2>6, <2>7, <2>8, <2>9, <2>10 DEF Next
<1> QED
  BY <1>2, <1>3 DEF ReqInv, ReqData

(* The inductive invariant of the request direction holds throughout.      *)
THEOREM RequestInvariant == Spec => []ReqInv
<1>1. Init => ReqInv
  BY DEF Init, ReqInv, ReqPhase, AckInv, ReqWire, ReqWireOK, ReqSource, ReqHandler, ReqEnd,
     ReqReading
<1> QED
  BY <1>1, ReqStep, ResponseInvariant, TypeCorrect, PTL DEF Spec

(* For every capacity, every number of items and every pattern of          *)
(* failures and cancellations, the handler receives the caller's items in  *)
(* the order they were sent, each once and without a gap; a failed read is *)
(* the only thing it can receive besides.                                  *)
THEOREM RequestsOrdered == Spec => []RequestsInOrder
<1>1. TypeOK /\ ReqInv => RequestsInOrder
  <2> SUFFICES ASSUME TypeOK, ReqInv PROVE RequestsInOrder
    OBVIOUS
  <2>1. DOMAIN hGot = 1..Len(hGot)
    BY ReqTypes
  <2> QED
    BY <2>1 DEF ReqInv, ReqHandler, RequestsInOrder
<1> QED
  BY <1>1, RequestInvariant, TypeCorrect, PTL

(* A request stream that ends without an error is complete, unless nobody  *)
(* waits for the answer any more.                                          *)
THEOREM RequestEndIsHonest == Spec => []RequestEndHonest
<1>1. TypeOK /\ ReqInv => RequestEndHonest
  <2> SUFFICES ASSUME TypeOK, ReqInv, RequestsEnded, OnlyChunks(hGot), ~Unheeded
               PROVE  cSender = "gone" /\ Len(hGot) = nReq
    BY DEF RequestEndHonest, Unheeded
  <2>1. inReq = "done" /\ hRx = "held" /\ Len(hReq) = 0
    BY ReqTypes DEF RequestsEnded
  <2>2. \A i \in 1..Len(hGot) : hGot[i].k = "chunk"
    BY ReqTypes DEF OnlyChunks
  <2>3. Sent /\ nReq = Len(hGot) + Len(hReq)
    BY <2>1, <2>2 DEF ReqInv, ReqEnd
  <2> QED
    BY <2>1, <2>3, ReqTypes DEF Sent
<1> QED
  BY <1>1, RequestInvariant, TypeCorrect, PTL

-----------------------------------------------------------------------------
(***************************************************************************)
(* The requests implement StreamPipe, for every channel and wire capacity, *)
(* every set of failing sides, every number of items and everything a      *)
(* handler may do.                                                         *)
(*                                                                         *)
(* Three steps.  PipeInv adds to ReqInv what the pipe needs: an error is   *)
(* the last item, and no chunk is ahead of its sender.  OpenState and      *)
(* CutState say what the pipe holds: runs of consecutive chunks, so that   *)
(* it is determined by where it starts and ends.  A step of the call then  *)
(* only has to move these two ends as a step of the pipe would.            *)
(***************************************************************************)

(* Clients that send nothing but chunks, as call_streaming's do.           *)
ChunksOnly == ReqKinds = {"chunk"}

PipePhase ==
    /\ nReq <= MaxReq
    /\ inReq = "off" => hRx = "gone"
    /\ hRx = "gone" => Len(hReq) = 0
    /\ call = "live" => outPump # "off"

(* The items on a wire of requests: chunks that the caller has sent, and   *)
(* one torn frame at most, after them, when the pump is gone.              *)
ItemsOK(w, started, over, n) ==
    \A i \in 1..Len(w) :
        /\ w[i].k \in {"chunk", "torn"} => \A j \in 1..(i - 1) : w[j].k = "chunk"
        /\ w[i].k = "chunk" => w[i].n <= n
        /\ w[i].k = "torn" /\ started => over /\ w[i].n <= MaxReq
AllChunks(w) == \A i \in 1..Len(w) : w[i].k = "chunk"

PipeWire == ReqReading => ItemsOK(c2s, srv # "await", outPump = "done", nReq)
PipeSource == ReqReading /\ lost = {} /\ outPump = "run" => AllChunks(c2s)

(* An error is the last thing in the handler's channel, and the last thing *)
(* the handler receives.                                                   *)
PipeHandler ==
    /\ \A i \in 1..Len(hReq) :
          IF hReq[i].k = "chunk" THEN hReq[i].n <= nReq
          ELSE i = Len(hReq) /\ inReq = "done" /\ hReq[i].n <= MaxReq
    /\ \A i \in 1..Len(hGot) :
          IF hGot[i].k = "chunk" THEN hGot[i].n <= nReq ELSE Len(hReq) = 0 /\ inReq = "done"

PipeInv == PipePhase /\ PipeWire /\ PipeSource /\ PipeHandler

-----------------------------------------------------------------------------
(* The counters and phases, whatever the step.                             *)
LEMMA PipePhaseStep ==
    ASSUME TypeOK, RespInv, ReqInv, PipePhase, [Next]_vars
    PROVE  PipePhase'
<1> USE DEF callerVars, clientVars, wireVars, serverVars, handlerVars, PipePhase
<1>1. CASE Open \/ Cancel
  BY <1>1 DEF Open, Cancel, call_streaming_open, call_streaming_live, call_streaming_fails,
     CancelWhileWriting, CancelWhileOpening
<1>2. CASE Caller
  <2>1. UNCHANGED <<call, outPump, inReq, hRx, hReq>>
    BY <1>2 DEF Caller, CallerSend, CallerDropSender, CallerReceive, CallerDropReceiver
  <2>2. nReq' = nReq \/ (nReq < MaxReq /\ nReq' = nReq + 1)
    BY <1>2 DEF Caller, CallerSend, CallerDropSender, CallerReceive, CallerDropReceiver
  <2>3. nReq' <= MaxReq
    BY <2>2, ReqTypes, ConstantsAssumption
  <2> QED
    BY <2>1, <2>3
<1>3. CASE pump_outbound_requests
  BY <1>3 DEF pump_outbound_requests, pump_outbound_requests_chunk,
     pump_outbound_requests_fails, pump_outbound_requests_end
<1>4. CASE pump_inbound_responses
  <2>1. UNCHANGED <<nReq, inReq, hRx, hReq, call>> /\ outPump' \in {outPump, "done"}
    BY <1>4 DEF pump_inbound_responses, pump_inbound_responses_forward,
       pump_inbound_responses_gone, pump_inbound_responses_end, pump_inbound_responses_lost,
       ReturnInboundResponses
  <2> QED
    BY <2>1
<1>5. CASE Negotiate
  BY <1>5 DEF Negotiate, streaming_negotiate_open, streaming_negotiate_unknown,
     streaming_negotiate_fails
<1>6. CASE pump_inbound_requests
  BY <1>6 DEF pump_inbound_requests, pump_inbound_requests_forward,
     pump_inbound_requests_gone, pump_inbound_requests_end, pump_inbound_requests_lost
<1>7. CASE handle_streaming_substream
  BY <1>7 DEF handle_streaming_substream, drain_handler_responses_write, CloseSubstream,
     drain_handler_responses_fails, drain_handler_responses_end, finalise_streaming,
     skip_finalise
<1>8. CASE Handler
  <2>1. CASE HandlerReceive
    BY <2>1 DEF HandlerReceive
  <2>2. CASE \E result \in {"ok", "err", "panic"} : HandlerReturn(result)
    BY <2>2, ReqTypes DEF HandlerReturn, TypeOK
  <2>3. CASE HandlerDropRequests \/ HandlerDropSender \/ \E kind \in RespKinds : HandlerSend(kind)
    BY <2>3, ReqTypes DEF HandlerDropRequests, HandlerSend, HandlerDropSender
  <2> QED
    BY <1>8, <2>1, <2>2, <2>3 DEF Handler
<1>9. CASE Transport
  BY <1>9 DEF Transport, DeliverStopC2S, DeliverStopS2C, ConnectionLost
<1>10. CASE UNCHANGED vars
  BY <1>10 DEF vars
<1> QED
  BY <1>1, <1>2, <1>3, <1>4, <1>5, <1>6, <1>7, <1>8, <1>9, <1>10 DEF Next

-----------------------------------------------------------------------------
(* A frame is written at the end of a wire, which may be cut.              *)
LEMMA ItemsWritten ==
    ASSUME NEW w \in Seq(Frame), NEW f \in Frame, NEW started, NEW over, NEW n,
           ItemsOK(w, started, over, n),
           lost = {} => /\ f.k \in {"chunk", "torn"} => AllChunks(w)
                        /\ f.k = "chunk" => f.n <= n
                        /\ f.k = "torn" /\ started => over /\ f.n <= MaxReq
    PROVE  ItemsOK(Written(w, f), started, over, n) /\ Written(w, f) \in Seq(Frame)
<1>1. CASE lost # {}
  BY <1>1 DEF Written
<1>2. CASE lost = {}
  <2> DEFINE a == Append(w, f)
  <2>1. /\ a \in Seq(Frame) /\ Len(a) = Len(w) + 1 /\ Len(w) \in Nat
        /\ \A i \in 1..Len(w) : a[i] = w[i]
        /\ a[Len(w) + 1] = f
    BY AppendAt
  <2> HIDE DEF a
  <2>2. ASSUME NEW i \in 1..Len(w)
        PROVE  /\ a[i].k \in {"chunk", "torn"} => \A j \in 1..(i - 1) : a[j].k = "chunk"
               /\ a[i].k = "chunk" => a[i].n <= n
               /\ a[i].k = "torn" /\ started => over /\ a[i].n <= MaxReq
    <3>1. a[i] = w[i] /\ \A j \in 1..(i - 1) : a[j] = w[j]
      BY <2>1
    <3> QED
      BY <3>1 DEF ItemsOK
  <2>3. \A j \in 1..((Len(w) + 1) - 1) : j \in 1..Len(w)
    BY <2>1
  <2>4. \A i \in 1..Len(a) : i \in 1..Len(w) \/ i = Len(w) + 1
    BY <2>1
  <2>5. f.k \in {"chunk", "torn"} => \A j \in 1..((Len(w) + 1) - 1) : a[j].k = "chunk"
    BY <1>2, <2>1, <2>3 DEF AllChunks
  <2>6. ItemsOK(a, started, over, n)
    <3> SUFFICES ASSUME NEW i \in 1..Len(a)
                 PROVE  /\ a[i].k \in {"chunk", "torn"} => \A j \in 1..(i - 1) : a[j].k = "chunk"
                        /\ a[i].k = "chunk" => a[i].n <= n
                        /\ a[i].k = "torn" /\ started => over /\ a[i].n <= MaxReq
      BY DEF ItemsOK
    <3>1. CASE i \in 1..Len(w)
      BY <2>2, <3>1
    <3>2. CASE i = Len(w) + 1
      BY <1>2, <2>1, <2>5, <3>2
    <3> QED
      BY <2>4, <3>1, <3>2
  <2>7. Written(w, f) = a
    BY <1>2 DEF Written, a
  <2> QED
    BY <2>1, <2>6, <2>7
<1> QED
  BY <1>1, <1>2

(* The FIN is not an item.                                                 *)
LEMMA ItemsFinished ==
    ASSUME NEW w \in Seq(Frame), NEW started, NEW over, NEW n, ItemsOK(w, started, over, n)
    PROVE  ItemsOK(Finished(w), started, over, n)
<1>1. F("fin") \in Frame /\ F("fin").k = "fin"
  BY FType DEF F
<1> QED
  BY <1>1, ItemsWritten DEF Finished

(* The head of a wire is read: a chunk, or the open-request.               *)
LEMMA ItemsTail ==
    ASSUME NEW w \in Seq(Frame), w # <<>>, NEW started, NEW over, NEW n,
           ItemsOK(w, started, over, n), started \/ w[1].k = "open"
    PROVE  ItemsOK(Tail(w), TRUE, over, n)
<1>1. /\ Len(Tail(w)) = Len(w) - 1 /\ Len(w) \in Nat \ {0}
      /\ \A j \in 1..(Len(w) - 1) : Tail(w)[j] = w[j + 1]
  BY TailAt
<1> SUFFICES ASSUME NEW i \in 1..Len(Tail(w))
             PROVE  /\ Tail(w)[i].k \in {"chunk", "torn"}
                         => \A j \in 1..(i - 1) : Tail(w)[j].k = "chunk"
                    /\ Tail(w)[i].k = "chunk" => Tail(w)[i].n <= n
                    /\ Tail(w)[i].k = "torn" => over /\ Tail(w)[i].n <= MaxReq
  BY DEF ItemsOK
<1>2. i \in Nat /\ i + 1 \in 1..Len(w) /\ Tail(w)[i] = w[i + 1] /\ 1 \in 1..((i + 1) - 1)
  BY <1>1
<1>3. \A j \in 1..(i - 1) : j + 1 \in 1..((i + 1) - 1) /\ Tail(w)[j] = w[j + 1]
  BY <1>1, <1>2
<1>4. /\ w[i + 1].k \in {"chunk", "torn"} => \A j \in 1..((i + 1) - 1) : w[j].k = "chunk"
      /\ w[i + 1].k = "chunk" => w[i + 1].n <= n
      /\ w[i + 1].k = "torn" /\ started => over /\ w[i + 1].n <= MaxReq
  BY <1>2 DEF ItemsOK
<1>5. w[i + 1].k = "torn" => started
  BY <1>2, <1>4
<1>6. w[i + 1].k \in {"chunk", "torn"} => \A j \in 1..(i - 1) : Tail(w)[j].k = "chunk"
  BY <1>3, <1>4
<1> QED
  BY <1>2, <1>4, <1>5, <1>6

(* More may be known.                                                      *)
LEMMA ItemsWeaken ==
    ASSUME NEW w \in Seq(Frame), NEW started, NEW over, NEW over2, NEW n \in Nat, NEW m \in Nat,
           ItemsOK(w, started, over, n), over => over2, n <= m
    PROVE  ItemsOK(w, started, over2, m)
<1> SUFFICES ASSUME NEW i \in 1..Len(w)
             PROVE  /\ w[i].k \in {"chunk", "torn"} => \A j \in 1..(i - 1) : w[j].k = "chunk"
                    /\ w[i].k = "chunk" => w[i].n <= m
                    /\ w[i].k = "torn" /\ started => over2 /\ w[i].n <= MaxReq
  BY DEF ItemsOK
<1>1. w[i] \in Frame /\ w[i].n \in Nat
  <2>1. w[i] \in Frame
    OBVIOUS
  <2> QED
    BY <2>1 DEF Frame
<1> QED
  BY <1>1 DEF ItemsOK

-----------------------------------------------------------------------------
(* A step that leaves the wire alone may only let go of it.                *)
LEMMA PipeWireKept ==
    ASSUME TypeOK, PipeWire, PipeSource, TypeOK', c2s' = c2s, ReqReading' => ReqReading,
           ReqReading' => (srv' = "await" <=> srv = "await"),
           outPump' = outPump \/ outPump' = "done", lost \subseteq lost', nReq <= nReq'
    PROVE  PipeWire' /\ PipeSource'
<1>1. PipeSource'
  BY DEF PipeSource
<1>2. ASSUME ReqReading'
      PROVE  ItemsOK(c2s', srv' # "await", outPump' = "done", nReq')
  <2>1. ItemsOK(c2s, srv # "await", outPump = "done", nReq)
    BY <1>2 DEF PipeWire
  <2>2. c2s \in Seq(Frame) /\ nReq \in Nat /\ nReq' \in Nat
    BY DEF TypeOK
  <2>3. outPump = "done" => outPump' = "done"
    OBVIOUS
  <2>4. ItemsOK(c2s, srv # "await", outPump' = "done", nReq')
    BY <2>1, <2>2, <2>3, ItemsWeaken
  <2>5. (srv' # "await") = (srv # "await")
    BY <1>2
  <2> QED
    BY <2>4, <2>5
<1> QED
  BY <1>1, <1>2 DEF PipeWire

(* The call is opened, given up or cancelled.                              *)
LEMMA PipeOpenStep ==
    ASSUME ChunksOnly, TypeOK, TypeOK', RespInv, ReqInv, PipeInv, Open \/ Cancel
    PROVE  PipeWire' /\ PipeSource'
<1>0. /\ UNCHANGED <<srv, inReq, hRx, lost, nReq>> /\ ReqReading' = ReqReading
      /\ c2s \in Seq(Frame) /\ ReqPhase /\ Len(c2s) \in Nat
  BY ReqTypes DEF Open, Cancel, call_streaming_open, call_streaming_live,
     call_streaming_fails, CancelWhileWriting, CancelWhileOpening, callerVars, clientVars,
     serverVars, handlerVars, ReqReading, ReqInv
<1>1. CASE call_streaming_open \/ call_streaming_fails \/ Cancel
  <2>1. outPump' = outPump /\ outPump = "off"
    BY <1>0, <1>1 DEF call_streaming_open, call_streaming_fails, Cancel, CancelWhileWriting,
       CancelWhileOpening, ReqPhase
  <2>2. ASSUME ReqReading PROVE ItemsOK(c2s', srv # "await", outPump = "done", nReq)
    <3>1. ItemsOK(c2s, srv # "await", outPump = "done", nReq)
      BY <2>2 DEF PipeInv, PipeWire
    <3>2. CASE call_streaming_fails \/ CancelWhileOpening
      BY <1>0, <3>1, <3>2, ItemsFinished DEF call_streaming_fails, CancelWhileOpening
    <3>3. CASE call_streaming_open
      <4>1. F("open") \in Frame /\ F("open").k = "open"
        BY FType DEF F
      <4> QED
        BY <1>0, <3>1, <3>3, <4>1, ItemsWritten DEF call_streaming_open
    <3>4. CASE CancelWhileWriting
      <4>1. F("torn") \in Frame /\ F("torn").k = "torn"
        BY FType DEF F
      <4>2. lost = {} => srv = "await" /\ AllChunks(c2s)
        BY <1>0, <3>4 DEF CancelWhileWriting, ReqPhase, AllChunks
      <4>3. /\ ItemsOK(Written(c2s, F("torn")), srv # "await", outPump = "done", nReq)
            /\ Written(c2s, F("torn")) \in Seq(Frame)
        BY <1>0, <3>1, <4>1, <4>2, ItemsWritten
      <4> QED
        BY <3>4, <4>3, ItemsFinished DEF CancelWhileWriting
    <3> QED
      BY <1>1, <3>2, <3>3, <3>4 DEF Cancel
  <2>3. PipeWire'
    BY <1>0, <2>1, <2>2 DEF PipeWire
  <2>4. PipeSource'
    BY <2>1 DEF PipeSource
  <2> QED
    BY <2>3, <2>4
<1>2. CASE call_streaming_live
  <2>1. c2s' = c2s /\ call = "opening" /\ outPump = "off" /\ outPump' = "run"
    BY <1>0, <1>2 DEF call_streaming_live, ReqPhase
  <2>2. PipeWire'
    <3>1. (outPump' = "done") = (outPump = "done")
      BY <2>1
    <3> QED
      BY <1>0, <2>1, <3>1 DEF PipeWire, PipeInv
  <2>3. PipeSource'
    <3> SUFFICES ASSUME ReqReading, lost = {} PROVE AllChunks(c2s)
      BY <1>0, <2>1 DEF PipeSource
    <3>1. srv # "await"
      <4>1. s2c # <<>> /\ s2c \in Seq(Frame)
        BY <1>2, ReqTypes DEF call_streaming_live
      <4> QED
        BY <4>1 DEF RespInv, PhaseInv
    <3>2. /\ nReq = ReqBase + Len(c2s) + Len(cReq) /\ nReq = 0 /\ Len(cReq) = 0
          /\ ReqBase = Len(hGot) + Len(hReq)
      BY <1>0, <2>1, <3>1 DEF ReqInv, ReqSource, ReqPhase, ReqBase
    <3>3. Len(c2s) = 0
      BY <3>2, ReqTypes
    <3> QED
      BY <3>3 DEF AllChunks
  <2> QED
    BY <2>2, <2>3
<1> QED
  BY <1>1, <1>2 DEF Open

(* pump_outbound_requests.                                                 *)
LEMMA PipeOutboundStep ==
    ASSUME ChunksOnly, TypeOK, TypeOK', RespInv, ReqInv, PipeInv, pump_outbound_requests
    PROVE  PipeWire' /\ PipeSource'
<1>0. /\ UNCHANGED <<srv, inReq, hRx, lost, nReq>> /\ ReqReading' = ReqReading
      /\ c2s \in Seq(Frame) /\ ReqPhase /\ Len(c2s) \in Nat /\ outPump = "run"
      /\ nReq \in Nat
  BY ReqTypes DEF pump_outbound_requests, pump_outbound_requests_chunk, ReqInv,
     pump_outbound_requests_fails, pump_outbound_requests_end, callerVars, wireVars,
     serverVars, handlerVars, ReqReading
<1>1. CASE pump_outbound_requests_fails
  <2>1. c2s' = c2s /\ outPump' = "done"
    BY <1>1 DEF pump_outbound_requests_fails, wireVars
  <2> QED
    BY <1>0, <2>1, PipeWireKept DEF PipeInv
<1>2. CASE pump_outbound_requests_end
  <2>1. c2s' = Finished(Written(c2s, F("end"))) /\ outPump' = "done"
    BY <1>2 DEF pump_outbound_requests_end
  <2>2. F("end") \in Frame /\ F("end").k = "end"
    BY FType DEF F
  <2>3. PipeSource'
    BY <2>1 DEF PipeSource
  <2>4. ASSUME ReqReading PROVE ItemsOK(c2s', srv # "await", TRUE, nReq)
    <3>1. ItemsOK(c2s, srv # "await", outPump = "done", nReq)
      BY <2>4 DEF PipeInv, PipeWire
    <3>2. ItemsOK(c2s, srv # "await", TRUE, nReq)
      <4>1. (outPump = "done" => TRUE) /\ nReq <= nReq
        BY <1>0
      <4> QED
        BY <1>0, <3>1, <4>1, ItemsWeaken
    <3>3. /\ ItemsOK(Written(c2s, F("end")), srv # "await", TRUE, nReq)
          /\ Written(c2s, F("end")) \in Seq(Frame)
      BY <1>0, <2>2, <3>2, ItemsWritten
    <3> QED
      BY <2>1, <3>3, ItemsFinished
  <2>5. PipeWire'
    <3>1. (outPump' = "done") = TRUE
      BY <2>1
    <3> QED
      BY <1>0, <2>4, <3>1 DEF PipeWire
  <2> QED
    BY <2>3, <2>5
<1>3. CASE pump_outbound_requests_chunk
  <2> DEFINE f == Head(cReq)
  <2>1. /\ cReq # <<>> /\ c2s' = Written(c2s, f) /\ outPump' = outPump
        /\ cReq \in Seq([k : ReqKinds, n : Nat])
    BY <1>3, ReqTypes DEF pump_outbound_requests_chunk
  <2>2. f \in [k : ReqKinds, n : Nat] /\ f = cReq[1] /\ Len(cReq) \in Nat \ {0}
    BY <2>1, TailAt
  <2>3. f \in Frame /\ f.k = "chunk"
    BY <2>2, SentType DEF ChunksOnly
  <2> HIDE DEF f
  <2>4. ASSUME ReqReading, lost = {} PROVE AllChunks(c2s) /\ f.n <= nReq
    <3>1. /\ nReq = ReqBase + Len(c2s) + Len(cReq)
          /\ cReq[1].n = ReqBase + Len(c2s) + 1
      BY <1>0, <2>2, <2>4 DEF ReqInv, ReqSource
    <3>2. f.n <= nReq
      BY <1>0, <2>2, <3>1, ReqTypes
    <3> QED
      BY <1>0, <2>4, <3>2 DEF PipeInv, PipeSource
  <2>5. PipeWire'
    <3> SUFFICES ASSUME ReqReading PROVE ItemsOK(c2s', srv # "await", outPump = "done", nReq)
      BY <1>0, <2>1 DEF PipeWire
    <3>1. ItemsOK(c2s, srv # "await", outPump = "done", nReq)
      BY DEF PipeInv, PipeWire
    <3>2. lost = {} => /\ f.k \in {"chunk", "torn"} => AllChunks(c2s)
                       /\ f.k = "chunk" => f.n <= nReq
                       /\ f.k # "torn"
      BY <2>3, <2>4
    <3> QED
      BY <1>0, <2>1, <2>3, <3>1, <3>2, ItemsWritten
  <2>6. PipeSource'
    <3> SUFFICES ASSUME ReqReading, lost = {} PROVE AllChunks(c2s')
      BY <1>0 DEF PipeSource
    <3>1. c2s' = Append(c2s, f) /\ AllChunks(c2s)
      BY <2>1, <2>4 DEF Written
    <3>2. /\ Len(c2s') = Len(c2s) + 1
          /\ \A i \in 1..Len(c2s) : c2s'[i] = c2s[i]
          /\ c2s'[Len(c2s) + 1] = f
      BY <1>0, <2>3, <3>1, AppendAt
    <3>3. \A i \in 1..Len(c2s') : i \in 1..Len(c2s) \/ i = Len(c2s) + 1
      BY <1>0, <3>2
    <3> QED
      BY <2>3, <3>1, <3>2, <3>3 DEF AllChunks
  <2> QED
    BY <2>5, <2>6
<1> QED
  BY <1>1, <1>2, <1>3 DEF pump_outbound_requests

(* pump_inbound_responses, which may abort the other pump.                 *)
LEMMA PipeReturnStep ==
    ASSUME ChunksOnly, TypeOK, TypeOK', RespInv, ReqInv, PipeInv, pump_inbound_responses
    PROVE  PipeWire' /\ PipeSource'
<1>0. /\ UNCHANGED <<srv, inReq, hRx, lost, nReq>> /\ ReqReading' = ReqReading
      /\ c2s \in Seq(Frame) /\ Len(c2s) \in Nat /\ nReq \in Nat
  BY ReqTypes DEF pump_inbound_responses, pump_inbound_responses_forward,
     pump_inbound_responses_gone, pump_inbound_responses_end, pump_inbound_responses_lost,
     callerVars, serverVars, handlerVars, ReqReading
<1>1. CASE UNCHANGED <<outPump, c2s>>
  BY <1>0, <1>1, PipeWireKept DEF PipeInv
<1>2. CASE \E how \in {"end", "eof", "err", "gone"}, stop \in {s2cStop, Dropped(s2cStop)} :
             ReturnInboundResponses(how, stop)
  <2>1. /\ outPump' = "done"
        /\ \/ c2s' = c2s \/ c2s' = Finished(c2s)
           \/ /\ cReq # <<>> /\ outPump = "run"
              /\ c2s' = Finished(Written(c2s, [Head(cReq) EXCEPT !.k = "torn"]))
    BY <1>2 DEF ReturnInboundResponses
  <2>2. PipeSource'
    BY <2>1 DEF PipeSource
  <2>3. ASSUME ReqReading PROVE ItemsOK(c2s', srv # "await", TRUE, nReq)
    <3>1. ItemsOK(c2s, srv # "await", TRUE, nReq)
      <4>1. ItemsOK(c2s, srv # "await", outPump = "done", nReq)
        BY <2>3 DEF PipeInv, PipeWire
      <4>2. (outPump = "done" => TRUE) /\ nReq <= nReq
        BY <1>0
      <4> QED
        BY <1>0, <4>1, <4>2, ItemsWeaken
    <3>2. CASE c2s' = c2s \/ c2s' = Finished(c2s)
      BY <1>0, <3>1, <3>2, ItemsFinished
    <3>3. CASE /\ cReq # <<>> /\ outPump = "run"
               /\ c2s' = Finished(Written(c2s, [Head(cReq) EXCEPT !.k = "torn"]))
      <4> DEFINE f == [Head(cReq) EXCEPT !.k = "torn"]
      <4>1. /\ Head(cReq) \in [k : ReqKinds, n : Nat] /\ Head(cReq) = cReq[1]
            /\ Len(cReq) \in Nat \ {0}
        BY <3>3, ReqTypes, TailAt
      <4>2. f \in Frame /\ f.k = "torn" /\ f.n = cReq[1].n
        BY <4>1, SentType
      <4>3. c2s' = Finished(Written(c2s, f))
        BY <3>3
      <4> HIDE DEF f
      <4>4. lost = {} => AllChunks(c2s) /\ f.n <= MaxReq
        <5> SUFFICES ASSUME lost = {} PROVE AllChunks(c2s) /\ f.n <= MaxReq
          OBVIOUS
        <5>1. /\ nReq = ReqBase + Len(c2s) + Len(cReq)
              /\ cReq[1].n = ReqBase + Len(c2s) + 1
          BY <2>3, <3>3, <4>1 DEF ReqInv, ReqSource
        <5>2. nReq <= MaxReq
          BY DEF PipeInv, PipePhase
        <5>3. f.n <= MaxReq
          BY <1>0, <4>1, <4>2, <5>1, <5>2, ReqTypes, ConstantsAssumption
        <5> QED
          BY <2>3, <3>3, <5>3 DEF PipeInv, PipeSource
      <4>5. /\ ItemsOK(Written(c2s, f), srv # "await", TRUE, nReq)
            /\ Written(c2s, f) \in Seq(Frame)
        BY <1>0, <3>1, <4>2, <4>4, ItemsWritten
      <4> QED
        BY <4>3, <4>5, ItemsFinished
    <3> QED
      BY <2>1, <3>2, <3>3
  <2>4. PipeWire'
    <3>1. (outPump' = "done") = TRUE
      BY <2>1
    <3> QED
      BY <1>0, <2>3, <3>1 DEF PipeWire
  <2> QED
    BY <2>2, <2>4
<1> QED
  BY <1>1, <1>2 DEF pump_inbound_responses, pump_inbound_responses_forward,
     pump_inbound_responses_gone, pump_inbound_responses_end, pump_inbound_responses_lost

(* The server reads the open-request; pump_inbound_requests takes a frame. *)
LEMMA PipeInboundStep ==
    ASSUME TypeOK, TypeOK', RespInv, ReqInv, PipeInv, Negotiate \/ pump_inbound_requests
    PROVE  PipeWire' /\ PipeSource'
<1>0. /\ UNCHANGED <<lost, nReq, outPump, call>> /\ c2s \in Seq(Frame) /\ ReqPhase
  BY ReqTypes DEF Negotiate, streaming_negotiate_open, streaming_negotiate_unknown,
     streaming_negotiate_fails, pump_inbound_requests, pump_inbound_requests_forward,
     pump_inbound_requests_gone, pump_inbound_requests_end, pump_inbound_requests_lost,
     callerVars, clientVars, wireVars, ReqInv
<1>1. CASE ~ReqReading'
  BY <1>1 DEF PipeWire, PipeSource
<1>2. CASE ReqReading'
  <2>1. /\ c2s # <<>> /\ c2s' = Tail(c2s) /\ srv' # "await" /\ ReqReading
        /\ \/ srv # "await"
           \/ srv = "await" /\ c2s[1].k = "open"
    <3>1. CASE Negotiate
      <4>1. srv = "await" /\ inReq = "off"
        BY <1>0, <3>1 DEF Negotiate, streaming_negotiate_open, streaming_negotiate_unknown,
           streaming_negotiate_fails, ReqPhase
      <4>2. streaming_negotiate_open
        BY <1>2, <3>1, <4>1 DEF Negotiate, streaming_negotiate_unknown, serverVars,
           streaming_negotiate_fails, ReqReading
      <4>3. Head(c2s) = c2s[1]
        BY <1>0, <4>2, TailAt DEF streaming_negotiate_open
      <4> QED
        BY <4>1, <4>2, <4>3 DEF streaming_negotiate_open, ReqReading
    <3>2. CASE pump_inbound_requests
      <4>1. inReq = "run" /\ srv' = srv /\ srv # "await" /\ hRx' = hRx
        BY <1>0, <3>2 DEF pump_inbound_requests, pump_inbound_requests_forward, ReqPhase,
           pump_inbound_requests_gone, pump_inbound_requests_end, pump_inbound_requests_lost,
           handlerVars
      <4>2. pump_inbound_requests_forward
        BY <1>2, <3>2, <4>1 DEF pump_inbound_requests, pump_inbound_requests_gone,
           pump_inbound_requests_end, pump_inbound_requests_lost, ReqReading
      <4> QED
        BY <4>1, <4>2 DEF pump_inbound_requests_forward, ReqReading
    <3> QED
      BY <3>1, <3>2
  <2>2. ItemsOK(c2s, srv # "await", outPump = "done", nReq)
    BY <2>1 DEF PipeInv, PipeWire
  <2>3. ItemsOK(Tail(c2s), TRUE, outPump = "done", nReq)
    BY <1>0, <2>1, <2>2, ItemsTail
  <2>4. (srv' # "await") = TRUE
    BY <2>1
  <2>5. PipeWire'
    BY <1>0, <2>1, <2>3, <2>4 DEF PipeWire
  <2>6. PipeSource'
    <3> SUFFICES ASSUME lost = {}, outPump = "run" PROVE AllChunks(c2s')
      BY <1>0 DEF PipeSource
    <3>1. AllChunks(c2s)
      BY <2>1 DEF PipeInv, PipeSource
    <3>2. /\ Len(Tail(c2s)) = Len(c2s) - 1 /\ Len(c2s) \in Nat \ {0}
          /\ \A i \in 1..(Len(c2s) - 1) : Tail(c2s)[i] = c2s[i + 1]
      BY <1>0, <2>1, TailAt
    <3>3. \A i \in 1..(Len(c2s) - 1) : i + 1 \in 1..Len(c2s)
      BY <3>2
    <3> QED
      BY <2>1, <3>1, <3>2, <3>3 DEF AllChunks
  <2> QED
    BY <2>5, <2>6
<1> QED
  BY <1>1, <1>2

(* Of what is on the wire a prefix arrives.                                *)
LEMMA PipeLost ==
    ASSUME TypeOK, PipeInv, NEW side \in Failing, ConnectionLost(side)
    PROVE  PipeWire' /\ PipeSource'
<1>1. /\ UNCHANGED <<srv, inReq, hRx, outPump, nReq>> /\ lost' # {}
      /\ ReqReading' = ReqReading
  BY DEF ConnectionLost, callerVars, clientVars, serverVars, handlerVars, ReqReading
<1>2. /\ Len(c2s') \in 0..Len(c2s) /\ Len(c2s) \in Nat
      /\ \A i \in 1..Len(c2s') : c2s'[i] = c2s[i]
  <2>1. CASE c2s' = c2s
    BY <2>1, ReqTypes
  <2>2. CASE \E j \in 0..Len(c2s) : c2s' = SubSeq(c2s, 1, j)
    <3>1. PICK j \in 0..Len(c2s) : c2s' = SubSeq(c2s, 1, j)
      BY <2>2
    <3>2. Len(SubSeq(c2s, 1, j)) = j /\ \A i \in 1..j : SubSeq(c2s, 1, j)[i] = c2s[i]
      BY ReqTypes
    <3> QED
      BY <3>1, <3>2, ReqTypes
  <2> QED
    BY <2>1, <2>2 DEF ConnectionLost
<1>3. ASSUME ReqReading PROVE ItemsOK(c2s', srv # "await", outPump = "done", nReq)
  <2> SUFFICES ASSUME NEW i \in 1..Len(c2s')
               PROVE  /\ c2s'[i].k \in {"chunk", "torn"}
                           => \A j \in 1..(i - 1) : c2s'[j].k = "chunk"
                      /\ c2s'[i].k = "chunk" => c2s'[i].n <= nReq
                      /\ c2s'[i].k = "torn" /\ srv # "await"
                           => outPump = "done" /\ c2s'[i].n <= MaxReq
    BY DEF ItemsOK
  <2>1. i \in 1..Len(c2s) /\ c2s'[i] = c2s[i] /\ \A j \in 1..(i - 1) : c2s'[j] = c2s[j]
    BY <1>2
  <2> QED
    BY <1>3, <2>1 DEF PipeInv, PipeWire, ItemsOK
<1>4. PipeWire'
  BY <1>1, <1>3 DEF PipeWire
<1>5. PipeSource'
  BY <1>1 DEF PipeSource
<1> QED
  BY <1>4, <1>5

(* The wire of requests, whatever the step.                                *)
LEMMA PipeWireStep ==
    ASSUME ChunksOnly, TypeOK, TypeOK', RespInv, ReqInv, PipeInv, [Next]_vars
    PROVE  PipeWire' /\ PipeSource'
<1> USE DEF callerVars, clientVars, wireVars, serverVars, handlerVars
<1>0. nReq \in Nat /\ ReqPhase
  BY ReqTypes DEF ReqInv
<1>1. CASE Open \/ Cancel
  BY <1>1, PipeOpenStep
<1>2. CASE Caller
  <2>1. UNCHANGED <<srv, inReq, hRx, lost, outPump, c2s>>
    BY <1>2 DEF Caller, CallerSend, CallerDropSender, CallerReceive, CallerDropReceiver
  <2>2. nReq' \in {nReq, nReq + 1}
    BY <1>2 DEF Caller, CallerSend, CallerDropSender, CallerReceive, CallerDropReceiver
  <2>3. nReq <= nReq' /\ ReqReading' = ReqReading
    BY <1>0, <2>1, <2>2 DEF ReqReading
  <2> QED
    BY <2>1, <2>3, PipeWireKept DEF PipeInv
<1>3. CASE pump_outbound_requests
  BY <1>3, PipeOutboundStep
<1>4. CASE pump_inbound_responses
  BY <1>4, PipeReturnStep
<1>5. CASE Negotiate \/ pump_inbound_requests
  BY <1>5, PipeInboundStep
<1>6. CASE handle_streaming_substream
  <2>1. /\ srv # "await" /\ srv' # "await"
        /\ UNCHANGED <<nReq, outPump, c2s, lost, hRx>> /\ inReq' \in {inReq, "done"}
    BY <1>6 DEF handle_streaming_substream, drain_handler_responses_write, CloseSubstream,
       drain_handler_responses_fails, drain_handler_responses_end, finalise_streaming,
       skip_finalise
  <2>2. nReq <= nReq' /\ (ReqReading' => ReqReading)
    BY <1>0, <2>1 DEF ReqReading
  <2> QED
    BY <2>1, <2>2, PipeWireKept DEF PipeInv
<1>7. CASE Handler
  <2>1. /\ UNCHANGED <<srv, inReq, lost, outPump, c2s, nReq>> /\ hRx' \in {hRx, "gone"}
    BY <1>7 DEF Handler, HandlerReceive, HandlerDropRequests, HandlerSend,
       HandlerDropSender, HandlerReturn
  <2>2. nReq <= nReq' /\ (ReqReading' => ReqReading)
    BY <1>0, <2>1 DEF ReqReading
  <2> QED
    BY <2>1, <2>2, PipeWireKept DEF PipeInv
<1>8. CASE DeliverStopC2S
  <2>1. c2sStop = "sent" /\ UNCHANGED <<srv, inReq, hRx>>
    BY <1>8 DEF DeliverStopC2S
  <2>2. ~ReqReading'
    BY <1>0, <2>1 DEF ReqReading, ReqPhase
  <2> QED
    BY <2>2 DEF PipeWire, PipeSource
<1>9. CASE DeliverStopS2C \/ UNCHANGED vars
  <2>1. UNCHANGED <<srv, inReq, hRx, lost, outPump, c2s, nReq>>
    BY <1>9 DEF DeliverStopS2C, vars
  <2>2. nReq <= nReq' /\ ReqReading' = ReqReading
    BY <1>0, <2>1 DEF ReqReading
  <2> QED
    BY <2>1, <2>2, PipeWireKept DEF PipeInv
<1>10. CASE \E side \in Failing : ConnectionLost(side)
  BY <1>10, PipeLost
<1> QED
  BY <1>1, <1>2, <1>3, <1>4, <1>5, <1>6, <1>7, <1>8, <1>9, <1>10 DEF Next, Transport

-----------------------------------------------------------------------------
(* A step that leaves the handler's channel and what it has received alone *)
(* may only end the stream or empty the channel.                           *)
LEMMA PipeHandlerKept ==
    ASSUME TypeOK, TypeOK', PipeHandler, hGot' = hGot, hReq' = hReq \/ hReq' = <<>>,
           inReq' \in {inReq, "done"} \/ (Len(hReq) = 0 /\ Len(hGot) = 0), nReq <= nReq'
    PROVE  PipeHandler'
<1>1. nReq \in Nat /\ nReq' \in Nat /\ hReq \in Seq(Item) /\ hGot \in Seq(Item)
  BY DEF TypeOK
<1>2. ASSUME NEW i \in 1..Len(hReq')
      PROVE  IF hReq'[i].k = "chunk" THEN hReq'[i].n <= nReq'
             ELSE i = Len(hReq') /\ inReq' = "done" /\ hReq'[i].n <= MaxReq
  <2>1. hReq' = hReq /\ inReq' \in {inReq, "done"}
    BY <1>1
  <2>2. hReq[i] \in Item
    BY <1>1, <2>1
  <2>3. hReq[i].n \in Nat
    BY <2>2 DEF Item
  <2> QED
    BY <1>1, <2>1, <2>3 DEF PipeHandler
<1>3. ASSUME NEW i \in 1..Len(hGot)
      PROVE  IF hGot[i].k = "chunk" THEN hGot[i].n <= nReq' ELSE Len(hReq') = 0 /\ inReq' = "done"
  <2>1. inReq' \in {inReq, "done"} /\ hGot[i] \in Item
    BY <1>1
  <2>2. hGot[i].n \in Nat
    BY <2>1 DEF Item
  <2>3. Len(hReq) = 0 => Len(hReq') = 0
    BY <1>1
  <2> QED
    BY <1>1, <2>1, <2>2, <2>3 DEF PipeHandler
<1> QED
  BY <1>2, <1>3 DEF PipeHandler

(* An item is put into the handler's channel: a chunk, or an error with    *)
(* which pump_inbound_requests returns.                                    *)
LEMMA PipeHandlerAppend ==
    ASSUME TypeOK, TypeOK', PipeHandler, NEW x \in Item, inReq = "run", hGot' = hGot,
           nReq' = nReq, hReq' = Append(hReq, x),
           IF x.k = "chunk" THEN x.n <= nReq ELSE inReq' = "done" /\ x.n <= MaxReq
    PROVE  PipeHandler'
<1>1. /\ Len(hReq') = Len(hReq) + 1 /\ Len(hReq) \in Nat
      /\ \A i \in 1..Len(hReq) : hReq'[i] = hReq[i]
      /\ hReq'[Len(hReq) + 1] = x
  <2>1. hReq \in Seq(Item)
    BY DEF TypeOK
  <2> QED
    BY <2>1, AppendAt
<1>2. \A i \in 1..Len(hReq') : i \in 1..Len(hReq) \/ i = Len(hReq) + 1
  BY <1>1
<1>3. \A i \in 1..Len(hReq) : hReq[i].k = "chunk" /\ hReq[i].n <= nReq
  BY DEF PipeHandler
<1>4. \A i \in 1..Len(hGot) : hGot[i].k = "chunk" /\ hGot[i].n <= nReq
  BY DEF PipeHandler
<1> QED
  BY <1>1, <1>2, <1>3, <1>4 DEF PipeHandler

(* The handler's channel, whatever the step.                               *)
LEMMA PipeHandlerStep ==
    ASSUME ChunksOnly, TypeOK, TypeOK', RespInv, ReqInv, PipeInv, [Next]_vars
    PROVE  PipeHandler'
<1> USE DEF callerVars, clientVars, wireVars, serverVars, handlerVars
<1>0. /\ nReq \in Nat /\ nReq <= nReq /\ ReqPhase /\ c2s \in Seq(Frame) /\ hReq \in Seq(Item)
      /\ hGot \in Seq(Item)
  BY ReqTypes DEF ReqInv
<1>1. CASE UNCHANGED <<hReq, hGot, inReq, nReq>>
  BY <1>0, <1>1, PipeHandlerKept DEF PipeInv
<1>2. CASE Open \/ Cancel
  BY <1>1, <1>2 DEF Open, Cancel, call_streaming_open, call_streaming_live,
     call_streaming_fails, CancelWhileWriting, CancelWhileOpening
<1>3. CASE Caller
  <2>1. UNCHANGED <<hReq, hGot, inReq>> /\ nReq' \in {nReq, nReq + 1}
    BY <1>3 DEF Caller, CallerSend, CallerDropSender, CallerReceive, CallerDropReceiver
  <2>2. nReq <= nReq'
    BY <1>0, <2>1
  <2> QED
    BY <2>1, <2>2, PipeHandlerKept DEF PipeInv
<1>4. CASE pump_outbound_requests
  BY <1>1, <1>4 DEF pump_outbound_requests, pump_outbound_requests_chunk,
     pump_outbound_requests_fails, pump_outbound_requests_end
<1>5. CASE pump_inbound_responses
  BY <1>1, <1>5 DEF pump_inbound_responses, pump_inbound_responses_forward,
     pump_inbound_responses_gone, pump_inbound_responses_end, pump_inbound_responses_lost
<1>6. CASE Negotiate
  <2>1. UNCHANGED <<hReq, hGot, nReq>> /\ srv = "await"
    BY <1>6 DEF Negotiate, streaming_negotiate_open, streaming_negotiate_unknown,
       streaming_negotiate_fails
  <2>2. Len(hReq) = 0 /\ Len(hGot) = 0
    BY <1>0, <2>1 DEF ReqPhase
  <2>3. nReq <= nReq'
    BY <1>0, <2>1
  <2> QED
    BY <2>1, <2>2, <2>3, PipeHandlerKept DEF PipeInv
<1>7. CASE pump_inbound_requests_forward
  <2> DEFINE f == Head(c2s)
  <2>1. /\ UNCHANGED <<hGot, nReq>> /\ hReq' = Append(hReq, ItemOf(f)) /\ c2s # <<>>
        /\ inReq = "run" /\ hRx = "held" /\ ~IsEnd(f) /\ (~GoesOn(f) => inReq' = "done")
    BY <1>7 DEF pump_inbound_requests_forward
  <2>2. f = c2s[1] /\ f \in Frame /\ Len(c2s) \in Nat \ {0} /\ 1 \in 1..Len(c2s)
    BY <1>0, <2>1, TailAt
  <2>3. ReqReading /\ srv # "await"
    BY <1>0, <2>1 DEF ReqReading, ReqPhase
  <2>4. f.k \in {"torn", "chunk"}
    <3>1. ReqFrameAt(c2s[1], 1, c2s[1 - 1].k, srv = "await", ReqBase, Sent, Unheeded, nReq)
      BY <2>2, <2>3 DEF ReqInv, ReqWire, ReqWireOK
    <3> QED
      BY <2>1, <2>2, <2>3, <3>1 DEF ReqFrameAt, IsEnd, ChunksOnly
  <2>5. (f.k = "chunk" => f.n <= nReq) /\ (f.k = "torn" => f.n <= MaxReq)
    BY <2>2, <2>3 DEF PipeInv, PipeWire, ItemsOK
  <2>6. ItemOf(f) \in Item
    BY <2>2, ItemOfType
  <2>7. IF ItemOf(f).k = "chunk" THEN ItemOf(f).n <= nReq
        ELSE inReq' = "done" /\ ItemOf(f).n <= MaxReq
    <3> HIDE DEF f
    <3>1. CASE f.k = "chunk"
      BY <2>5, <3>1 DEF ItemOf
    <3>2. CASE f.k = "torn"
      BY <2>1, <2>5, <3>2 DEF ItemOf, GoesOn
    <3> QED
      BY <2>4, <3>1, <3>2
  <2> HIDE DEF f
  <2> QED
    BY <2>1, <2>6, <2>7, PipeHandlerAppend DEF PipeInv
<1>8. CASE pump_inbound_requests_gone \/ pump_inbound_requests_end
  <2>1. UNCHANGED <<hReq, hGot, nReq>> /\ inReq' \in {inReq, "done"}
    BY <1>8 DEF pump_inbound_requests_gone, pump_inbound_requests_end
  <2> QED
    BY <1>0, <2>1, PipeHandlerKept DEF PipeInv
<1>9. CASE pump_inbound_requests_lost
  <2>1. UNCHANGED <<hGot, nReq>> /\ inReq = "run" /\ inReq' = "done"
    BY <1>9 DEF pump_inbound_requests_lost
  <2>2. CASE hRx = "held"
    <3>1. hReq' = Append(hReq, TransportReadErr)
      BY <1>9, <2>2 DEF pump_inbound_requests_lost
    <3>2. TransportReadErr \in Item /\ TransportReadErr.k # "chunk" /\ TransportReadErr.n <= MaxReq
      BY FType, ConstantsAssumption DEF TransportReadErr
    <3> QED
      BY <2>1, <3>1, <3>2, PipeHandlerAppend DEF PipeInv
  <2>3. CASE hRx # "held"
    <3>1. hReq' = hReq
      BY <1>9, <2>3 DEF pump_inbound_requests_lost
    <3> QED
      BY <1>0, <2>1, <3>1, PipeHandlerKept DEF PipeInv
  <2> QED
    BY <2>2, <2>3
<1>10. CASE handle_streaming_substream
  <2>1. UNCHANGED <<hReq, hGot, nReq>> /\ inReq' \in {inReq, "done"}
    BY <1>10 DEF handle_streaming_substream, drain_handler_responses_write, CloseSubstream,
       drain_handler_responses_fails, drain_handler_responses_end, finalise_streaming,
       skip_finalise
  <2> QED
    BY <1>0, <2>1, PipeHandlerKept DEF PipeInv
<1>11. CASE HandlerReceive
  <2>1. /\ UNCHANGED <<nReq, inReq>> /\ hReq # <<>>
        /\ hGot' = Append(hGot, Head(hReq)) /\ hReq' = Tail(hReq)
    BY <1>11 DEF HandlerReceive
  <2>2. /\ Len(Tail(hReq)) = Len(hReq) - 1 /\ Len(hReq) \in Nat \ {0}
        /\ \A i \in 1..(Len(hReq) - 1) : Tail(hReq)[i] = hReq[i + 1]
        /\ Head(hReq) = hReq[1] /\ Head(hReq) \in Item
    BY <1>0, <2>1, TailAt
  <2>3. /\ Len(hGot') = Len(hGot) + 1 /\ Len(hGot) \in Nat
        /\ \A i \in 1..Len(hGot) : hGot'[i] = hGot[i]
        /\ hGot'[Len(hGot) + 1] = hReq[1]
    BY <1>0, <2>1, <2>2, AppendAt
  <2>4. \A i \in 1..Len(hGot) : hGot[i].k = "chunk" /\ hGot[i].n <= nReq
    BY <2>2 DEF PipeInv, PipeHandler
  <2>5. ASSUME NEW i \in 1..Len(hReq')
        PROVE  IF hReq'[i].k = "chunk" THEN hReq'[i].n <= nReq
               ELSE i = Len(hReq') /\ inReq = "done" /\ hReq'[i].n <= MaxReq
    <3>0. i \in Nat /\ Len(hReq') = Len(hReq) - 1 /\ i \in 1..(Len(hReq) - 1)
      BY <2>1, <2>2
    <3>1. hReq'[i] = hReq[i + 1]
      BY <2>1, <2>2, <3>0
    <3>2. i + 1 \in 1..Len(hReq) /\ (i + 1 = Len(hReq) => i = Len(hReq'))
      <4>1. Len(hReq) \in Nat
        BY <1>0
      <4> QED
        BY <3>0, <4>1
    <3> QED
      BY <3>1, <3>2 DEF PipeInv, PipeHandler
  <2>6. 1 \in 1..Len(hReq) /\ (1 = Len(hReq) => Len(hReq') = 0)
    BY <2>1, <2>2
  <2>7. IF hReq[1].k = "chunk" THEN hReq[1].n <= nReq ELSE Len(hReq') = 0 /\ inReq = "done"
    BY <2>6 DEF PipeInv, PipeHandler
  <2>8. \A i \in 1..Len(hGot') : i \in 1..Len(hGot) \/ i = Len(hGot) + 1
    BY <2>3
  <2> QED
    BY <2>1, <2>3, <2>4, <2>5, <2>7, <2>8 DEF PipeHandler
<1>12. CASE \/ HandlerDropRequests \/ \E kind \in RespKinds : HandlerSend(kind)
            \/ HandlerDropSender
            \/ \E result \in {"ok", "err", "panic"} : HandlerReturn(result)
  <2>1. UNCHANGED <<hGot, nReq, inReq>> /\ (hReq' = hReq \/ hReq' = <<>>)
    BY <1>12 DEF HandlerDropRequests, HandlerSend, HandlerDropSender, HandlerReturn
  <2> QED
    BY <1>0, <2>1, PipeHandlerKept DEF PipeInv
<1>13. CASE Transport \/ UNCHANGED vars
  BY <1>1, <1>13 DEF Transport, DeliverStopC2S, DeliverStopS2C, ConnectionLost, vars
<1> QED
  BY <1>2, <1>3, <1>4, <1>5, <1>6, <1>7, <1>8, <1>9, <1>10, <1>11, <1>12, <1>13
     DEF Next, pump_inbound_requests, Handler

(* What the pipe needs to know of the pumps, the substream and the         *)
(* handler's channel, besides ReqInv, is an invariant.                     *)
THEOREM PipeInvariant ==
    ASSUME ChunksOnly
    PROVE  Spec => []PipeInv
<1>1. Init => PipeInv
  BY ConstantsAssumption DEF Init, PipeInv, PipePhase, PipeWire, ItemsOK, PipeSource, PipeHandler,
     AllChunks
<1>2. TypeOK /\ TypeOK' /\ RespInv /\ ReqInv /\ PipeInv /\ [Next]_vars => PipeInv'
  BY PipePhaseStep, PipeWireStep, PipeHandlerStep DEF PipeInv
<1> QED
  BY <1>1, <1>2, RequestInvariant, ResponseInvariant, TypeCorrect, PTL DEF Spec

-----------------------------------------------------------------------------
(* q is the chunks from number b + 1 to b + m, and one error behind them   *)
(* if e.                                                                   *)
ChunkItem(n) == [k |-> "chunk", n |-> n]
Run(q, b, m, e) ==
    /\ Len(q) = m + (IF e THEN 1 ELSE 0)
    /\ \A i \in 1..m : q[i] = ChunkItem(b + i)
    /\ e => q[m + 1] \in ErrorItems(MaxReq)

(* Two sequences with the same elements are the same.                      *)
LEMMA SameSeq ==
    ASSUME NEW S, NEW s \in Seq(S), NEW t \in Seq(S), Len(s) = Len(t),
           \A i \in 1..Len(s) : s[i] = t[i]
    PROVE  s = t
  OBVIOUS

(* The elements of a sequence over S are in S.                             *)
LEMMA ElementType ==
    ASSUME NEW S, NEW s \in Seq(S)
    PROVE  \A i \in 1..Len(s) : s[i] \in S
  OBVIOUS

(* What stands where in a concatenation.                                   *)
LEMMA ConcatAt ==
    ASSUME NEW S, NEW s \in Seq(S), NEW t \in Seq(S)
    PROVE  /\ s \o t \in Seq(S) /\ Len(s \o t) = Len(s) + Len(t) /\ Len(s) \in Nat
           /\ Len(t) \in Nat
           /\ \A i \in 1..Len(s) : (s \o t)[i] = s[i]
           /\ \A i \in 1..Len(t) : (s \o t)[Len(s) + i] = t[i]
  OBVIOUS

(* The empty sequence adds nothing.                                        *)
LEMMA ConcatEmpty ==
    ASSUME NEW S, NEW s \in Seq(S)
    PROVE  s \o <<>> = s /\ <<>> \o s = s
  OBVIOUS

(* A run goes on where the one before it ends.                             *)
LEMMA RunConcat ==
    ASSUME NEW s \in Seq(Item), NEW t \in Seq(Item), NEW b \in Nat, NEW m \in Nat, NEW p \in Nat,
           NEW e \in BOOLEAN, Run(s, b, m, FALSE), Run(t, b + m, p, e)
    PROVE  Run(s \o t, b, m + p, e) /\ s \o t \in Seq(Item)
<1> DEFINE c == s \o t
<1>1. /\ c \in Seq(Item) /\ Len(c) = Len(s) + Len(t)
      /\ \A i \in 1..Len(s) : c[i] = s[i]
      /\ \A i \in 1..Len(t) : c[Len(s) + i] = t[i]
  BY ConcatAt
<1> HIDE DEF c
<1>2. Len(s) = m /\ Len(t) = p + (IF e THEN 1 ELSE 0)
  BY DEF Run
<1>3. Len(c) = (m + p) + (IF e THEN 1 ELSE 0)
  BY <1>1, <1>2
<1>4. ASSUME NEW i \in 1..(m + p) PROVE c[i] = ChunkItem(b + i)
  <2>1. CASE i \in 1..m
    BY <1>1, <1>2, <2>1 DEF Run
  <2>2. CASE i \notin 1..m
    <3>1. i - m \in 1..p /\ i - m \in 1..Len(t) /\ Len(s) + (i - m) = i
          /\ (b + m) + (i - m) = b + i
      BY <1>2, <2>2
    <3>2. c[i] = t[i - m]
      BY <1>1, <3>1
    <3>3. t[i - m] = ChunkItem((b + m) + (i - m))
      BY <3>1 DEF Run
    <3> QED
      BY <3>1, <3>2, <3>3
  <2> QED
    BY <2>1, <2>2
<1>5. e => c[(m + p) + 1] \in ErrorItems(MaxReq)
  <2> SUFFICES ASSUME e PROVE c[(m + p) + 1] \in ErrorItems(MaxReq)
    OBVIOUS
  <2>1. p + 1 \in 1..Len(t) /\ Len(s) + (p + 1) = (m + p) + 1
    BY <1>2
  <2>2. c[(m + p) + 1] = t[p + 1]
    BY <1>1, <2>1
  <2> QED
    BY <2>2 DEF Run
<1> QED
  BY <1>1, <1>3, <1>4, <1>5 DEF Run, c

(* Two runs without an error are the same, ...                             *)
LEMMA RunSame ==
    ASSUME NEW q \in Seq(Item), NEW r \in Seq(Item), NEW b \in Nat, NEW m \in Nat,
           Run(q, b, m, FALSE), Run(r, b, m, FALSE)
    PROVE  q = r
<1>1. Len(q) = m /\ Len(r) = m
  BY DEF Run
<1>2. \A i \in 1..m : q[i] = r[i]
  BY DEF Run
<1> QED
  BY <1>1, <1>2, SameSeq

(* ... a longer one is a put away, ...                                     *)
LEMMA RunPut ==
    ASSUME NEW q \in Seq(Item), NEW r \in Seq(Item), NEW b \in Nat, NEW m \in Nat,
           Run(q, b, m, FALSE), Run(r, b, m + 1, FALSE), b + (m + 1) <= MaxReq
    PROVE  \E x \in [k : ItemKinds, n : 1..MaxReq] : r = Append(q, x)
<1> DEFINE x == ChunkItem(b + (m + 1))
           a == Append(q, x)
<1>1. x \in [k : ItemKinds, n : 1..MaxReq] /\ x \in Item
  BY ConstantsAssumption DEF ChunkItem, ItemKinds, Item
<1>2. Len(q) = m /\ Len(r) = m + 1 /\ r[m + 1] = x /\ \A i \in 1..m : q[i] = r[i]
  BY DEF Run
<1> HIDE DEF x
<1>3. /\ a \in Seq(Item) /\ Len(a) = Len(q) + 1
      /\ \A i \in 1..Len(q) : a[i] = q[i]
      /\ a[Len(q) + 1] = x
  BY <1>1, AppendAt
<1> HIDE DEF a
<1>4. \A i \in 1..(m + 1) : i \in 1..m \/ i = m + 1
  OBVIOUS
<1>5. \A i \in 1..Len(r) : r[i] = a[i]
  BY <1>2, <1>3, <1>4
<1>6. r = a
  BY <1>2, <1>3, <1>5, SameSeq
<1> QED
  BY <1>1, <1>6 DEF a

(* What Cut of StreamPipe may make of q, when out has been delivered.      *)
CutTo(q, r, out) ==
    \E i \in 0..Len(q) :
       \/ r = SubSeq(q, 1, i)
       \/ /\ \A j \in DOMAIN (out \o SubSeq(q, 1, i)) :
               (out \o SubSeq(q, 1, i))[j] \notin ErrorItems(MaxReq)
          /\ \E x \in ErrorItems(MaxReq) : r = Append(SubSeq(q, 1, i), x)

(* ... and a shorter one is a cut away, whether an error ends it or not.   *)
LEMMA RunCut ==
    ASSUME NEW q \in Seq(Item), NEW r \in Seq(Item), NEW out \in Seq(Item), NEW b \in Nat,
           NEW m \in Nat, NEW l \in Nat, NEW e \in BOOLEAN, NEW d \in BOOLEAN,
           Run(q, b, m, e), Run(r, b, l, d), l <= m, d => OnlyChunks(out)
    PROVE  CutTo(q, r, out)
<1> USE DEF CutTo
<1> DEFINE p == SubSeq(q, 1, l)
           c == out \o p
<1>1. l \in 0..Len(q)
  BY DEF Run
<1>2. p \in Seq(Item) /\ Len(p) = l /\ \A i \in 1..l : p[i] = q[i]
  BY <1>1
<1>3. \A i \in 1..l : p[i] = ChunkItem(b + i) /\ r[i] = ChunkItem(b + i)
  BY <1>2 DEF Run
<1> HIDE DEF p
<1>6. /\ out \o p \in Seq(Item) /\ Len(out \o p) = Len(out) + Len(p) /\ Len(out) \in Nat
      /\ \A i \in 1..Len(out) : (out \o p)[i] = out[i]
      /\ \A i \in 1..Len(p) : (out \o p)[Len(out) + i] = p[i]
  <2>1. p \in Seq(Item)
    BY <1>2
  <2> QED
    BY <2>1, ConcatAt
<1>4. CASE ~d
  <2>1. Len(r) = l
    BY <1>4 DEF Run
  <2>2. r = p
    BY <1>2, <1>3, <2>1, SameSeq
  <2> QED
    BY <1>1, <2>2 DEF p
<1>5. CASE d
  <2> DEFINE x == r[l + 1]
             a == Append(p, x)
  <2>1. Len(r) = l + 1 /\ x \in ErrorItems(MaxReq)
    BY <1>5 DEF Run
  <2>2. x \in Item
    BY <2>1
  <2> HIDE DEF x
  <2>3. /\ a \in Seq(Item) /\ Len(a) = l + 1
        /\ \A i \in 1..l : a[i] = p[i]
        /\ a[l + 1] = x
    BY <1>2, <2>2, AppendAt
  <2> HIDE DEF a
  <2>4. \A i \in 1..(l + 1) : i \in 1..l \/ i = l + 1
    OBVIOUS
  <2>5. \A i \in 1..Len(r) : r[i] = a[i]
    BY <1>3, <2>1, <2>3, <2>4 DEF x
  <2>6. r = a
    BY <2>1, <2>3, <2>5, SameSeq
  <2>7. /\ c \in Seq(Item) /\ Len(c) = Len(out) + l /\ Len(out) \in Nat
        /\ \A i \in 1..Len(out) : c[i] = out[i]
        /\ \A i \in 1..l : c[Len(out) + i] = p[i]
    BY <1>2, <1>6 DEF c
  <2> HIDE DEF c
  <2>8. ASSUME NEW j \in DOMAIN c PROVE c[j] \notin ErrorItems(MaxReq)
    <3>1. j \in 1..(Len(out) + l)
      BY <2>7
    <3>2. c[j].k = "chunk"
      <4>1. CASE j \in 1..Len(out)
        <5>1. out[j].k = "chunk"
          BY <1>5, <4>1 DEF OnlyChunks
        <5> QED
          BY <2>7, <4>1, <5>1
      <4>2. CASE j \notin 1..Len(out)
        <5>1. j - Len(out) \in 1..l /\ Len(out) + (j - Len(out)) = j
          BY <2>7, <3>1, <4>2
        <5>2. c[j] = ChunkItem(b + (j - Len(out)))
          BY <1>3, <2>7, <5>1
        <5> QED
          BY <5>2 DEF ChunkItem
      <4> QED
        BY <4>1, <4>2
    <3> QED
      BY <3>2 DEF ErrorItems
  <2>9. \A j \in DOMAIN (out \o p) : (out \o p)[j] \notin ErrorItems(MaxReq)
    BY <2>8 DEF c
  <2> QED
    BY <1>1, <2>1, <2>6, <2>9 DEF a, p
<1> QED
  BY <1>4, <1>5

(* The handler takes the first item.                                       *)
LEMMA ConcatHead ==
    ASSUME NEW s \in Seq(Item), NEW t \in Seq(Item), s # <<>>
    PROVE  s \o t # <<>> /\ Head(s \o t) = Head(s) /\ Tail(s \o t) = Tail(s) \o t
  OBVIOUS

-----------------------------------------------------------------------------
(* The items of a wire in front of which there is no open-request.         *)
LEMMA ItemsAt ==
    ASSUME NEW w \in Seq(Frame), Len(w) > 0 => w[1].k \notin {"open", "ack", "nak"}
    PROVE  /\ Items(w) \in Seq(Item) /\ Len(Items(w)) \in 0..Len(w)
           /\ \A i \in 1..Len(Items(w)) : IsItem(w[i]) /\ Items(w)[i] = ItemOf(w[i])
           /\ Len(Items(w)) = Len(w) \/ ~IsItem(w[Len(Items(w)) + 1])
<1>1. Lead(w) = 0
  BY DEF Lead
<1> DEFINE Ends(n) == n = Len(w) \/ ~IsItem(w[n + 1])
           P(n) == (\A i \in 1..n : IsItem(w[i])) /\ Ends(n)
           T == {n \in 0..Len(w) : Ends(n)}
<1>2. \E n \in 0..Len(w) : P(n)
  <2>1. T \in SUBSET Nat /\ T # {}
    <3>1. Len(w) \in T
      OBVIOUS
    <3> QED
      BY <3>1
  <2>2. PICK n \in T : \A m \in T : n <= m
    BY <2>1, LeastElement, Zenon
  <2>3. ASSUME NEW i \in 1..n PROVE IsItem(w[i])
    <3>1. i - 1 \in 0..Len(w) /\ ~(n <= i - 1) /\ (i - 1) + 1 = i /\ i - 1 # Len(w)
      BY <2>2
    <3>2. i - 1 \notin T
      BY <2>2, <3>1
    <3> QED
      BY <3>1, <3>2
  <2> QED
    BY <2>2, <2>3
<1>3. LastItem(w) \in 0..Len(w) /\ P(LastItem(w))
  <2>1. LastItem(w) = CHOOSE n \in 0..Len(w) : P(n)
    BY <1>1 DEF LastItem
  <2> HIDE DEF P
  <2> QED
    BY <1>2, <2>1
<1> DEFINE L == LastItem(w)
<1>4. Items(w) = [i \in 1..L |-> ItemOf(w[i])]
  <2>1. \A i \in 1..L : Lead(w) + i = i
    BY <1>1
  <2>2. L - Lead(w) = L
    BY <1>1, <1>3
  <2> QED
    BY <2>1, <2>2 DEF Items
<1>7. L \in 0..Len(w)
  BY <1>3
<1> HIDE DEF L, P, T, Ends
<1>5. \A i \in 1..L : ItemOf(w[i]) \in Item
  <2>1. \A i \in 1..L : w[i] \in Frame
    BY <1>7
  <2> QED
    BY <2>1, ItemOfType
<1>6. Items(w) \in Seq(Item) /\ Len(Items(w)) = L
  <2>1. L \in Nat
    BY <1>7
  <2>2. \A f : f = [i \in 1..L |-> ItemOf(w[i])] => f \in Seq(Item) /\ Len(f) = L
    BY <1>5, <2>1
  <2> QED
    BY <1>4, <2>2, Zenon
<1> QED
  BY <1>3, <1>4, <1>6 DEF L, P, Ends

-----------------------------------------------------------------------------
(* The chunk number n is on its way to the handler, past the client.       *)
HasChunk(s, n) == \E i \in 1..Len(s) : s[i].k = "chunk" /\ s[i].n = n
Carries(n) == HasChunk(hReq, n) \/ (RequestsRead /\ HasChunk(c2s, n))

(* What the handler's side is doing when it still reads.                   *)
LEMMA ReadFacts ==
    ASSUME TypeOK, ReqInv, PipeInv
    PROVE  /\ RequestsRead => /\ inReq = "run" /\ srv # "await" /\ ReqReading
                              /\ ReqBase = Len(hGot) + Len(hReq)
           /\ RequestsOpen /\ srv # "await" => RequestsRead
           /\ srv = "await" => ~RequestsRead
<1>1. inReq \in {"off", "run", "done"}
  BY DEF TypeOK
<1>2. (inReq = "off" => hRx = "gone") /\ (srv = "await" => hRx = "gone")
  BY DEF PipeInv, PipePhase, ReqInv, ReqPhase
<1> QED
  BY <1>1, <1>2 DEF RequestsRead, RequestsOpen, ReqReading, ReqBase

(* What waits in the handler's channel.                                    *)
LEMMA ChannelRun ==
    ASSUME TypeOK, ReqInv, PipeInv
    PROVE  \E m \in Nat, e \in BOOLEAN :
             /\ Run(hReq, Len(hGot), m, e)
             /\ e => OnlyChunks(hGot) /\ inReq = "done"
<1>0. hReq \in Seq(Item) /\ Len(hReq) \in Nat /\ Len(hGot) \in Nat /\ DOMAIN hGot = 1..Len(hGot)
  BY ReqTypes
<1>1. ASSUME NEW i \in 1..Len(hReq), hReq[i].k = "chunk"
      PROVE  hReq[i] = ChunkItem(Len(hGot) + i)
  <2>1. hReq[i] \in Item /\ hReq[i].n = Len(hGot) + i
    BY <1>0, <1>1 DEF ReqInv, ReqHandler
  <2> QED
    BY <1>1, <2>1 DEF Item, ChunkItem
<1>2. CASE \A i \in 1..Len(hReq) : hReq[i].k = "chunk"
  <2>1. Run(hReq, Len(hGot), Len(hReq), FALSE)
    BY <1>0, <1>1, <1>2 DEF Run
  <2> QED
    BY <1>0, <2>1
<1>3. CASE \E i \in 1..Len(hReq) : hReq[i].k # "chunk"
  <2>1. /\ Len(hReq) > 0 /\ hReq[Len(hReq)].k # "chunk" /\ inReq = "done"
        /\ hReq[Len(hReq)].n <= MaxReq
        /\ \A i \in 1..(Len(hReq) - 1) : hReq[i].k = "chunk"
    BY <1>0, <1>3 DEF PipeInv, PipeHandler
  <2>2. hReq[Len(hReq)] \in ErrorItems(MaxReq)
    <3>1. hReq[Len(hReq)] \in Item
      BY <1>0, <2>1
    <3> QED
      BY <2>1, <3>1, ConstantsAssumption DEF Item, ErrorItems
  <2>3. OnlyChunks(hGot)
    BY <1>0, <2>1 DEF PipeInv, PipeHandler, OnlyChunks
  <2> DEFINE m == Len(hReq) - 1
  <2>4. m \in Nat /\ m + 1 = Len(hReq) /\ \A i \in 1..m : i \in 1..Len(hReq)
    BY <1>0, <2>1
  <2> HIDE DEF m
  <2>5. \A i \in 1..m : hReq[i].k = "chunk"
    BY <2>1 DEF m
  <2>6. Run(hReq, Len(hGot), m, TRUE)
    BY <1>1, <2>2, <2>4, <2>5 DEF Run
  <2> QED
    BY <2>1, <2>3, <2>4, <2>6
<1> QED
  BY <1>2, <1>3

(* What is on the wire for a handler that reads.                           *)
LEMMA WireRun ==
    ASSUME ChunksOnly, TypeOK, ReqInv, PipeInv, RequestsRead
    PROVE  /\ Items(c2s) \in Seq(Item)
           /\ \E p \in 0..Len(c2s), e \in BOOLEAN :
                /\ Run(Items(c2s), Len(hGot) + Len(hReq), p, e)
                /\ e => outPump = "done"
                /\ p > 0 => c2s[p].k = "chunk" /\ c2s[p].n = Len(hGot) + Len(hReq) + p
                /\ \A i \in 1..Len(c2s) :
                      c2s[i].k = "chunk" => i <= p /\ c2s[i].n = Len(hGot) + Len(hReq) + i
<1> DEFINE b == Len(hGot) + Len(hReq)
           L == Len(Items(c2s))
<1>0. /\ c2s \in Seq(Frame) /\ Len(c2s) \in Nat /\ b \in Nat /\ srv # "await" /\ ReqReading
      /\ ReqBase = b
  BY ReqTypes, ReadFacts
<1>1. ASSUME NEW i \in 1..Len(c2s)
      PROVE  /\ c2s[i].k \in {"torn", "fin", "end", "chunk"}
             /\ c2s[i].k = "chunk" => c2s[i].n = b + i
  BY <1>0 DEF ReqInv, ReqWire, ReqWireOK, ReqFrameAt, ChunksOnly
<1>2. ASSUME NEW i \in 1..Len(c2s)
      PROVE  /\ c2s[i].k \in {"chunk", "torn"} => \A j \in 1..(i - 1) : c2s[j].k = "chunk"
             /\ c2s[i].k = "torn" => outPump = "done" /\ c2s[i].n <= MaxReq
  BY <1>0 DEF PipeInv, PipeWire, ItemsOK
<1>3. /\ Items(c2s) \in Seq(Item) /\ L \in 0..Len(c2s)
      /\ \A i \in 1..L : IsItem(c2s[i]) /\ Items(c2s)[i] = ItemOf(c2s[i])
      /\ L = Len(c2s) \/ ~IsItem(c2s[L + 1])
  <2>1. Len(c2s) > 0 => c2s[1].k \notin {"open", "ack", "nak"}
    BY <1>0, <1>1
  <2> QED
    BY <1>0, <2>1, ItemsAt
<1> HIDE DEF L, b
<1>4. \A i \in 1..L : i \in 1..Len(c2s) /\ c2s[i].k \in {"chunk", "torn"}
  BY <1>0, <1>1, <1>3 DEF IsItem
<1>5. ASSUME NEW i \in 1..L, c2s[i].k = "chunk" PROVE Items(c2s)[i] = ChunkItem(b + i)
  BY <1>1, <1>3, <1>4, <1>5 DEF ItemOf, ChunkItem
<1>6. ASSUME NEW i \in 1..Len(c2s), c2s[i].k = "chunk" PROVE i <= L
  <2> SUFFICES ASSUME L < i PROVE FALSE
    BY <1>0, <1>3
  <2>1. L + 1 \in 1..Len(c2s) /\ ~IsItem(c2s[L + 1])
    BY <1>0, <1>3
  <2>2. L + 1 = i \/ L + 1 \in 1..(i - 1)
    BY <1>0, <1>3
  <2>3. c2s[L + 1].k = "chunk"
    BY <1>2, <1>6, <2>2
  <2> QED
    BY <2>1, <2>3 DEF IsItem
<1>7. CASE L > 0 /\ c2s[L].k = "torn"
  <2> DEFINE p == L - 1
  <2>1. p \in 0..Len(c2s) /\ p + 1 = L /\ L \in 1..L /\ L \in 1..Len(c2s)
        /\ \A i \in 1..p : i \in 1..L /\ i \in 1..(L - 1)
    BY <1>0, <1>3, <1>7
  <2>2. \A i \in 1..p : c2s[i].k = "chunk"
    BY <1>2, <1>7, <2>1
  <2>3. outPump = "done" /\ c2s[L].n <= MaxReq
    BY <1>2, <1>7, <2>1
  <2>4. Items(c2s)[L] \in ErrorItems(MaxReq)
    <3>1. c2s[L] \in Frame
      BY <1>0, <2>1
    <3>2. c2s[L].n \in 0..MaxReq
      BY <2>3, <3>1, ConstantsAssumption DEF Frame
    <3>3. Items(c2s)[L] = [k |-> "terr", n |-> c2s[L].n]
      BY <1>3, <1>7, <2>1 DEF ItemOf
    <3> QED
      BY <3>2, <3>3 DEF ErrorItems, ItemKinds
  <2>5. \A i \in 1..Len(c2s) : c2s[i].k = "chunk" => i <= p
    BY <1>0, <1>3, <1>6, <1>7
  <2> HIDE DEF p
  <2>6. Run(Items(c2s), b, p, TRUE)
    BY <1>5, <2>1, <2>2, <2>4 DEF Run, L
  <2>7. p > 0 => p \in 1..p /\ p \in 1..L /\ p \in 1..Len(c2s)
    BY <1>3, <2>1
  <2> QED
    BY <1>1, <1>3, <2>1, <2>2, <2>3, <2>5, <2>6, <2>7 DEF b
<1>8. CASE ~(L > 0 /\ c2s[L].k = "torn")
  <2>1. \A i \in 1..L : c2s[i].k = "chunk"
    <3> SUFFICES ASSUME NEW i \in 1..L, c2s[i].k # "chunk" PROVE FALSE
      OBVIOUS
    <3>1. i < L /\ L \in 1..L /\ i \in 1..(L - 1)
      <4>1. c2s[i].k = "torn" /\ L > 0
        BY <1>3, <1>4
      <4> QED
        BY <1>3, <1>8, <4>1
    <3> QED
      BY <1>2, <1>4, <3>1
  <2>2. Run(Items(c2s), b, L, FALSE)
    BY <1>5, <1>3, <2>1 DEF Run, L
  <2>3. L > 0 => L \in 1..L /\ L \in 1..Len(c2s)
    BY <1>3
  <2> QED
    BY <1>1, <1>3, <1>6, <2>1, <2>2, <2>3 DEF b
<1> QED
  BY <1>7, <1>8

(* What the client still holds.                                            *)
LEMMA SourceRun ==
    ASSUME ChunksOnly, TypeOK
    PROVE  /\ Items(cReq) \in Seq(Item)
           /\ \A b \in Nat : (\A i \in 1..Len(cReq) : cReq[i].n = b + i)
                               => Run(Items(cReq), b, Len(cReq), FALSE)
<1>0. cReq \in Seq([k : ReqKinds, n : Nat]) /\ Len(cReq) \in Nat
  BY ReqTypes
<1>1. \A i \in 1..Len(cReq) : cReq[i] \in Frame /\ cReq[i].k = "chunk"
  <2>1. \A i \in 1..Len(cReq) : cReq[i] \in [k : ReqKinds, n : Nat]
    BY <1>0, ElementType
  <2>2. \A x \in [k : ReqKinds, n : Nat] : x.k = "chunk"
    BY DEF ChunksOnly
  <2> QED
    BY <2>1, <2>2, SentType
<1>2. cReq \in Seq(Frame)
  BY <1>0, <1>1
<1>3. /\ Items(cReq) \in Seq(Item) /\ Len(Items(cReq)) \in 0..Len(cReq)
      /\ \A i \in 1..Len(Items(cReq)) : Items(cReq)[i] = ItemOf(cReq[i])
      /\ Len(Items(cReq)) = Len(cReq) \/ ~IsItem(cReq[Len(Items(cReq)) + 1])
  <2>1. Len(cReq) > 0 => cReq[1].k \notin {"open", "ack", "nak"}
    BY <1>0, <1>1
  <2> QED
    BY <1>2, <2>1, ItemsAt
<1>4. Len(Items(cReq)) = Len(cReq)
  <2> SUFFICES ASSUME Len(Items(cReq)) # Len(cReq) PROVE FALSE
    OBVIOUS
  <2>1. Len(Items(cReq)) + 1 \in 1..Len(cReq)
    BY <1>0, <1>3
  <2>2. cReq[Len(Items(cReq)) + 1].k = "chunk"
    BY <1>1, <2>1
  <2> QED
    BY <1>3, <2>2 DEF IsItem
<1>5. ASSUME NEW b \in Nat, \A i \in 1..Len(cReq) : cReq[i].n = b + i
      PROVE  Run(Items(cReq), b, Len(cReq), FALSE)
  BY <1>0, <1>1, <1>3, <1>4, <1>5 DEF Run, ItemOf, ChunkItem
<1> QED
  BY <1>3, <1>5

(* While the pipe is open, what is left are all the chunks that the        *)
(* handler has not received.                                               *)
LEMMA OpenState ==
    ASSUME ChunksOnly, TypeOK, RespInv, ReqInv, PipeInv, RequestsOpen
    PROVE  /\ nReq - Len(hGot) \in Nat /\ RequestsLeft \in Seq(Item)
           /\ Run(RequestsLeft, Len(hGot), nReq - Len(hGot), FALSE)
<1>0. /\ nReq \in Nat /\ Len(hGot) \in Nat /\ Len(hReq) \in Nat /\ Len(c2s) \in Nat
      /\ Len(cReq) \in Nat /\ hReq \in Seq(Item) /\ hGot \in Seq(Item)
      /\ ReqPhase /\ PipePhase /\ c2s \in Seq(Frame)
  BY ReqTypes DEF ReqInv, PipeInv
<1>1. CASE srv = "await"
  <2>1. /\ Len(hReq) = 0 /\ Len(hGot) = 0 /\ ~RequestsRead
    BY <1>0, <1>1, ReadFacts DEF ReqPhase
  <2>2. nReq = 0 /\ Len(cReq) = 0
    BY <1>0, <1>1 DEF ReqPhase, RespInv, PhaseInv
  <2>3. Items(cReq) \in Seq(Item) /\ Run(Items(cReq), 0, 0, FALSE)
    <3>1. \A i \in 1..Len(cReq) : cReq[i].n = 0 + i
      BY <2>2
    <3>2. Items(cReq) \in Seq(Item) /\ Run(Items(cReq), 0, Len(cReq), FALSE)
      BY <3>1, SourceRun
    <3> QED
      BY <2>2, <3>2, Zenon
  <2>4. hReq = <<>>
    BY <1>0, <2>1
  <2>5. RequestsLeft = Items(cReq)
    BY <2>1, <2>3, <2>4, ConcatEmpty DEF RequestsLeft
  <2>6. nReq - Len(hGot) = 0 /\ 0 \in Nat
    BY <2>1, <2>2
  <2> QED
    BY <2>1, <2>3, <2>5, <2>6, Zenon
<1>2. CASE srv # "await"
  <2> DEFINE b == Len(hGot) + Len(hReq)
  <2>1. /\ RequestsRead /\ inReq = "run" /\ ReqReading /\ ReqBase = b /\ b \in Nat
        /\ lost = {} /\ outPump # "done"
    BY <1>0, <1>2, ReadFacts DEF RequestsOpen
  <2>2. Run(hReq, Len(hGot), Len(hReq), FALSE)
    <3>1. PICK m \in Nat, e \in BOOLEAN : /\ Run(hReq, Len(hGot), m, e)
                                          /\ e => inReq = "done"
      BY ChannelRun
    <3>2. e = FALSE /\ m = Len(hReq)
      BY <2>1, <3>1 DEF Run
    <3> QED
      BY <3>1, <3>2
  <2>3. Items(c2s) \in Seq(Item)
    BY <2>1, WireRun
  <2>4. PICK p \in 0..Len(c2s) :
          /\ Run(Items(c2s), b, p, FALSE)
          /\ p > 0 => c2s[p].k = "chunk" /\ c2s[p].n = b + p
          /\ \A i \in 1..Len(c2s) : c2s[i].k = "chunk" => i <= p
    <3>1. PICK p \in 0..Len(c2s), e \in BOOLEAN :
            /\ Run(Items(c2s), Len(hGot) + Len(hReq), p, e)
            /\ e => outPump = "done"
            /\ p > 0 => c2s[p].k = "chunk" /\ c2s[p].n = Len(hGot) + Len(hReq) + p
            /\ \A i \in 1..Len(c2s) :
                   c2s[i].k = "chunk" => i <= p /\ c2s[i].n = Len(hGot) + Len(hReq) + i
      BY <2>1, WireRun
    <3>2. e = FALSE
      BY <2>1, <3>1
    <3> QED
      BY <3>1, <3>2
  <2> HIDE DEF b
  <2>5. /\ nReq = b + p + Len(cReq)
        /\ \A i \in 1..Len(cReq) : cReq[i].n = (b + p) + i
    <3>1. CASE call = "opening" \/ outPump = "run"
      <4>1. /\ nReq = b + Len(c2s) + Len(cReq)
            /\ \A i \in 1..Len(cReq) : cReq[i].n = b + Len(c2s) + i
        BY <2>1, <3>1 DEF ReqInv, ReqSource
      <4>2. p = Len(c2s)
        <5>1. CASE outPump = "run"
          <6>1. \A i \in 1..Len(c2s) : i <= p
            BY <2>1, <2>4, <5>1 DEF PipeInv, PipeSource, AllChunks
          <6> QED
            BY <1>0, <6>1
        <5>2. CASE outPump # "run"
          <6>1. nReq = 0
            BY <1>0, <3>1, <5>2 DEF ReqPhase
          <6> QED
            BY <1>0, <2>1, <4>1, <6>1
        <5> QED
          BY <5>1, <5>2
      <4> QED
        BY <4>1, <4>2
    <3>2. CASE ~(call = "opening" \/ outPump = "run")
      <4>1. nReq = 0 /\ Len(cReq) = 0
        <5>1. outPump = "off"
          BY <2>1, <3>2 DEF TypeOK
        <5>2. call # "live"
          BY <1>0, <5>1 DEF PipePhase
        <5> QED
          BY <1>0, <5>2 DEF ReqPhase
      <4>2. Len(hGot) = 0
        <5> SUFFICES ASSUME Len(hGot) # 0 PROVE FALSE
          OBVIOUS
        <5>1. 1 \in 1..Len(hGot)
          BY <1>0
        <5>2. hGot[1].k = "chunk" /\ hGot[1].n <= nReq
          BY <2>1, <5>1 DEF PipeInv, PipeHandler
        <5>3. hGot[1].n = 1
          BY <5>1, <5>2 DEF ReqInv, ReqHandler
        <5> QED
          BY <4>1, <5>2, <5>3
      <4>3. Len(hReq) = 0
        <5> SUFFICES ASSUME Len(hReq) # 0 PROVE FALSE
          OBVIOUS
        <5>1. 1 \in 1..Len(hReq)
          BY <1>0
        <5>2. hReq[1].k = "chunk" /\ hReq[1].n <= nReq
          BY <2>1, <5>1 DEF PipeInv, PipeHandler
        <5>3. hReq[1].n = Len(hGot) + 1
          BY <5>1, <5>2 DEF ReqInv, ReqHandler
        <5> QED
          BY <4>1, <4>2, <5>2, <5>3
      <4>4. p = 0
        <5> SUFFICES ASSUME p # 0 PROVE FALSE
          OBVIOUS
        <5>1. p \in 1..Len(c2s) /\ c2s[p].k = "chunk" /\ c2s[p].n = b + p
          BY <1>0, <2>4
        <5>2. c2s[p].n <= nReq
          BY <2>1, <5>1 DEF PipeInv, PipeWire, ItemsOK
        <5> QED
          BY <2>1, <4>1, <5>1, <5>2
      <4> QED
        BY <4>1, <4>2, <4>3, <4>4 DEF b
    <3> QED
      BY <3>1, <3>2
  <2>6. p \in Nat /\ b + p \in Nat
    BY <1>0, <2>1, <2>4
  <2>7. Items(cReq) \in Seq(Item) /\ Run(Items(cReq), b + p, Len(cReq), FALSE)
    BY <2>5, <2>6, SourceRun
  <2>8. hReq \o Items(c2s) \in Seq(Item) /\ Run(hReq \o Items(c2s), Len(hGot), Len(hReq) + p, FALSE)
    BY <1>0, <2>2, <2>3, <2>4, <2>6, RunConcat DEF b
  <2>9. /\ RequestsLeft \in Seq(Item)
        /\ Run(RequestsLeft, Len(hGot), (Len(hReq) + p) + Len(cReq), FALSE)
    <3>1. b + p = Len(hGot) + (Len(hReq) + p) /\ Len(hReq) + p \in Nat
      BY <1>0, <2>6 DEF b
    <3>2. RequestsLeft = (hReq \o Items(c2s)) \o Items(cReq)
      BY <2>1 DEF RequestsLeft
    <3> HIDE DEF b
    <3> QED
      BY <1>0, <2>7, <2>8, <3>1, <3>2, RunConcat
  <2>10. nReq - Len(hGot) = (Len(hReq) + p) + Len(cReq) /\ nReq - Len(hGot) \in Nat
    BY <1>0, <2>5, <2>6 DEF b
  <2> QED
    BY <2>9, <2>10
<1> QED
  BY <1>1, <1>2

(* When it is cut, what is left are the chunks that are carried, and an    *)
(* error at most.                                                          *)
LEMMA CutState ==
    ASSUME ChunksOnly, TypeOK, RespInv, ReqInv, PipeInv, ~RequestsOpen
    PROVE  /\ RequestsLeft \in Seq(Item)
           /\ \E m \in Nat, e \in BOOLEAN :
                /\ Run(RequestsLeft, Len(hGot), m, e)
                /\ e => OnlyChunks(hGot)
                /\ m > 0 => Carries(Len(hGot) + m) /\ Len(hGot) + m <= nReq
                /\ \A n \in Nat : Carries(n) => n <= Len(hGot) + m
<1>0. /\ nReq \in Nat /\ Len(hGot) \in Nat /\ Len(hReq) \in Nat /\ Len(c2s) \in Nat
      /\ hReq \in Seq(Item) /\ hGot \in Seq(Item) /\ c2s \in Seq(Frame)
      /\ DOMAIN hGot = 1..Len(hGot)
  BY ReqTypes
<1>1. PICK m \in Nat, e \in BOOLEAN : /\ Run(hReq, Len(hGot), m, e)
                                      /\ e => OnlyChunks(hGot) /\ inReq = "done"
  BY ChannelRun
<1>2. \A i \in 1..m : /\ i \in 1..Len(hReq) /\ hReq[i] = ChunkItem(Len(hGot) + i)
                       /\ hReq[i].k = "chunk" /\ hReq[i].n = Len(hGot) + i
  BY <1>0, <1>1 DEF Run, ChunkItem
<1>3. \A i \in 1..Len(hReq) : hReq[i].k = "chunk" => i \in 1..m
  BY <1>0, <1>1 DEF Run, ErrorItems
<1>4. \A n \in Nat : (\E i \in 1..Len(hReq) : hReq[i].k = "chunk" /\ hReq[i].n = n)
                        => n <= Len(hGot) + m
  BY <1>0, <1>2, <1>3
<1>5. m > 0 => m \in 1..m /\ m \in 1..Len(hReq) /\ hReq[m].k = "chunk"
               /\ hReq[m].n = Len(hGot) + m /\ Len(hGot) + m <= nReq
  <2> SUFFICES ASSUME m > 0 PROVE /\ m \in 1..m /\ m \in 1..Len(hReq) /\ hReq[m].k = "chunk"
                                  /\ hReq[m].n = Len(hGot) + m /\ Len(hGot) + m <= nReq
    OBVIOUS
  <2>1. m \in 1..m
    OBVIOUS
  <2>2. m \in 1..Len(hReq) /\ hReq[m].k = "chunk" /\ hReq[m].n = Len(hGot) + m
    BY <1>2, <2>1
  <2>3. hReq[m].n <= nReq
    BY <2>2 DEF PipeInv, PipeHandler
  <2> QED
    BY <2>1, <2>2, <2>3
<1>6. CASE ~RequestsRead
  <2>1. RequestsLeft = hReq
    BY <1>0, <1>6, ConcatEmpty DEF RequestsLeft
  <2>2. m > 0 => Carries(Len(hGot) + m)
    BY <1>5 DEF Carries, HasChunk
  <2>3. \A n \in Nat : Carries(n) => n <= Len(hGot) + m
    BY <1>4, <1>6 DEF Carries, HasChunk
  <2> QED
    BY <1>0, <1>1, <1>5, <2>1, <2>2, <2>3
<1>7. CASE RequestsRead
  <2> DEFINE b == Len(hGot) + Len(hReq)
  <2>1. /\ inReq = "run" /\ ReqReading /\ b \in Nat
    BY <1>0, <1>7, ReadFacts
  <2>2. e = FALSE /\ m = Len(hReq) /\ Run(hReq, Len(hGot), m, FALSE)
    BY <1>1, <2>1 DEF Run
  <2>3. Items(c2s) \in Seq(Item)
    BY <1>7, WireRun
  <2>4. PICK p \in 0..Len(c2s), d \in BOOLEAN :
            /\ Run(Items(c2s), b, p, d)
            /\ p > 0 => c2s[p].k = "chunk" /\ c2s[p].n = b + p
            /\ \A i \in 1..Len(c2s) : c2s[i].k = "chunk" => i <= p /\ c2s[i].n = b + i
    BY <1>7, WireRun
  <2>5. RequestsLeft = hReq \o Items(c2s)
    <3>1. hReq \o Items(c2s) \in Seq(Item)
      BY <1>0, <2>3, ConcatAt
    <3> QED
      BY <1>7, <3>1, ConcatEmpty DEF RequestsLeft
  <2>6. p \in Nat /\ b + p = Len(hGot) + (m + p) /\ b = Len(hGot) + m
    BY <1>0, <2>2, <2>4
  <2> HIDE DEF b
  <2>7. RequestsLeft \in Seq(Item) /\ Run(RequestsLeft, Len(hGot), m + p, d)
    <3>1. Run(Items(c2s), Len(hGot) + m, p, d)
      BY <2>4, <2>6
    <3>2. /\ Run(hReq \o Items(c2s), Len(hGot), m + p, d)
          /\ hReq \o Items(c2s) \in Seq(Item)
      <4>1. hReq \in Seq(Item) /\ Len(hGot) \in Nat /\ m \in Nat /\ d \in BOOLEAN
        BY <1>0, <1>1, <2>4
      <4>2. Run(hReq, Len(hGot), m, FALSE)
        BY <2>2
      <4>3. p \in Nat
        BY <2>6
      <4> QED
        BY <2>3, <3>1, <4>1, <4>2, <4>3, RunConcat, Zenon
    <3> QED
      BY <2>5, <3>2, Zenon
  <2>8. OnlyChunks(hGot)
    BY <1>0, <2>1 DEF PipeInv, PipeHandler, OnlyChunks
  <2>9. m + p > 0 => Carries(Len(hGot) + (m + p)) /\ Len(hGot) + (m + p) <= nReq
    <3>1. CASE p > 0
      <4>1. p \in 1..Len(c2s) /\ c2s[p].k = "chunk" /\ c2s[p].n = Len(hGot) + (m + p)
        BY <1>0, <2>4, <2>6, <3>1
      <4>2. c2s[p].n <= nReq
        BY <2>1, <4>1 DEF PipeInv, PipeWire, ItemsOK
      <4>3. Carries(Len(hGot) + (m + p))
        BY <1>7, <4>1 DEF Carries, HasChunk
      <4> QED
        BY <4>1, <4>2, <4>3
    <3>2. CASE p = 0
      <4>1. m + p = m
        BY <3>2
      <4> QED
        BY <1>5, <4>1 DEF Carries, HasChunk
    <3> QED
      BY <2>6, <3>1, <3>2
  <2>10. ASSUME NEW n \in Nat, Carries(n) PROVE n <= Len(hGot) + (m + p)
    <3>1. CASE \E i \in 1..Len(hReq) : hReq[i].k = "chunk" /\ hReq[i].n = n
      <4>1. n <= Len(hGot) + m
        BY <1>4, <3>1
      <4> QED
        BY <1>0, <2>6, <4>1
    <3>2. CASE \E i \in 1..Len(c2s) : c2s[i].k = "chunk" /\ c2s[i].n = n
      <4>1. PICK i \in 1..Len(c2s) : c2s[i].k = "chunk" /\ c2s[i].n = n
        BY <3>2
      <4>2. i <= p /\ n = b + i
        BY <2>4, <4>1
      <4> QED
        BY <1>0, <2>6, <4>2
    <3> QED
      BY <2>10, <3>1, <3>2 DEF Carries, HasChunk
  <2>11. m + p \in Nat
    BY <2>6
  <2> QED
    BY <2>7, <2>8, <2>9, <2>10, <2>11
<1> QED
  BY <1>6, <1>7

-----------------------------------------------------------------------------
(* What OpenState and CutState say, of the state before or after a step.   *)
OpenShape ==
    /\ nReq - Len(hGot) \in Nat /\ RequestsLeft \in Seq(Item)
    /\ Run(RequestsLeft, Len(hGot), nReq - Len(hGot), FALSE)
CutShape ==
    /\ RequestsLeft \in Seq(Item)
    /\ \E m \in Nat, e \in BOOLEAN :
         /\ Run(RequestsLeft, Len(hGot), m, e)
         /\ e => OnlyChunks(hGot)
         /\ m > 0 => Carries(Len(hGot) + m) /\ Len(hGot) + m <= nReq
         /\ \A n \in Nat : Carries(n) => n <= Len(hGot) + m
PipeShape == (RequestsOpen => OpenShape) /\ (~RequestsOpen => CutShape)

(* The two lemmas above in one.                                            *)
LEMMA ShapeHolds ==
    ASSUME ChunksOnly
    PROVE  TypeOK /\ RespInv /\ ReqInv /\ PipeInv => PipeShape
  BY OpenState, CutState DEF PipeShape, OpenShape, CutShape

(* The same of the next state, ...                                         *)
LEMMA ShapeNext ==
    ASSUME ChunksOnly
    PROVE  (TypeOK /\ RespInv /\ ReqInv /\ PipeInv => PipeShape)'
  BY ShapeHolds, PTL

(* ... with the primes where they belong.                                  *)
LEMMA ShapeAfter ==
    ASSUME ChunksOnly, TypeOK', RespInv', ReqInv', PipeInv'
    PROVE  /\ RequestsLeft' \in Seq(Item)
           /\ RequestsOpen' => /\ nReq' - Len(hGot') \in Nat
                               /\ Run(RequestsLeft', Len(hGot'), nReq' - Len(hGot'), FALSE)
           /\ ~RequestsOpen' =>
                \E m \in Nat, e \in BOOLEAN :
                   /\ Run(RequestsLeft', Len(hGot'), m, e)
                   /\ e => OnlyChunks(hGot')
                   /\ m > 0 => Len(hGot') + m <= nReq'
                   /\ m > 0 => \E n \in Nat : n = Len(hGot') + m /\ Carries(n)'
<1>1. PipeShape'
  BY ShapeNext
<1>2. CASE RequestsOpen'
  <2>1. OpenShape'
    BY <1>1, <1>2 DEF PipeShape
  <2> QED
    BY <1>2, <2>1 DEF OpenShape, Run
<1>3. CASE ~RequestsOpen'
  <2>1. CutShape'
    BY <1>1, <1>3 DEF PipeShape
  <2>2. PICK m \in Nat, e \in BOOLEAN :
          /\ Run(RequestsLeft, Len(hGot), m, e)'
          /\ e => OnlyChunks(hGot)'
          /\ m > 0 => Carries(Len(hGot) + m)' /\ Len(hGot') + m <= nReq'
    BY <2>1 DEF CutShape
  <2>3. Run(RequestsLeft', Len(hGot'), m, e)
    BY <2>2 DEF Run
  <2>4. e => OnlyChunks(hGot')
    BY <2>2 DEF OnlyChunks
  <2>5. m > 0 => \E n \in Nat : n = Len(hGot') + m /\ Carries(n)'
    <3>1. Len(hGot') \in Nat
      BY DEF TypeOK
    <3> QED
      BY <2>2, <3>1 DEF Carries
  <2> QED
    BY <1>3, <2>1, <2>2, <2>3, <2>4, <2>5 DEF CutShape
<1> QED
  BY <1>2, <1>3

-----------------------------------------------------------------------------
(* Where a chunk of a longer or a shorter sequence comes from.             *)
LEMMA ChunkAppend ==
    ASSUME NEW S, NEW s \in Seq(S), NEW x \in S, NEW n, HasChunk(Append(s, x), n)
    PROVE  HasChunk(s, n) \/ (x.k = "chunk" /\ x.n = n)
<1> DEFINE a == Append(s, x)
<1>1. /\ Len(a) = Len(s) + 1 /\ Len(s) \in Nat /\ a[Len(s) + 1] = x
      /\ \A i \in 1..Len(s) : a[i] = s[i]
  BY AppendAt
<1>2. PICK i \in 1..Len(a) : a[i].k = "chunk" /\ a[i].n = n
  BY DEF HasChunk
<1> HIDE DEF a
<1>3. i \in 1..Len(s) \/ i = Len(s) + 1
  BY <1>1
<1> QED
  BY <1>1, <1>2, <1>3 DEF HasChunk

(* A tail has no chunk of its own, ...                                     *)
LEMMA ChunkTail ==
    ASSUME NEW S, NEW s \in Seq(S), s # <<>>, NEW n, HasChunk(Tail(s), n)
    PROVE  HasChunk(s, n)
<1>1. /\ Len(Tail(s)) = Len(s) - 1 /\ Len(s) \in Nat \ {0}
      /\ \A j \in 1..(Len(s) - 1) : Tail(s)[j] = s[j + 1]
  BY TailAt
<1>2. PICK i \in 1..Len(Tail(s)) : Tail(s)[i].k = "chunk" /\ Tail(s)[i].n = n
  BY DEF HasChunk
<1>3. i + 1 \in 1..Len(s) /\ Tail(s)[i] = s[i + 1]
  BY <1>1
<1> QED
  BY <1>2, <1>3 DEF HasChunk

(* ... nor has a prefix, ...                                               *)
LEMMA ChunkPrefix ==
    ASSUME NEW S, NEW s \in Seq(S), NEW j \in 0..Len(s), NEW n, HasChunk(SubSeq(s, 1, j), n)
    PROVE  HasChunk(s, n)
<1>1. /\ Len(SubSeq(s, 1, j)) = j /\ Len(s) \in Nat
      /\ \A i \in 1..j : SubSeq(s, 1, j)[i] = s[i] /\ i \in 1..Len(s)
  OBVIOUS
<1> QED
  BY <1>1 DEF HasChunk

(* ... and what is written is new only if it is a chunk, ...               *)
LEMMA ChunkWritten ==
    ASSUME NEW w \in Seq(Frame), NEW f \in Frame, NEW n, HasChunk(Written(w, f), n)
    PROVE  HasChunk(w, n) \/ (lost = {} /\ f.k = "chunk" /\ f.n = n)
  BY ChunkAppend DEF Written

(* ... which a FIN is not.                                                 *)
LEMMA ChunkFinished ==
    ASSUME NEW w \in Seq(Frame), NEW n, HasChunk(Finished(w), n)
    PROVE  HasChunk(w, n)
<1>1. F("fin") \in Frame /\ F("fin").k # "chunk"
  BY FType DEF F
<1> QED
  BY <1>1, ChunkWritten DEF Finished

-----------------------------------------------------------------------------
(* A pipe that is cut stays cut.                                           *)
LEMMA StaysCut ==
    ASSUME TypeOK, ReqInv, PipeInv, [Next]_vars, ~RequestsOpen
    PROVE  ~RequestsOpen'
<1> USE DEF callerVars, clientVars, wireVars, serverVars, handlerVars
<1>0. /\ call # "live" => outPump = "off"
      /\ srv = "await" => inReq = "off"
  BY DEF ReqInv, ReqPhase
<1>1. /\ lost \subseteq lost'
      /\ outPump = "done" => outPump' = "done"
      /\ inReq = "done" => inReq' = "done"
      /\ srv # "await" => srv' # "await" /\ (hRx # "held" => hRx' # "held")
  BY <1>0 DEF Next, vars, Open, Cancel, call_streaming_open, call_streaming_live,
     call_streaming_fails, CancelWhileWriting, CancelWhileOpening, Caller, CallerSend,
     CallerDropSender, CallerReceive, CallerDropReceiver, pump_outbound_requests,
     pump_outbound_requests_chunk, pump_outbound_requests_fails, pump_outbound_requests_end,
     pump_inbound_responses, pump_inbound_responses_forward, pump_inbound_responses_gone,
     pump_inbound_responses_end, pump_inbound_responses_lost, ReturnInboundResponses, Negotiate,
     streaming_negotiate_open, streaming_negotiate_unknown, streaming_negotiate_fails,
     pump_inbound_requests, pump_inbound_requests_forward, pump_inbound_requests_gone,
     pump_inbound_requests_end, pump_inbound_requests_lost, handle_streaming_substream,
     drain_handler_responses_write, CloseSubstream, drain_handler_responses_fails,
     drain_handler_responses_end, finalise_streaming, skip_finalise, Handler, HandlerReceive,
     HandlerDropRequests, HandlerSend, HandlerDropSender, HandlerReturn, Transport,
     DeliverStopC2S, DeliverStopS2C, ConnectionLost
<1> QED
  BY <1>1 DEF RequestsOpen

(* The steps that a wire of requests takes, besides a chunk written to it: *)
(* no chunk is new.                                                        *)
LEMMA WireChunks ==
    ASSUME TypeOK, [Next]_vars, ~pump_outbound_requests_chunk, NEW n, HasChunk(c2s', n)
    PROVE  HasChunk(c2s, n)
<1> USE DEF callerVars, clientVars, wireVars, serverVars, handlerVars
<1> DEFINE Torn == {F("torn")} \cup {[x EXCEPT !.k = "torn"] : x \in [k : ReqKinds, n : Nat]}
           Fs == {F("open"), F("end")} \cup Torn
<1>0. c2s \in Seq(Frame) /\ cReq \in Seq([k : ReqKinds, n : Nat])
  BY ReqTypes
<1>1. \A f \in Fs : f \in Frame /\ f.k # "chunk"
  BY FType, SentType DEF F
<1>2. \/ c2s' = c2s
      \/ c2s # <<>> /\ c2s' = Tail(c2s)
      \/ c2s' = <<>>
      \/ \E j \in 0..Len(c2s) : c2s' = SubSeq(c2s, 1, j)
      \/ c2s' = Finished(c2s)
      \/ \E f \in Fs : c2s' = Written(c2s, f) \/ c2s' = Finished(Written(c2s, f))
  <2>1. CASE pump_inbound_responses
    <3>1. \/ c2s' = c2s
          \/ c2s' = Finished(c2s)
          \/ /\ cReq # <<>>
             /\ c2s' = Finished(Written(c2s, [Head(cReq) EXCEPT !.k = "torn"]))
      BY <2>1 DEF pump_inbound_responses, pump_inbound_responses_forward,
         pump_inbound_responses_gone, pump_inbound_responses_end,
         pump_inbound_responses_lost, ReturnInboundResponses
    <3>2. cReq # <<>> => Head(cReq) \in [k : ReqKinds, n : Nat]
      BY <1>0, TailAt
    <3> QED
      BY <3>1, <3>2
  <2>2. CASE \E side \in Failing : ConnectionLost(side)
    BY <2>2 DEF ConnectionLost
  <2>3. CASE Open \/ Cancel \/ pump_outbound_requests
    BY <2>3 DEF Open, Cancel, call_streaming_open, call_streaming_live,
       call_streaming_fails, CancelWhileWriting, CancelWhileOpening, pump_outbound_requests,
       pump_outbound_requests_fails, pump_outbound_requests_end
  <2>4. CASE \/ Caller \/ Negotiate \/ pump_inbound_requests \/ handle_streaming_substream
             \/ Handler \/ DeliverStopC2S \/ DeliverStopS2C \/ UNCHANGED vars
    BY <2>4 DEF vars, Caller, CallerSend, CallerDropSender, CallerReceive,
       CallerDropReceiver, Negotiate, streaming_negotiate_open, streaming_negotiate_unknown,
       streaming_negotiate_fails, pump_inbound_requests, pump_inbound_requests_forward,
       pump_inbound_requests_gone, pump_inbound_requests_end, pump_inbound_requests_lost,
       handle_streaming_substream, drain_handler_responses_write, CloseSubstream,
       drain_handler_responses_fails, drain_handler_responses_end, finalise_streaming,
       skip_finalise, Handler, HandlerReceive, HandlerDropRequests, HandlerSend,
       HandlerDropSender, HandlerReturn, DeliverStopC2S, DeliverStopS2C
  <2> QED
    BY <2>1, <2>2, <2>3, <2>4 DEF Next, Transport
<1>3. ~HasChunk(<<>>, n)
  BY DEF HasChunk
<1>4. ASSUME NEW f \in Fs, c2s' = Written(c2s, f) \/ c2s' = Finished(Written(c2s, f))
      PROVE  HasChunk(c2s, n)
  <2>1. f \in Frame /\ f.k # "chunk"
    BY <1>1
  <2>2. Written(c2s, f) \in Seq(Frame)
    BY <1>0, <2>1, AppendAt DEF Written
  <2>3. HasChunk(Written(c2s, f), n)
    BY <1>4, <2>2, ChunkFinished
  <2> QED
    BY <1>0, <2>1, <2>3, ChunkWritten
<1> HIDE DEF Fs
<1> QED
  BY <1>0, <1>2, <1>3, <1>4, ChunkTail, ChunkPrefix, ChunkFinished

(* Nothing is carried by a pipe that is cut that was not carried before.   *)
LEMMA CarriesLess ==
    ASSUME ChunksOnly, TypeOK, ReqInv, PipeInv, [Next]_vars, ~RequestsOpen, NEW n, Carries(n)'
    PROVE  Carries(n)
<1> USE DEF callerVars, clientVars, wireVars, serverVars, handlerVars
<1>0. /\ c2s \in Seq(Frame) /\ hReq \in Seq(Item)
      /\ srv = "await" => inReq = "off" /\ hRx = "gone"
      /\ PipePhase /\ ReqPhase
  BY ReqTypes DEF ReqInv, ReqPhase, PipeInv
<1>1. CASE HasChunk(hReq', n)
  <2>1. CASE hReq' = hReq \/ hReq' = <<>>
    BY <1>1, <2>1 DEF Carries, HasChunk
  <2>2. CASE hReq # <<>> /\ hReq' = Tail(hReq)
    BY <1>0, <1>1, <2>2, ChunkTail DEF Carries
  <2>3. CASE pump_inbound_requests_forward
    <3> DEFINE f == Head(c2s)
    <3>1. /\ c2s # <<>> /\ hReq' = Append(hReq, ItemOf(f)) /\ inReq = "run" /\ hRx = "held"
      BY <2>3 DEF pump_inbound_requests_forward
    <3>2. f = c2s[1] /\ f \in Frame /\ 1 \in 1..Len(c2s)
      BY <1>0, <3>1, TailAt
    <3> HIDE DEF f
    <3>3. ItemOf(f) \in Item /\ ItemOf(f).n = f.n /\ (ItemOf(f).k = "chunk" => f.k = "chunk")
      BY <3>2, ItemOfType DEF ItemOf
    <3>4. HasChunk(hReq, n) \/ (f.k = "chunk" /\ f.n = n)
      BY <1>0, <1>1, <3>1, <3>3, ChunkAppend
    <3> QED
      BY <3>1, <3>2, <3>4 DEF Carries, HasChunk, RequestsRead
  <2>4. CASE hReq' = Append(hReq, TransportReadErr)
    <3>1. TransportReadErr \in Item /\ TransportReadErr.k # "chunk"
      BY FType DEF TransportReadErr
    <3> QED
      BY <1>0, <1>1, <2>4, <3>1, ChunkAppend DEF Carries
  <2>5. \/ hReq' = hReq \/ hReq' = <<>> \/ (hReq # <<>> /\ hReq' = Tail(hReq))
        \/ pump_inbound_requests_forward \/ hReq' = Append(hReq, TransportReadErr)
    BY DEF Next, vars, Open, Cancel, call_streaming_open, call_streaming_live,
     call_streaming_fails, CancelWhileWriting, CancelWhileOpening, Caller, CallerSend,
     CallerDropSender, CallerReceive, CallerDropReceiver, pump_outbound_requests,
     pump_outbound_requests_fails, pump_outbound_requests_end,
     pump_inbound_responses, pump_inbound_responses_forward, pump_inbound_responses_gone,
     pump_inbound_responses_end, pump_inbound_responses_lost, ReturnInboundResponses, Negotiate,
     streaming_negotiate_open, streaming_negotiate_unknown, streaming_negotiate_fails,
     pump_inbound_requests, pump_outbound_requests_chunk, pump_inbound_requests_gone,
     pump_inbound_requests_end, pump_inbound_requests_lost, handle_streaming_substream,
     drain_handler_responses_write, CloseSubstream, drain_handler_responses_fails,
     drain_handler_responses_end, finalise_streaming, skip_finalise, Handler, HandlerReceive,
     HandlerDropRequests, HandlerSend, HandlerDropSender, HandlerReturn, Transport,
     DeliverStopC2S, DeliverStopS2C, ConnectionLost
  <2> QED
    BY <2>1, <2>2, <2>3, <2>4, <2>5
<1>2. CASE RequestsRead' /\ HasChunk(c2s', n)
  <2>1. CASE streaming_negotiate_open
    <3>1. /\ c2s # <<>> /\ c2s' = Tail(c2s) /\ Head(c2s).k = "open" /\ srv = "await"
      BY <2>1 DEF streaming_negotiate_open
    <3>2. HasChunk(c2s, n) /\ c2s[1].k = "open" /\ Len(c2s) \in Nat \ {0}
      BY <1>0, <1>2, <3>1, ChunkTail, TailAt
    <3>3. PICK i \in 1..Len(c2s) : c2s[i].k = "chunk"
      BY <3>2 DEF HasChunk
    <3>4. \A j \in 1..(i - 1) : c2s[j].k = "chunk"
      BY <3>1, <3>3 DEF PipeInv, PipeWire, ItemsOK, ReqReading
    <3>5. i # 1 /\ 1 \in 1..(i - 1)
      BY <3>2, <3>3
    <3> QED
      BY <3>2, <3>4, <3>5
  <2>2. CASE ~streaming_negotiate_open
    <3>1. RequestsRead
      BY <1>0, <1>2, <2>2 DEF RequestsRead, pump_outbound_requests_chunk, Next, vars,
     Open, Cancel, call_streaming_open, call_streaming_live,
     call_streaming_fails, CancelWhileWriting, CancelWhileOpening, Caller, CallerSend,
     CallerDropSender, CallerReceive, CallerDropReceiver, pump_outbound_requests,
     pump_outbound_requests_fails, pump_outbound_requests_end,
     pump_inbound_responses, pump_inbound_responses_forward, pump_inbound_responses_gone,
     pump_inbound_responses_end, pump_inbound_responses_lost, ReturnInboundResponses, Negotiate,
     streaming_negotiate_unknown, streaming_negotiate_fails,
     pump_inbound_requests, pump_inbound_requests_forward, pump_inbound_requests_gone,
     pump_inbound_requests_end, pump_inbound_requests_lost, handle_streaming_substream,
     drain_handler_responses_write, CloseSubstream, drain_handler_responses_fails,
     drain_handler_responses_end, finalise_streaming, skip_finalise, Handler, HandlerReceive,
     HandlerDropRequests, HandlerSend, HandlerDropSender, HandlerReturn, Transport,
     DeliverStopC2S, DeliverStopS2C, ConnectionLost
    <3>2. CASE pump_outbound_requests_chunk
      <4>1. outPump = "run" /\ c2s' = Written(c2s, Head(cReq))
        BY <3>2 DEF pump_outbound_requests_chunk
      <4>2. lost # {}
        BY <1>0, <3>1, <4>1, ReadFacts DEF RequestsOpen, RequestsRead
      <4>3. c2s' = c2s
        BY <4>1, <4>2 DEF Written
      <4> QED
        BY <1>2, <3>1, <4>3 DEF Carries
    <3>3. CASE ~pump_outbound_requests_chunk
      BY <1>2, <3>1, <3>3, WireChunks DEF Carries
    <3> QED
      BY <3>2, <3>3
  <2> QED
    BY <2>1, <2>2
<1>3. HasChunk(hReq', n) \/ (RequestsRead' /\ HasChunk(c2s', n))
  BY DEF Carries, HasChunk
<1> QED
  BY <1>1, <1>2, <1>3

-----------------------------------------------------------------------------
(* The handler receives what is at the front of the pipe.                  *)
LEMMA GetStep ==
    ASSUME ChunksOnly, TypeOK, ReqInv, PipeInv, HandlerReceive
    PROVE  RequestPipe!Get
<1>1. /\ hReq # <<>> /\ hReq \in Seq(Item) /\ hGot' = Append(hGot, Head(hReq))
      /\ hReq' = Tail(hReq) /\ UNCHANGED <<c2s, cReq, inReq, hRx, outPump, lost, srv>>
  BY ReqTypes DEF HandlerReceive, callerVars, clientVars, wireVars
<1>2. RequestsOpen' = RequestsOpen /\ RequestsRead' = RequestsRead
  BY <1>1 DEF RequestsOpen, RequestsRead
<1> DEFINE X == IF RequestsRead THEN Items(c2s) ELSE <<>>
           Y == IF RequestsOpen THEN Items(cReq) ELSE <<>>
<1>3. X \in Seq(Item) /\ Y \in Seq(Item) /\ X' = X /\ Y' = Y
  <2>1. X \in Seq(Item)
    BY WireRun
  <2>2. Y \in Seq(Item)
    BY SourceRun
  <2> QED
    BY <1>1, <1>2, <2>1, <2>2
<1>4. RequestsLeft = (hReq \o X) \o Y /\ RequestsLeft' = (Tail(hReq) \o X) \o Y
  BY <1>1, <1>3 DEF RequestsLeft
<1> HIDE DEF X, Y
<1>5. /\ hReq \o X # <<>> /\ hReq \o X \in Seq(Item)
      /\ Head(hReq \o X) = Head(hReq) /\ Tail(hReq \o X) = Tail(hReq) \o X
  BY <1>1, <1>3, ConcatHead, ConcatAt
<1>6. /\ (hReq \o X) \o Y # <<>>
      /\ Head((hReq \o X) \o Y) = Head(hReq)
      /\ Tail((hReq \o X) \o Y) = (Tail(hReq) \o X) \o Y
  <2> DEFINE Z == hReq \o X
  <2>1. Z # <<>> /\ Z \in Seq(Item) /\ Y \in Seq(Item)
    BY <1>3, <1>5
  <2>2. Head(Z) = Head(hReq) /\ Tail(Z) = Tail(hReq) \o X
    BY <1>5
  <2> HIDE DEF Z
  <2>3. Z \o Y # <<>> /\ Head(Z \o Y) = Head(Z) /\ Tail(Z \o Y) = Tail(Z) \o Y
    BY <2>1, ConcatHead
  <2>4. Z \o Y # <<>> /\ Head(Z \o Y) = Head(hReq) /\ Tail(Z \o Y) = (Tail(hReq) \o X) \o Y
    BY <2>2, <2>3
  <2> QED
    BY <2>4 DEF Z
<1> QED
  BY <1>1, <1>2, <1>4, <1>6 DEF RequestPipe!Get

(* Any other step puts one item, cuts the pipe, or leaves it as it is.     *)
LEMMA OtherStep ==
    ASSUME ChunksOnly, TypeOK, RespInv, ReqInv, PipeInv,
           TypeOK', RespInv', ReqInv', PipeInv', [Next]_vars, ~HandlerReceive
    PROVE  \/ RequestPipe!Put \/ RequestPipe!Cut
           \/ UNCHANGED <<RequestsLeft, hGot, RequestsOpen>>
<1> USE DEF callerVars, clientVars, wireVars, serverVars, handlerVars
<1>1. hGot' = hGot /\ (nReq' = nReq \/ (nReq' = nReq + 1 /\ RequestsOpen' = RequestsOpen))
  BY DEF RequestsOpen, Next, vars, Open, Cancel, call_streaming_open, call_streaming_live,
     call_streaming_fails, CancelWhileWriting, CancelWhileOpening, Caller, CallerSend,
     CallerDropSender, CallerReceive, CallerDropReceiver, pump_outbound_requests,
     pump_outbound_requests_chunk, pump_outbound_requests_fails, pump_outbound_requests_end,
     pump_inbound_responses, pump_inbound_responses_forward, pump_inbound_responses_gone,
     pump_inbound_responses_end, pump_inbound_responses_lost, Negotiate,
     streaming_negotiate_open, streaming_negotiate_unknown, streaming_negotiate_fails,
     pump_inbound_requests, pump_inbound_requests_forward, pump_inbound_requests_gone,
     pump_inbound_requests_end, pump_inbound_requests_lost, handle_streaming_substream,
     drain_handler_responses_write, CloseSubstream, drain_handler_responses_fails,
     drain_handler_responses_end, finalise_streaming, skip_finalise, Handler,
     HandlerDropRequests, HandlerSend, HandlerDropSender, HandlerReturn, Transport,
     DeliverStopC2S, DeliverStopS2C, ConnectionLost
<1>2. /\ Len(hGot) \in Nat /\ nReq \in Nat /\ nReq' <= MaxReq /\ hGot \in Seq(Item)
  BY ReqTypes DEF PipeInv, PipePhase
<1>3. PipeShape
  BY ShapeHolds
<1>4. CASE RequestsOpen /\ RequestsOpen'
  <2> DEFINE m == nReq - Len(hGot)
  <2>1. m \in Nat /\ RequestsLeft \in Seq(Item) /\ Run(RequestsLeft, Len(hGot), m, FALSE)
    BY <1>3, <1>4 DEF PipeShape, OpenShape
  <2>2. /\ RequestsLeft' \in Seq(Item)
        /\ Run(RequestsLeft', Len(hGot), nReq' - Len(hGot), FALSE)
    BY <1>1, <1>4, ShapeAfter
  <2>3. CASE nReq' = nReq
    <3>1. RequestsLeft' = RequestsLeft
      BY <1>2, <2>1, <2>2, <2>3, RunSame
    <3>2. RequestsOpen' = RequestsOpen
      BY <1>4 DEF RequestsOpen
    <3> QED
      BY <1>1, <3>1, <3>2
  <2>4. CASE nReq' = nReq + 1 /\ RequestsOpen' = RequestsOpen
    <3>1. nReq' - Len(hGot) = m + 1 /\ Len(hGot) + (m + 1) <= MaxReq
      BY <1>2, <2>4
    <3> HIDE DEF m
    <3>2. Run(RequestsLeft', Len(hGot), m + 1, FALSE)
      BY <2>2, <3>1
    <3>3. \E x \in [k : ItemKinds, n : 1..MaxReq] : RequestsLeft' = Append(RequestsLeft, x)
      BY <1>2, <2>1, <2>2, <3>1, <3>2, RunPut
    <3> QED
      BY <1>1, <1>4, <2>4, <3>3 DEF RequestPipe!Put
  <2> QED
    BY <1>1, <2>3, <2>4
<1>5. CASE ~RequestsOpen'
  <2>1. PICK m \in Nat, e \in BOOLEAN :
          /\ RequestsLeft \in Seq(Item) /\ Run(RequestsLeft, Len(hGot), m, e)
          /\ RequestsOpen => m = nReq - Len(hGot)
          /\ ~RequestsOpen => \A n \in Nat : Carries(n) => n <= Len(hGot) + m
    <3>1. CASE RequestsOpen
      <4>1. /\ nReq - Len(hGot) \in Nat /\ RequestsLeft \in Seq(Item)
            /\ Run(RequestsLeft, Len(hGot), nReq - Len(hGot), FALSE)
        BY <1>3, <3>1 DEF PipeShape, OpenShape
      <4> QED
        BY <3>1, <4>1
    <3>2. CASE ~RequestsOpen
      BY <1>3, <3>2 DEF PipeShape, CutShape
    <3> QED
      BY <3>1, <3>2
  <2>2. PICK l \in Nat, d \in BOOLEAN :
          /\ RequestsLeft' \in Seq(Item) /\ Run(RequestsLeft', Len(hGot), l, d)
          /\ d => OnlyChunks(hGot)
          /\ l > 0 => Len(hGot) + l <= nReq'
          /\ l > 0 => \E n \in Nat : n = Len(hGot) + l /\ Carries(n)'
    BY <1>1, <1>5, ShapeAfter
  <2>3. l <= m
    <3> SUFFICES ASSUME l > 0 PROVE l <= m
      OBVIOUS
    <3>1. CASE RequestsOpen
      <4>1. nReq' = nReq
        BY <1>1, <1>5, <3>1
      <4> QED
        BY <1>2, <2>1, <2>2, <3>1, <4>1
    <3>2. CASE ~RequestsOpen
      <4>1. PICK n \in Nat : n = Len(hGot) + l /\ Carries(n)'
        BY <2>2
      <4>2. Carries(n)
        BY <3>2, <4>1, CarriesLess
      <4>3. n <= Len(hGot) + m
        BY <2>1, <3>2, <4>2
      <4> QED
        BY <1>2, <4>1, <4>3
    <3> QED
      BY <3>1, <3>2
  <2>4. CutTo(RequestsLeft, RequestsLeft', hGot)
    <3>1. d => OnlyChunks(hGot)
      BY <2>2
    <3>2. /\ RequestsLeft \in Seq(Item) /\ RequestsLeft' \in Seq(Item) /\ hGot \in Seq(Item)
          /\ Len(hGot) \in Nat /\ m \in Nat /\ l \in Nat /\ e \in BOOLEAN /\ d \in BOOLEAN
      BY <1>2, <2>1, <2>2
    <3> QED
      BY <2>1, <2>2, <2>3, <3>1, <3>2, RunCut, Zenon
  <2>5. RequestsOpen' = FALSE
    BY <1>5 DEF RequestsOpen
  <2> QED
    BY <1>1, <2>4, <2>5 DEF RequestPipe!Cut, CutTo
<1> QED
  BY <1>4, <1>5, StaysCut

(* From the sender that call_streaming returns to the request stream that  *)
(* the handler is given, the requests are one FIFO pipe that can be cut:   *)
(* pump_outbound_requests, the substream and pump_inbound_requests lose    *)
(* nothing but a suffix, put at most one error in its place, and deliver   *)
(* nothing that was sent after a cut.  This is for a client of this crate, *)
(* which sends chunks only.                                                *)
THEOREM RequestsImplementPipe ==
    ASSUME ChunksOnly
    PROVE  Spec => RequestsAreAPipe
<1>1. Init => RequestPipe!PipeInit
  <2> SUFFICES ASSUME Init PROVE RequestPipe!PipeInit
    OBVIOUS
  <2>1. /\ hReq = <<>> /\ c2s = <<>> /\ cReq = <<>> /\ hGot = <<>> /\ srv = "await"
        /\ inReq = "off" /\ hRx = "gone" /\ lost = {} /\ outPump = "off"
    BY DEF Init
  <2>2. RequestsOpen = TRUE /\ RequestsRead = FALSE
    BY <2>1 DEF RequestsOpen, RequestsRead
  <2>3. Items(<<>>) = <<>>
    <3>1. <<>> \in Seq(Frame) /\ Len(<<>>) = 0
      OBVIOUS
    <3>2. Items(<<>>) \in Seq(Item) /\ Len(Items(<<>>)) \in 0..Len(<<>>)
      <4> DEFINE w == <<>>
      <4>1. w \in Seq(Frame) /\ (Len(w) > 0 => w[1].k \notin {"open", "ack", "nak"})
        BY <3>1
      <4> HIDE DEF w
      <4>2. Items(w) \in Seq(Item) /\ Len(Items(w)) \in 0..Len(w)
        BY <4>1, ItemsAt
      <4> QED
        BY <4>2 DEF w
    <3>3. Len(Items(<<>>)) = 0
      BY <3>1, <3>2
    <3> QED
      BY <3>2, <3>3
  <2>4. RequestsLeft = <<>>
    <3>1. RequestsLeft = <<>> \o <<>> \o <<>>
      BY <2>1, <2>2, <2>3 DEF RequestsLeft
    <3>2. <<>> \o <<>> = <<>>
      OBVIOUS
    <3> QED
      BY <3>1, <3>2
  <2> QED
    BY <2>1, <2>2, <2>4 DEF RequestPipe!PipeInit
<1>2. TypeOK /\ TypeOK' /\ RespInv /\ RespInv' /\ ReqInv /\ ReqInv' /\ PipeInv /\ PipeInv'
      /\ [Next]_vars
        => [RequestPipe!Put \/ RequestPipe!Get \/ RequestPipe!Cut]_
             <<RequestsLeft, hGot, RequestsOpen>>
  BY GetStep, OtherStep
<1> QED
  BY <1>1, <1>2, RequestInvariant, ResponseInvariant, TypeCorrect, PipeInvariant, PTL
     DEF Spec, RequestsAreAPipe, RequestPipe!PipeSpec
-----------------------------------------------------------------------------
(***************************************************************************)
(* The responses implement StreamPipe, for every channel and wire          *)
(* capacity, every set of failing sides, every number of items and         *)
(* everything a caller may do.                                             *)
(*                                                                         *)
(* Here the steps are compared one by one: what a task takes from one      *)
(* buffer and adds to the next leaves the concatenation of the three as it *)
(* is; where a task stops, what remains is a prefix of it.                 *)
(***************************************************************************)

(* Handlers that send no chunk above MAX_STREAMING_PAYLOAD_LEN.            *)
NoneTooBig == "big" \notin RespKinds

(* Until the server task has written a terminal frame, what it has put on  *)
(* the wire, for someone who reads it, is the ack and chunks.              *)
RespClean ==
    Reading /\ lost = {} /\ srv \in {"drain", "join"} =>
        \A i \in 1..Len(s2c) : s2c[i].k \in {"ack", "chunk"}

(* The positions of a sequence after its head is taken, and after a frame  *)
(* is appended.                                                            *)
LEMMA CleanOps ==
    ASSUME NEW w \in Seq(Frame), NEW K
    PROVE  /\ w # <<>> => /\ Len(Tail(w)) \in Nat
                          /\ (\A i \in 1..Len(w) : w[i].k \in K)
                               => \A i \in 1..Len(Tail(w)) : Tail(w)[i].k \in K
           /\ \A f \in Frame :
                (\A i \in 1..Len(w) : w[i].k \in K) /\ f.k \in K
                   => \A i \in 1..Len(Append(w, f)) : Append(w, f)[i].k \in K
<1>1. ASSUME w # <<>>, \A i \in 1..Len(w) : w[i].k \in K
      PROVE  \A i \in 1..Len(Tail(w)) : Tail(w)[i].k \in K
  <2>1. /\ Len(Tail(w)) = Len(w) - 1 /\ Len(w) \in Nat \ {0}
        /\ \A i \in 1..(Len(w) - 1) : Tail(w)[i] = w[i + 1]
    BY <1>1, TailAt
  <2>2. \A i \in 1..(Len(w) - 1) : i + 1 \in 1..Len(w)
    BY <2>1
  <2> QED
    BY <1>1, <2>1, <2>2
<1>2. ASSUME NEW f \in Frame, \A i \in 1..Len(w) : w[i].k \in K, f.k \in K
      PROVE  \A i \in 1..Len(Append(w, f)) : Append(w, f)[i].k \in K
  <2>1. /\ Len(Append(w, f)) = Len(w) + 1 /\ Len(w) \in Nat
        /\ \A i \in 1..Len(w) : Append(w, f)[i] = w[i]
        /\ Append(w, f)[Len(w) + 1] = f
    BY AppendAt
  <2>2. \A i \in 1..(Len(w) + 1) : i \in 1..Len(w) \/ i = Len(w) + 1
    BY <2>1
  <2> QED
    BY <1>2, <2>1, <2>2
<1> QED
  BY <1>1, <1>2, TailAt

(* No step disturbs this.                                                  *)
LEMMA CleanStep ==
    ASSUME NoneTooBig, TypeOK, RespInv, RespClean, [Next]_vars
    PROVE  RespClean'
<1> USE DEF callerVars, clientVars, wireVars, serverVars, handlerVars
<1>0. /\ s2c \in Seq(Frame) /\ Len(s2c) \in Nat
      /\ hResp \in Seq([k : RespKinds, n : Nat])
      /\ srv = "await" => Len(s2c) = 0
  BY RespTypes DEF RespInv, PhaseInv
<1>1. CASE drain_handler_responses_write
  <2>1. SUFFICES ASSUME Reading, lost = {}, srv' = "drain"
                 PROVE  \A i \in 1..Len(s2c') : s2c'[i].k \in {"ack", "chunk"}
    BY <1>1 DEF drain_handler_responses_write, RespClean, Reading
  <2>2. /\ hResp # <<>> /\ srv = "drain" /\ s2c' = Append(s2c, Head(hResp))
        /\ Head(hResp).k # "err"
    BY <1>1, <2>1 DEF drain_handler_responses_write, Written
  <2>3. Head(hResp) \in [k : RespKinds, n : Nat]
    BY <1>0, <2>2, SeqOps
  <2>4. Head(hResp) \in Frame /\ Head(hResp).k = "chunk"
    BY <2>2, <2>3, SentType, ConstantsAssumption DEF NoneTooBig
  <2>5. \A i \in 1..Len(s2c) : s2c[i].k \in {"ack", "chunk"}
    BY <2>1, <2>2 DEF RespClean
  <2> QED
    BY <1>0, <2>2, <2>4, <2>5, CleanOps
<1>2. CASE streaming_negotiate_open
  <2>1. s2c' = Written(s2c, F("ack")) /\ s2c = <<>>
    BY <1>0, <1>2 DEF streaming_negotiate_open
  <2>2. s2c' = <<>> \/ s2c' = <<F("ack")>>
    BY <2>1 DEF Written
  <2> QED
    BY <2>2 DEF RespClean, F
<1>3. CASE ~drain_handler_responses_write /\ ~streaming_negotiate_open
  <2>1. \/ s2c' = s2c \/ (s2c # <<>> /\ s2c' = Tail(s2c))
        \/ lost' # {} \/ srv' = "done" \/ (s2c' = <<>> /\ srv' = srv)
    BY <1>3 DEF Next, vars, Open, Cancel, call_streaming_open, call_streaming_live,
     call_streaming_fails, CancelWhileWriting, CancelWhileOpening, Caller, CallerSend,
     CallerDropSender, CallerReceive, CallerDropReceiver, pump_outbound_requests,
     pump_outbound_requests_chunk, pump_outbound_requests_fails, pump_outbound_requests_end,
     pump_inbound_responses, pump_inbound_responses_forward, pump_inbound_responses_gone,
     pump_inbound_responses_end, pump_inbound_responses_lost, ReturnInboundResponses, Negotiate,
     streaming_negotiate_unknown, streaming_negotiate_fails,
     pump_inbound_requests, pump_inbound_requests_forward, pump_inbound_requests_gone,
     pump_inbound_requests_end, pump_inbound_requests_lost, handle_streaming_substream,
     CloseSubstream, drain_handler_responses_fails, drain_handler_responses_end,
     finalise_streaming, skip_finalise, Handler, HandlerReceive, HandlerDropRequests,
     HandlerSend, HandlerDropSender, HandlerReturn, Transport, DeliverStopC2S, DeliverStopS2C,
     ConnectionLost
  <2>2. /\ Reading' => Reading /\ (lost' = {} => lost = {})
        /\ srv' \in {"drain", "join"} => srv \in {"drain", "join"}
    BY <1>3 DEF Reading, Next, vars, Open, Cancel, call_streaming_open, call_streaming_live,
     call_streaming_fails, CancelWhileWriting, CancelWhileOpening, Caller, CallerSend,
     CallerDropSender, CallerReceive, CallerDropReceiver, pump_outbound_requests,
     pump_outbound_requests_chunk, pump_outbound_requests_fails, pump_outbound_requests_end,
     pump_inbound_responses, pump_inbound_responses_forward, pump_inbound_responses_gone,
     pump_inbound_responses_end, pump_inbound_responses_lost, ReturnInboundResponses, Negotiate,
     streaming_negotiate_unknown, streaming_negotiate_fails,
     pump_inbound_requests, pump_inbound_requests_forward, pump_inbound_requests_gone,
     pump_inbound_requests_end, pump_inbound_requests_lost, handle_streaming_substream,
     CloseSubstream, drain_handler_responses_fails, drain_handler_responses_end,
     finalise_streaming, skip_finalise, Handler, HandlerReceive, HandlerDropRequests,
     HandlerSend, HandlerDropSender, HandlerReturn, Transport, DeliverStopC2S, DeliverStopS2C,
     ConnectionLost
  <2>3. SUFFICES ASSUME Reading', lost' = {}, srv' \in {"drain", "join"}
                 PROVE  \A i \in 1..Len(s2c') : s2c'[i].k \in {"ack", "chunk"}
    BY DEF RespClean
  <2>4. \A i \in 1..Len(s2c) : s2c[i].k \in {"ack", "chunk"}
    <3>1. Reading /\ lost = {} /\ srv \in {"drain", "join"}
      BY <2>2, <2>3
    <3> QED
      BY <3>1 DEF RespClean
  <2>5. s2c' = s2c \/ (s2c # <<>> /\ s2c' = Tail(s2c)) \/ s2c' = <<>>
    BY <2>1, <2>3
  <2> QED
    BY <1>0, <2>4, <2>5, CleanOps
<1> QED
  BY <1>1, <1>2, <1>3

(* Throughout, the wire of an open response direction is clean.            *)
THEOREM ResponsesClean ==
    ASSUME NoneTooBig
    PROVE  Spec => []RespClean
<1>1. Init => RespClean
  BY DEF Init, RespClean
<1>2. TypeOK /\ RespInv /\ RespClean /\ [Next]_vars => RespClean'
  BY CleanStep
<1> QED
  BY <1>1, <1>2, ResponseInvariant, TypeCorrect, PTL DEF Spec
-----------------------------------------------------------------------------
(* s are the items of the wire w: those between what leads and the first   *)
(* frame behind it that is no item.                                        *)
Lists(w, s) ==
    /\ Lead(w) + Len(s) <= Len(w)
    /\ \A i \in 1..Len(s) : IsItem(w[Lead(w) + i]) /\ s[i] = ItemOf(w[Lead(w) + i])
    /\ Lead(w) + Len(s) = Len(w) \/ ~IsItem(w[Lead(w) + Len(s) + 1])

(* Items finds them ...                                                    *)
LEMMA ItemsList ==
    ASSUME NEW w \in Seq(Frame)
    PROVE  Items(w) \in Seq(Item) /\ Lists(w, Items(w))
<1> DEFINE b == Lead(w)
           Ends(n) == n = Len(w) \/ ~IsItem(w[n + 1])
           P(n) == (\A i \in (b + 1)..n : IsItem(w[i])) /\ Ends(n)
           T == {n \in b..Len(w) : Ends(n)}
<1>1. b \in Nat /\ b <= Len(w) /\ Len(w) \in Nat
  BY DEF Lead
<1> HIDE DEF b
<1>2. \E n \in b..Len(w) : P(n)
  <2>1. T \in SUBSET Nat /\ T # {}
    <3>1. Len(w) \in T
      BY <1>1
    <3> QED
      BY <1>1, <3>1
  <2>2. PICK n \in T : \A m \in T : n <= m
    BY <2>1, LeastElement, Zenon
  <2>3. ASSUME NEW i \in (b + 1)..n PROVE IsItem(w[i])
    <3>1. i - 1 \in b..Len(w) /\ ~(n <= i - 1) /\ (i - 1) + 1 = i /\ i - 1 # Len(w)
      BY <1>1, <2>2
    <3>2. i - 1 \notin T
      BY <2>2, <3>1
    <3> QED
      BY <3>1, <3>2
  <2> QED
    BY <2>2, <2>3
<1>3. LastItem(w) \in b..Len(w) /\ P(LastItem(w))
  <2>1. LastItem(w) = CHOOSE n \in b..Len(w) : P(n)
    BY DEF LastItem, b
  <2> HIDE DEF P
  <2> QED
    BY <1>2, <2>1
<1> DEFINE L == LastItem(w) - b
<1>4. Items(w) = [i \in 1..L |-> ItemOf(w[b + i])]
  BY DEF Items, b
<1>5. L \in Nat /\ b + L = LastItem(w) /\ b + L <= Len(w)
  BY <1>1, <1>3
<1>6. \A i \in 1..L : b + i \in 1..Len(w) /\ b + i \in (b + 1)..LastItem(w)
  BY <1>1, <1>5
<1> HIDE DEF L
<1>7. \A i \in 1..L : ItemOf(w[b + i]) \in Item /\ IsItem(w[b + i])
  <2>1. \A i \in 1..L : w[b + i] \in Frame
    BY <1>6
  <2>2. \A i \in 1..L : IsItem(w[b + i])
    BY <1>3, <1>6
  <2> QED
    BY <2>1, <2>2, ItemOfType
<1>8. /\ Items(w) \in Seq(Item) /\ Len(Items(w)) = L
      /\ \A i \in 1..L : Items(w)[i] = ItemOf(w[b + i])
  <2>1. \A f : f = [i \in 1..L |-> ItemOf(w[b + i])]
                 => /\ f \in Seq(Item) /\ Len(f) = L
                    /\ \A i \in 1..L : f[i] = ItemOf(w[b + i])
    BY <1>5, <1>7
  <2> QED
    BY <1>4, <2>1, Zenon
<1>9. b + L = Len(w) \/ ~IsItem(w[b + L + 1])
  BY <1>3, <1>5
<1> QED
  BY <1>5, <1>7, <1>8, <1>9 DEF Lists, b

(* ... and there is only one such list.                                    *)
LEMMA ListsOnce ==
    ASSUME NEW w \in Seq(Frame), NEW s \in Seq(Item), NEW t \in Seq(Item),
           Lists(w, s), Lists(w, t)
    PROVE  s = t
<1> DEFINE b == Lead(w)
<1>1. b \in Nat /\ Len(w) \in Nat /\ Len(s) \in Nat /\ Len(t) \in Nat
  BY DEF Lead
<1>2. /\ b + Len(s) <= Len(w) /\ b + Len(t) <= Len(w)
      /\ \A i \in 1..Len(s) : IsItem(w[b + i]) /\ s[i] = ItemOf(w[b + i])
      /\ \A i \in 1..Len(t) : IsItem(w[b + i]) /\ t[i] = ItemOf(w[b + i])
      /\ b + Len(s) = Len(w) \/ ~IsItem(w[b + Len(s) + 1])
      /\ b + Len(t) = Len(w) \/ ~IsItem(w[b + Len(t) + 1])
  BY DEF Lists
<1> HIDE DEF b
<1>3. ASSUME Len(s) < Len(t) PROVE FALSE
  <2>1. Len(s) + 1 \in 1..Len(t) /\ b + Len(s) # Len(w) /\ b + (Len(s) + 1) = b + Len(s) + 1
    BY <1>1, <1>2, <1>3
  <2>2. IsItem(w[b + (Len(s) + 1)])
    BY <1>2, <2>1
  <2> QED
    BY <1>2, <2>1, <2>2
<1>4. ASSUME Len(t) < Len(s) PROVE FALSE
  <2>1. Len(t) + 1 \in 1..Len(s) /\ b + Len(t) # Len(w) /\ b + (Len(t) + 1) = b + Len(t) + 1
    BY <1>1, <1>2, <1>4
  <2>2. IsItem(w[b + (Len(t) + 1)])
    BY <1>2, <2>1
  <2> QED
    BY <1>2, <2>1, <2>2
<1>5. Len(s) = Len(t)
  BY <1>1, <1>3, <1>4
<1>6. \A i \in 1..Len(s) : s[i] = t[i]
  BY <1>2, <1>5
<1> QED
  BY <1>5, <1>6, SameSeq

(* An empty wire carries nothing.                                          *)
LEMMA ItemsNone == Items(<<>>) = <<>>
<1>1. <<>> \in Seq(Frame) /\ Len(<<>>) = 0
  OBVIOUS
<1>2. Items(<<>>) \in Seq(Item) /\ Lists(<<>>, Items(<<>>))
  BY <1>1, ItemsList, Zenon
<1>3. Lead(<<>>) = 0
  BY DEF Lead
<1>4. Len(Items(<<>>)) = 0
  BY <1>1, <1>2, <1>3 DEF Lists
<1> QED
  BY <1>2, <1>4

(* A frame that opens a substream or answers its opening.                  *)
Leads(f) == f.k \in {"open", "ack", "nak"}

(* Another frame on the wire: an item joins the others, when they go up to *)
(* the end; anything else adds no item.                                    *)
LEMMA ItemsAppend ==
    ASSUME NEW w \in Seq(Frame), NEW f \in Frame, Leads(f) => w = <<>>
    PROVE  /\ ~IsItem(f) => Items(Append(w, f)) = Items(w)
           /\ IsItem(f) /\ (\A i \in (Lead(w) + 1)..Len(w) : IsItem(w[i]))
                => Items(Append(w, f)) = Append(Items(w), ItemOf(f))
<1> DEFINE a == Append(w, f)
           s == Items(w)
<1>1. /\ a \in Seq(Frame) /\ Len(a) = Len(w) + 1 /\ Len(w) \in Nat
      /\ \A i \in 1..Len(w) : a[i] = w[i]
      /\ a[Len(w) + 1] = f
  BY AppendAt
<1>2. s \in Seq(Item) /\ Lists(w, s) /\ Len(s) \in Nat
  BY ItemsList
<1> HIDE DEF a, s
<1>3. Lead(w) \in {0, 1} /\ Lead(w) <= Len(w)
  BY DEF Lead
<1>4. w # <<>> => Lead(a) = Lead(w)
  <2> SUFFICES ASSUME w # <<>> PROVE Lead(a) = Lead(w)
    OBVIOUS
  <2>1. 1 \in 1..Len(w) /\ a # <<>>
    BY <1>1
  <2> QED
    BY <1>1, <2>1 DEF Lead
<1>5. w = <<>> => Lead(w) = 0 /\ Len(w) = 0 /\ Len(s) = 0
  <2> SUFFICES ASSUME w = <<>> PROVE Lead(w) = 0 /\ Len(w) = 0 /\ Len(s) = 0
    OBVIOUS
  <2>1. Lead(w) = 0 /\ Len(w) = 0
    BY DEF Lead
  <2>2. Lead(w) + Len(s) <= Len(w)
    BY <1>2, Zenon DEF Lists
  <2> QED
    BY <1>2, <2>1, <2>2
<1>6. w = <<>> => Lead(a) = IF Leads(f) THEN 1 ELSE 0
  <2> SUFFICES ASSUME w = <<>> PROVE Lead(a) = IF Leads(f) THEN 1 ELSE 0
    OBVIOUS
  <2>1. a # <<>> /\ a[1] = f
    BY <1>1, <1>5
  <2> QED
    BY <2>1 DEF Lead, Leads
<1>7. ASSUME ~IsItem(f) PROVE Items(a) = s
  <2>1. Lists(a, s)
    <3>1. CASE w = <<>>
      BY <1>1, <1>5, <1>6, <1>7, <3>1 DEF Lists
    <3>2. CASE w # <<>>
      <4> DEFINE b == Lead(w)
      <4>1. /\ b + Len(s) <= Len(w)
            /\ \A i \in 1..Len(s) : IsItem(w[b + i]) /\ s[i] = ItemOf(w[b + i])
            /\ b + Len(s) = Len(w) \/ ~IsItem(w[b + Len(s) + 1])
        BY <1>2 DEF Lists
      <4>2. b \in Nat /\ Lead(a) = b
        BY <1>3, <1>4, <3>2
      <4> HIDE DEF b
      <4>3. \A i \in 1..Len(s) : b + i \in 1..Len(w)
        BY <1>1, <1>2, <4>1, <4>2
      <4>4. \A i \in 1..Len(s) : IsItem(a[b + i]) /\ s[i] = ItemOf(a[b + i])
        BY <1>1, <4>1, <4>3
      <4>5. ~IsItem(a[b + Len(s) + 1])
        <5>1. CASE b + Len(s) = Len(w)
          BY <1>1, <1>7, <5>1
        <5>2. CASE b + Len(s) # Len(w)
          <6>1. b + Len(s) + 1 \in 1..Len(w)
            BY <1>1, <1>2, <4>1, <4>2, <5>2
          <6> QED
            BY <1>1, <4>1, <5>2, <6>1
        <5> QED
          BY <5>1, <5>2
      <4>6. b + Len(s) <= Len(a)
        BY <1>1, <1>2, <4>1, <4>2
      <4> QED
        BY <4>2, <4>4, <4>5, <4>6 DEF Lists
    <3> QED
      BY <3>1, <3>2
  <2>2. Items(a) \in Seq(Item) /\ Lists(a, Items(a))
    BY <1>1, ItemsList
  <2> QED
    BY <1>1, <1>2, <2>1, <2>2, ListsOnce
<1>8. ASSUME IsItem(f), \A i \in (Lead(w) + 1)..Len(w) : IsItem(w[i])
      PROVE  Items(a) = Append(s, ItemOf(f))
  <2> DEFINE t == Append(s, ItemOf(f))
             b == Lead(w)
  <2>1. ItemOf(f) \in Item
    BY ItemOfType
  <2>2. /\ t \in Seq(Item) /\ Len(t) = Len(s) + 1
        /\ \A i \in 1..Len(s) : t[i] = s[i]
        /\ t[Len(s) + 1] = ItemOf(f)
    BY <1>2, <2>1, AppendAt
  <2>3. Lead(a) = b
    BY <1>4, <1>5, <1>6, <1>8 DEF IsItem, Leads
  <2>4. /\ b + Len(s) <= Len(w)
        /\ \A i \in 1..Len(s) : IsItem(w[b + i]) /\ s[i] = ItemOf(w[b + i])
        /\ b + Len(s) = Len(w) \/ ~IsItem(w[b + Len(s) + 1])
    BY <1>2 DEF Lists
  <2>5. b \in Nat /\ \A i \in (b + 1)..Len(w) : IsItem(w[i])
    BY <1>3, <1>8
  <2> HIDE DEF b, t
  <2>6. b + Len(s) = Len(w)
    <3> SUFFICES ASSUME b + Len(s) # Len(w) PROVE FALSE
      OBVIOUS
    <3>1. b + Len(s) + 1 \in (b + 1)..Len(w)
      BY <1>1, <1>2, <2>4, <2>5
    <3> QED
      BY <2>4, <2>5, <3>1
  <2>7. \A i \in 1..Len(t) : IsItem(a[b + i]) /\ t[i] = ItemOf(a[b + i])
    <3>1. ASSUME NEW i \in 1..Len(s) PROVE IsItem(a[b + i]) /\ t[i] = ItemOf(a[b + i])
      <4>1. b + i \in 1..Len(w)
        BY <1>1, <1>2, <2>4, <2>5
      <4> QED
        BY <1>1, <2>2, <2>4, <4>1
    <3>2. b + (Len(s) + 1) = Len(w) + 1
      BY <1>1, <1>2, <2>5, <2>6
    <3>3. IsItem(a[b + (Len(s) + 1)]) /\ t[Len(s) + 1] = ItemOf(a[b + (Len(s) + 1)])
      BY <1>1, <1>8, <2>2, <3>2
    <3>4. \A i \in 1..Len(t) : i \in 1..Len(s) \/ i = Len(s) + 1
      BY <1>2, <2>2
    <3> QED
      BY <3>1, <3>3, <3>4
  <2>8. b + Len(t) = Len(a)
    BY <1>1, <1>2, <2>2, <2>5, <2>6
  <2>9. Lists(a, t)
    BY <1>1, <2>3, <2>7, <2>8 DEF Lists
  <2>10. Items(a) \in Seq(Item) /\ Lists(a, Items(a))
    BY <1>1, ItemsList
  <2> QED
    BY <1>1, <2>2, <2>9, <2>10, ListsOnce DEF t
<1> QED
  BY <1>7, <1>8 DEF a, s

(* The first frame is read: an item is the first of the items.             *)
LEMMA ItemsRead ==
    ASSUME NEW w \in Seq(Frame), w # <<>>, Len(w) > 1 => ~Leads(w[2])
    PROVE  /\ Leads(w[1]) => Items(Tail(w)) = Items(w)
           /\ IsItem(w[1]) => /\ Items(w) # <<>> /\ Head(Items(w)) = ItemOf(w[1])
                              /\ Tail(Items(w)) = Items(Tail(w))
<1> DEFINE t == Tail(w)
           s == Items(t)
<1>1. /\ t \in Seq(Frame) /\ Len(t) = Len(w) - 1 /\ Len(w) \in Nat \ {0}
      /\ \A i \in 1..(Len(w) - 1) : t[i] = w[i + 1]
      /\ w[1] \in Frame
  BY TailAt
<1> HIDE DEF t
<1>2. Lead(t) = 0
  <2>1. CASE Len(w) > 1
    <3>1. t[1] = w[2]
      BY <1>1, <2>1
    <3>2. t[1].k \notin {"open", "ack", "nak"}
      BY <2>1, <3>1 DEF Leads
    <3> QED
      BY <3>2 DEF Lead
  <2>2. CASE Len(w) = 1
    <3>1. t = <<>>
      BY <1>1, <2>2
    <3> QED
      BY <3>1 DEF Lead
  <2> QED
    BY <1>1, <2>1, <2>2
<1>3. s \in Seq(Item) /\ Lists(t, s) /\ Len(s) \in Nat
  BY <1>1, ItemsList
<1> HIDE DEF s
<1>4. /\ Len(s) <= Len(t)
      /\ \A i \in 1..Len(s) : IsItem(t[i]) /\ s[i] = ItemOf(t[i])
      /\ Len(s) = Len(t) \/ ~IsItem(t[Len(s) + 1])
  BY <1>2, <1>3 DEF Lists
<1>5. /\ \A i \in 1..Len(s) : i \in 1..(Len(w) - 1) /\ t[i] = w[i + 1]
      /\ Len(s) # Len(t) => Len(s) + 1 \in 1..(Len(w) - 1)
                            /\ t[Len(s) + 1] = w[(Len(s) + 1) + 1]
  BY <1>1, <1>3, <1>4
<1>6. Items(w) \in Seq(Item) /\ Lists(w, Items(w))
  BY ItemsList
<1>7. ASSUME Leads(w[1]) PROVE s = Items(w)
  <2>1. Lead(w) = 1
    BY <1>7 DEF Lead, Leads
  <2>2. \A i \in 1..Len(s) : 1 + i = i + 1
    BY <1>3
  <2>3. \A i \in 1..Len(s) : IsItem(w[1 + i]) /\ s[i] = ItemOf(w[1 + i])
    BY <1>4, <1>5, <2>2
  <2>4. 1 + Len(s) <= Len(w) /\ (1 + Len(s) = Len(w) \/ ~IsItem(w[1 + Len(s) + 1]))
    <3>1. 1 + Len(s) + 1 = (Len(s) + 1) + 1
      BY <1>3
    <3>2. CASE Len(s) = Len(t)
      BY <1>1, <1>3, <3>2
    <3>3. CASE Len(s) # Len(t)
      <4>1. ~IsItem(w[(Len(s) + 1) + 1])
        BY <1>4, <1>5, <3>3
      <4> QED
        BY <1>1, <1>3, <1>4, <3>1, <4>1
    <3> QED
      BY <3>2, <3>3
  <2>5. Lists(w, s)
    BY <2>1, <2>3, <2>4 DEF Lists
  <2> QED
    BY <1>3, <1>6, <2>5, ListsOnce
<1>8. ASSUME IsItem(w[1])
      PROVE  /\ Items(w) # <<>> /\ Head(Items(w)) = ItemOf(w[1])
             /\ Tail(Items(w)) = s
  <2> DEFINE x == ItemOf(w[1])
             r == <<x>> \o s
  <2>1. x \in Item
    BY <1>1, ItemOfType
  <2> HIDE DEF x
  <2>2. /\ r \in Seq(Item) /\ Len(r) = Len(s) + 1 /\ r[1] = x
        /\ \A i \in 1..Len(s) : r[i + 1] = s[i]
        /\ r # <<>> /\ Head(r) = x /\ Tail(r) = s
    BY <1>3, <2>1
  <2> HIDE DEF r
  <2>3. Lead(w) = 0
    BY <1>8 DEF Lead, IsItem
  <2>4. \A i \in 1..Len(r) : IsItem(w[i]) /\ r[i] = ItemOf(w[i])
    <3>1. ASSUME NEW j \in 1..Len(s) PROVE IsItem(w[j + 1]) /\ r[j + 1] = ItemOf(w[j + 1])
      BY <1>4, <1>5, <2>2
    <3>2. \A i \in 1..Len(r) : i = 1 \/ (i - 1 \in 1..Len(s) /\ (i - 1) + 1 = i)
      BY <1>3, <2>2
    <3>3. ASSUME NEW i \in 1..Len(r), i # 1 PROVE IsItem(w[i]) /\ r[i] = ItemOf(w[i])
      <4>1. i - 1 \in 1..Len(s) /\ (i - 1) + 1 = i
        BY <3>2, <3>3
      <4>2. IsItem(w[(i - 1) + 1]) /\ r[(i - 1) + 1] = ItemOf(w[(i - 1) + 1])
        BY <3>1, <4>1
      <4> QED
        BY <4>1, <4>2
    <3> QED
      BY <1>8, <2>2, <3>3 DEF x
  <2>5. Len(r) <= Len(w) /\ (Len(r) = Len(w) \/ ~IsItem(w[Len(r) + 1]))
    BY <1>1, <1>3, <1>4, <1>5, <2>2
  <2>6. Lists(w, r)
    <3>1. Len(r) \in Nat /\ \A i \in 1..Len(r) : 0 + i = i
      BY <1>3, <2>2
    <3> QED
      BY <2>3, <2>4, <2>5, <3>1 DEF Lists
  <2>7. Items(w) = r
    BY <1>6, <2>2, <2>6, ListsOnce
  <2> QED
    BY <2>2, <2>7 DEF x
<1> QED
  <2>1. s = Items(Tail(w))
    BY DEF s, t
  <2> QED
    BY <1>7, <1>8, <2>1, Zenon
-----------------------------------------------------------------------------
(* t begins with s.                                                        *)
Begins(s, t) == \E l \in 0..Len(t) : s = SubSeq(t, 1, l)

(* That is, it has the elements of s up to the length of s.                *)
LEMMA BeginsAt ==
    ASSUME NEW s \in Seq(Item), NEW t \in Seq(Item)
    PROVE  Begins(s, t) <=> Len(s) <= Len(t) /\ \A i \in 1..Len(s) : s[i] = t[i]
<1>0. Len(s) \in Nat /\ Len(t) \in Nat
  OBVIOUS
<1>1. ASSUME NEW l \in 0..Len(t)
      PROVE  /\ SubSeq(t, 1, l) \in Seq(Item) /\ Len(SubSeq(t, 1, l)) = l
             /\ \A i \in 1..l : SubSeq(t, 1, l)[i] = t[i]
  OBVIOUS
<1>2. ASSUME Begins(s, t) PROVE Len(s) <= Len(t) /\ \A i \in 1..Len(s) : s[i] = t[i]
  <2>1. PICK l \in 0..Len(t) : s = SubSeq(t, 1, l)
    BY <1>2 DEF Begins
  <2> QED
    BY <1>0, <1>1, <2>1
<1>3. ASSUME Len(s) <= Len(t), \A i \in 1..Len(s) : s[i] = t[i] PROVE Begins(s, t)
  <2>1. Len(s) \in 0..Len(t)
    BY <1>0, <1>3
  <2>2. /\ SubSeq(t, 1, Len(s)) \in Seq(Item) /\ Len(SubSeq(t, 1, Len(s))) = Len(s)
        /\ \A i \in 1..Len(s) : s[i] = SubSeq(t, 1, Len(s))[i]
    BY <1>1, <1>3, <2>1
  <2>3. s = SubSeq(t, 1, Len(s))
    BY <2>2, SameSeq
  <2> QED
    BY <2>1, <2>3 DEF Begins
<1> QED
  BY <1>2, <1>3

(* A concatenation begins with its first part, with what that begins with, *)
(* and with its first part followed by what the second begins with.        *)
LEMMA BeginsConcat ==
    ASSUME NEW s \in Seq(Item), NEW t \in Seq(Item), NEW u \in Seq(Item)
    PROVE  /\ Begins(s, s) /\ Begins(<<>>, s) /\ Begins(s, s \o t)
           /\ Begins(u, s) => Begins(u, s \o t)
           /\ Begins(u, t) => Begins(s \o u, s \o t)
<1>0. Len(s) \in Nat /\ Len(t) \in Nat /\ Len(u) \in Nat
  OBVIOUS
<1>1. <<>> \in Seq(Item) /\ Len(<<>>) = 0
  OBVIOUS
<1>2. /\ s \o t \in Seq(Item) /\ Len(s \o t) = Len(s) + Len(t)
      /\ \A i \in 1..Len(s) : (s \o t)[i] = s[i]
      /\ \A i \in 1..Len(t) : (s \o t)[Len(s) + i] = t[i]
  BY ConcatAt
<1>3. /\ s \o u \in Seq(Item) /\ Len(s \o u) = Len(s) + Len(u)
      /\ \A i \in 1..Len(s) : (s \o u)[i] = s[i]
      /\ \A i \in 1..Len(u) : (s \o u)[Len(s) + i] = u[i]
  BY ConcatAt
<1>4. Begins(s, s)
  BY <1>0, BeginsAt
<1>5. Begins(<<>>, s)
  <2>1. Len(<<>>) <= Len(s) /\ \A i \in 1..Len(<<>>) : <<>>[i] = s[i]
    BY <1>0, <1>1
  <2> QED
    BY <1>1, <2>1, BeginsAt
<1> DEFINE c == s \o t
           d == s \o u
<1> HIDE DEF c, d
<1>6. Begins(s, c)
  <2>1. c \in Seq(Item) /\ Len(s) <= Len(c) /\ \A i \in 1..Len(s) : s[i] = c[i]
    BY <1>0, <1>2 DEF c
  <2> QED
    BY <2>1, BeginsAt
<1>7. ASSUME Begins(u, s) PROVE Begins(u, c)
  <2>1. Len(u) <= Len(s) /\ \A i \in 1..Len(u) : u[i] = s[i]
    BY <1>7, BeginsAt
  <2>2. Len(u) <= Len(c) /\ \A i \in 1..Len(u) : u[i] = c[i]
    BY <1>0, <1>2, <2>1 DEF c
  <2> QED
    BY <1>2, <2>2, BeginsAt DEF c
<1>8. ASSUME Begins(u, t) PROVE Begins(d, c)
  <2>1. Len(u) <= Len(t) /\ \A i \in 1..Len(u) : u[i] = t[i]
    BY <1>8, BeginsAt
  <2>2. Len(d) <= Len(c)
    BY <1>0, <1>2, <1>3, <2>1 DEF c, d
  <2>3. ASSUME NEW i \in 1..Len(d) PROVE d[i] = c[i]
    <3>1. CASE i \in 1..Len(s)
      BY <1>2, <1>3, <3>1 DEF c, d
    <3>2. CASE i \notin 1..Len(s)
      <4>1. /\ i - Len(s) \in 1..Len(u) /\ i - Len(s) \in 1..Len(t)
            /\ Len(s) + (i - Len(s)) = i
        BY <1>0, <1>3, <2>1, <3>2 DEF d
      <4>2. d[i] = u[i - Len(s)] /\ c[i] = t[i - Len(s)]
        BY <1>2, <1>3, <4>1 DEF c, d
      <4> QED
        BY <2>1, <4>1, <4>2
    <3> QED
      BY <3>1, <3>2
  <2>4. c \in Seq(Item) /\ d \in Seq(Item)
    BY <1>2, <1>3 DEF c, d
  <2> QED
    BY <2>2, <2>3, <2>4, BeginsAt
<1> QED
  BY <1>4, <1>5, <1>6, <1>7, <1>8 DEF c, d

(* The head of the second part may as well end the first.                  *)
LEMMA ShiftHead ==
    ASSUME NEW s \in Seq(Item), NEW t \in Seq(Item), t # <<>>
    PROVE  Append(s, Head(t)) \o Tail(t) = s \o t
<1>1. /\ Len(Tail(t)) = Len(t) - 1 /\ Len(t) \in Nat \ {0}
      /\ \A i \in 1..(Len(t) - 1) : Tail(t)[i] = t[i + 1]
      /\ Head(t) = t[1] /\ Head(t) \in Item /\ Tail(t) \in Seq(Item)
  BY TailAt
<1> DEFINE a == Append(s, Head(t))
           r == Tail(t)
           c == a \o r
           d == s \o t
<1>2. /\ a \in Seq(Item) /\ Len(a) = Len(s) + 1 /\ Len(s) \in Nat
      /\ \A i \in 1..Len(s) : a[i] = s[i]
      /\ a[Len(s) + 1] = t[1]
  BY <1>1, AppendAt
<1>3. /\ d \in Seq(Item) /\ Len(d) = Len(s) + Len(t)
      /\ \A i \in 1..Len(s) : d[i] = s[i]
      /\ \A i \in 1..Len(t) : d[Len(s) + i] = t[i]
  BY ConcatAt
<1>4. r \in Seq(Item) /\ Len(r) = Len(t) - 1 /\ \A i \in 1..(Len(t) - 1) : r[i] = t[i + 1]
  BY <1>1
<1> HIDE DEF a, r, d
<1>5. /\ c \in Seq(Item) /\ Len(c) = Len(a) + Len(r)
      /\ \A i \in 1..Len(a) : c[i] = a[i]
      /\ \A i \in 1..Len(r) : c[Len(a) + i] = r[i]
  <2>1. a \in Seq(Item) /\ r \in Seq(Item)
    BY <1>2, <1>4
  <2> QED
    BY <2>1, ConcatAt
<1> HIDE DEF c
<1>6. Len(c) = Len(d)
  BY <1>1, <1>2, <1>3, <1>4, <1>5
<1>7. ASSUME NEW i \in 1..Len(c) PROVE c[i] = d[i]
  <2>1. CASE i \in 1..Len(s)
    <3>1. i \in 1..Len(a)
      BY <1>2, <2>1
    <3> QED
      BY <1>2, <1>3, <1>5, <2>1, <3>1
  <2>2. CASE i = Len(s) + 1
    <3>1. i \in 1..Len(a) /\ 1 \in 1..Len(t)
      BY <1>1, <1>2, <2>2
    <3>2. c[i] = t[1] /\ d[Len(s) + 1] = t[1]
      BY <1>2, <1>3, <1>5, <2>2, <3>1
    <3> QED
      BY <2>2, <3>2
  <2>3. CASE i > Len(s) + 1
    <3> DEFINE j == i - (Len(s) + 1)
    <3>1. /\ j \in 1..Len(r) /\ j \in 1..(Len(t) - 1) /\ Len(a) + j = i
          /\ j + 1 \in 1..Len(t) /\ Len(s) + (j + 1) = i
      BY <1>1, <1>2, <1>4, <1>5, <2>3
    <3> HIDE DEF j
    <3>2. c[i] = r[j] /\ r[j] = t[j + 1] /\ d[i] = t[j + 1]
      BY <1>3, <1>4, <1>5, <3>1
    <3> QED
      BY <3>2
  <2> QED
    BY <1>2, <1>5, <2>1, <2>2, <2>3
<1>8. c = d
  BY <1>3, <1>5, <1>6, <1>7, SameSeq
<1> QED
  BY <1>8 DEF a, r, c, d

(* Appending to the second part appends to the whole.                      *)
LEMMA AppendConcat ==
    ASSUME NEW s \in Seq(Item), NEW t \in Seq(Item), NEW x \in Item
    PROVE  s \o Append(t, x) = Append(s \o t, x)
<1> DEFINE a == Append(t, x)
           c == s \o a
           d == s \o t
           e == Append(d, x)
<1>1. /\ a \in Seq(Item) /\ Len(a) = Len(t) + 1 /\ Len(t) \in Nat
      /\ \A i \in 1..Len(t) : a[i] = t[i]
      /\ a[Len(t) + 1] = x
  BY AppendAt
<1>2. /\ d \in Seq(Item) /\ Len(d) = Len(s) + Len(t) /\ Len(s) \in Nat
      /\ \A i \in 1..Len(s) : d[i] = s[i]
      /\ \A i \in 1..Len(t) : d[Len(s) + i] = t[i]
  BY ConcatAt
<1> HIDE DEF a, d
<1>3. /\ c \in Seq(Item) /\ Len(c) = Len(s) + Len(a)
      /\ \A i \in 1..Len(s) : c[i] = s[i]
      /\ \A i \in 1..Len(a) : c[Len(s) + i] = a[i]
  <2>1. a \in Seq(Item)
    BY <1>1
  <2> QED
    BY <2>1, ConcatAt
<1>4. /\ e \in Seq(Item) /\ Len(e) = Len(d) + 1
      /\ \A i \in 1..Len(d) : e[i] = d[i]
      /\ e[Len(d) + 1] = x
  BY <1>2, AppendAt
<1> HIDE DEF c, e
<1>5. Len(c) = Len(e)
  BY <1>1, <1>2, <1>3, <1>4
<1>6. ASSUME NEW i \in 1..Len(c) PROVE c[i] = e[i]
  <2>1. CASE i \in 1..Len(s)
    <3>1. i \in 1..Len(d)
      BY <1>1, <1>2, <2>1
    <3> QED
      BY <1>2, <1>3, <1>4, <2>1, <3>1
  <2>2. CASE i \notin 1..Len(s)
    <3> DEFINE j == i - Len(s)
    <3>1. j \in 1..Len(a) /\ Len(s) + j = i
      BY <1>1, <1>2, <1>3, <2>2
    <3> HIDE DEF j
    <3>2. c[i] = a[j]
      BY <1>3, <3>1
    <3>3. CASE j = Len(t) + 1
      BY <1>1, <1>2, <1>4, <3>1, <3>2, <3>3
    <3>4. CASE j # Len(t) + 1
      <4>1. j \in 1..Len(t) /\ i \in 1..Len(d)
        BY <1>1, <1>2, <3>1, <3>4
      <4> QED
        BY <1>1, <1>2, <1>4, <3>1, <3>2, <4>1
    <3> QED
      BY <3>3, <3>4
  <2> QED
    BY <2>1, <2>2
<1>7. c = e
  BY <1>3, <1>4, <1>5, <1>6, SameSeq
<1> QED
  BY <1>7 DEF a, c, d, e

(* Of a wire that is cut, the items it begins with are left.               *)
LEMMA ItemsBegin ==
    ASSUME NEW w \in Seq(Frame), NEW j \in 0..Len(w)
    PROVE  Begins(Items(SubSeq(w, 1, j)), Items(w))
<1> DEFINE v == SubSeq(w, 1, j)
           s == Items(v)
           t == Items(w)
           b == Lead(w)
<1>1. /\ v \in Seq(Frame) /\ Len(v) = j /\ Len(w) \in Nat /\ j \in Nat /\ j <= Len(w)
      /\ \A i \in 1..j : v[i] = w[i]
  OBVIOUS
<1> HIDE DEF v
<1>2. s \in Seq(Item) /\ Lists(v, s) /\ t \in Seq(Item) /\ Lists(w, t)
  BY <1>1, ItemsList
<1>3. b \in {0, 1} /\ Len(s) \in Nat /\ Len(t) \in Nat
  BY <1>2 DEF Lead
<1>4. CASE j = 0
  <2>1. Lead(v) + Len(s) <= 0
    BY <1>1, <1>2, <1>4 DEF Lists
  <2>2. Lead(v) \in Nat
    BY DEF Lead
  <2>3. Len(s) = 0
    BY <1>3, <2>1, <2>2
  <2> HIDE DEF s, t
  <2>4. Len(s) <= Len(t) /\ \A i \in 1..Len(s) : s[i] = t[i]
    BY <1>3, <2>3
  <2> QED
    BY <1>2, <2>4, BeginsAt DEF s, t, v
<1>5. CASE j # 0
  <2>1. Lead(v) = b
    <3>1. v # <<>> /\ w # <<>> /\ v[1] = w[1]
      BY <1>1, <1>5
    <3> QED
      BY <3>1 DEF Lead
  <2>2. /\ b + Len(s) <= j
        /\ \A i \in 1..Len(s) : IsItem(v[b + i]) /\ s[i] = ItemOf(v[b + i])
    BY <1>1, <1>2, <2>1 DEF Lists
  <2>3. /\ b + Len(t) <= Len(w)
        /\ \A i \in 1..Len(t) : IsItem(w[b + i]) /\ t[i] = ItemOf(w[b + i])
        /\ b + Len(t) = Len(w) \/ ~IsItem(w[b + Len(t) + 1])
    BY <1>2 DEF Lists
  <2> HIDE DEF s, t, b
  <2>4. \A i \in 1..Len(s) : IsItem(w[b + i]) /\ s[i] = ItemOf(w[b + i])
    <3>1. \A i \in 1..Len(s) : b + i \in 1..j
      BY <1>1, <1>3, <2>2
    <3> QED
      BY <1>1, <2>2, <3>1
  <2>5. Len(s) <= Len(t)
    <3> SUFFICES ASSUME Len(t) < Len(s) PROVE FALSE
      BY <1>3
    <3>1. Len(t) + 1 \in 1..Len(s) /\ b + (Len(t) + 1) = b + Len(t) + 1 /\ b + Len(t) # Len(w)
      BY <1>1, <1>3, <2>2
    <3>2. IsItem(w[b + (Len(t) + 1)])
      BY <2>4, <3>1
    <3> QED
      BY <2>3, <3>1, <3>2
  <2>6. \A i \in 1..Len(s) : s[i] = t[i]
    BY <1>3, <2>3, <2>4, <2>5
  <2> QED
    BY <1>2, <2>5, <2>6, BeginsAt DEF s, t, v
<1> QED
  BY <1>4, <1>5
-----------------------------------------------------------------------------
(* The parts of the pipe on the wire and in the handler's channel.         *)
WirePart == IF ResponsesRead THEN Items(s2c) ELSE <<>>
SourcePart == IF ResponsesOpen THEN Items(hResp) ELSE <<>>

(* What a handler sends are items.                                         *)
LEMMA HandlerItems ==
    ASSUME TypeOK
    PROVE  /\ hResp \in Seq(Frame) /\ Lead(hResp) = 0
           /\ \A i \in 1..Len(hResp) : IsItem(hResp[i])
           /\ \A x \in [k : RespKinds, n : Nat] : x \in Frame /\ IsItem(x) /\ ~Leads(x)
<1>1. \A x \in [k : RespKinds, n : Nat] : x \in Frame /\ IsItem(x) /\ ~Leads(x)
  BY SentType, ConstantsAssumption DEF IsItem, Leads
<1>2. \A i \in 1..Len(hResp) : hResp[i] \in [k : RespKinds, n : Nat]
  BY RespTypes, ElementType
<1>3. \A i \in 1..Len(hResp) : hResp[i] \in Frame /\ IsItem(hResp[i]) /\ ~Leads(hResp[i])
  BY <1>1, <1>2
<1>4. hResp \in Seq(Frame)
  BY <1>3, RespTypes
<1>5. Lead(hResp) = 0
  <2>1. CASE hResp = <<>>
    BY <2>1 DEF Lead
  <2>2. CASE hResp # <<>>
    <3>1. 1 \in 1..Len(hResp)
      BY <1>4, <2>2
    <3>2. ~(hResp[1].k \in {"open", "ack", "nak"})
      BY <1>3, <3>1 DEF Leads
    <3> QED
      BY <3>2 DEF Lead
  <2> QED
    BY <2>1, <2>2
<1> QED
  BY <1>1, <1>3, <1>4, <1>5

(* The pipe of the responses is the three of them, in order.               *)
LeftShape ==
    /\ ResponsesLeft = (cResp \o WirePart) \o SourcePart
    /\ cResp \in Seq(Item) /\ WirePart \in Seq(Item) /\ SourcePart \in Seq(Item)
    /\ cResp \o WirePart \in Seq(Item) /\ ResponsesLeft \in Seq(Item)

(* The types of the three, and of what they make together.                 *)
LEMMA LeftHolds == TypeOK => LeftShape
<1> SUFFICES ASSUME TypeOK PROVE LeftShape
  OBVIOUS
<1>1. s2c \in Seq(Frame) /\ cResp \in Seq(Item) /\ hResp \in Seq(Frame)
  BY RespTypes, HandlerItems
<1>2. Items(s2c) \in Seq(Item) /\ Items(hResp) \in Seq(Item)
  BY <1>1, ItemsList
<1>3. <<>> \in Seq(Item)
  OBVIOUS
<1>4. WirePart \in Seq(Item) /\ SourcePart \in Seq(Item)
  BY <1>2, <1>3 DEF WirePart, SourcePart
<1>5. ResponsesLeft = (cResp \o WirePart) \o SourcePart
  BY DEF ResponsesLeft, WirePart, SourcePart
<1>6. cResp \o WirePart \in Seq(Item)
  BY <1>1, <1>4, ConcatAt
<1>7. (cResp \o WirePart) \o SourcePart \in Seq(Item)
  BY <1>4, <1>6, ConcatAt
<1> QED
  BY <1>1, <1>4, <1>5, <1>6, <1>7 DEF LeftShape

(* The same, spelled out, ...                                              *)
LEMMA LeftIs ==
    ASSUME TypeOK
    PROVE  /\ ResponsesLeft = (cResp \o WirePart) \o SourcePart
           /\ cResp \in Seq(Item) /\ WirePart \in Seq(Item) /\ SourcePart \in Seq(Item)
           /\ cResp \o WirePart \in Seq(Item) /\ ResponsesLeft \in Seq(Item)
  BY LeftHolds, Zenon DEF LeftShape

(* ... and of the next state.                                              *)
LEMMA LeftNext == (TypeOK => LeftShape)'
  BY LeftHolds, PTL

(* The shape of the pipe after a step, spelled out.                        *)
LEMMA LeftAfter ==
    ASSUME TypeOK'
    PROVE  /\ ResponsesLeft' = (cResp' \o WirePart') \o SourcePart'
           /\ cResp' \in Seq(Item) /\ WirePart' \in Seq(Item) /\ SourcePart' \in Seq(Item)
           /\ cResp' \o WirePart' \in Seq(Item) /\ ResponsesLeft' \in Seq(Item)
  BY LeftNext, Zenon DEF LeftShape

(* Who reads the responses, in the words of the invariant, and what then   *)
(* may stand where on the wire.                                            *)
LEMMA ReadIs ==
    ASSUME TypeOK, RespInv
    PROVE  /\ ResponsesRead <=> Reading
           /\ ResponsesRead =>
                /\ \A i \in 2..Len(s2c) : ~Leads(s2c[i])
                /\ call = "live" /\ Len(s2c) > 0 => ~Leads(s2c[1])
                /\ OnlyChunks(got) /\ OnlyChunks(cResp)
<1>1. ResponsesRead <=> Reading
  BY DEF RespInv, PhaseInv, ResponsesRead, Reading, TypeOK
<1>2. ASSUME ResponsesRead
      PROVE  /\ \A i \in 2..Len(s2c) : ~Leads(s2c[i])
             /\ call = "live" /\ Len(s2c) > 0 => ~Leads(s2c[1])
  <2>1. \A i \in 1..Len(s2c) :
           /\ s2c[i].k \in {"ack", "nak", "fin", "end", "err", "chunk", "big"}
           /\ s2c[i].k \in {"ack", "nak"} => i = 1 /\ call # "live"
    BY <1>1, <1>2 DEF RespInv, WireInv
  <2>2. Len(s2c) \in Nat
    BY RespTypes
  <2> QED
    BY <2>1, <2>2 DEF Leads
<1>3. ASSUME ResponsesRead PROVE OnlyChunks(got) /\ OnlyChunks(cResp)
  <2>1. DOMAIN got = 1..Len(got) /\ DOMAIN cResp = 1..Len(cResp)
    BY RespTypes
  <2>2. CASE call = "live"
    <3>1. inResp = "run"
      BY <1>1, <1>3, <2>2 DEF Reading
    <3> QED
      BY <2>1, <3>1 DEF RespInv, CallerInv, OnlyChunks
  <2>3. CASE call # "live"
    <3>1. Len(got) = 0 /\ Len(cResp) = 0
      BY <2>3 DEF RespInv, PhaseInv
    <3> QED
      BY <2>1, <3>1 DEF OnlyChunks
  <2> QED
    BY <2>2, <2>3
<1> QED
  BY <1>1, <1>2, <1>3

-----------------------------------------------------------------------------
(* What a step does to the pipe.                                           *)
ResponseStep ==
    \/ ResponsePipe!Put \/ ResponsePipe!Get \/ ResponsePipe!Cut
    \/ UNCHANGED <<ResponsesLeft, got, ResponsesOpen>>

(* A closed pipe that is left with a beginning of what was in it is cut.   *)
LEMMA CutShort ==
    ASSUME Begins(ResponsesLeft', ResponsesLeft), ~ResponsesOpen', got' = got
    PROVE  ResponseStep
<1>1. ResponsesOpen' = FALSE
  BY DEF ResponsesOpen
<1>2. PICK l \in 0..Len(ResponsesLeft) : ResponsesLeft' = SubSeq(ResponsesLeft, 1, l)
  BY DEF Begins
<1> QED
  BY <1>1, <1>2 DEF ResponseStep, ResponsePipe!Cut

(* So is one that gets an error behind chunks, after chunks.               *)
LEMMA CutError ==
    ASSUME TypeOK, NEW x \in ErrorItems(MaxResp),
           ResponsesLeft' = Append(ResponsesLeft, x), ~ResponsesOpen', got' = got,
           OnlyChunks(got), OnlyChunks(ResponsesLeft)
    PROVE  ResponseStep
<1> DEFINE q == ResponsesLeft
<1>1. q \in Seq(Item) /\ got \in Seq(Item)
  BY LeftIs, RespTypes
<1>2. ResponsesOpen' = FALSE
  BY DEF ResponsesOpen
<1>3. OnlyChunks(q) /\ ResponsesLeft' = Append(q, x)
  OBVIOUS
<1>4. /\ DOMAIN (got \o q) = 1..(Len(got) + Len(q)) /\ Len(got) \in Nat /\ Len(q) \in Nat
      /\ \A i \in 1..Len(got) : (got \o q)[i] = got[i]
      /\ \A i \in 1..Len(q) : (got \o q)[Len(got) + i] = q[i]
      /\ DOMAIN got = 1..Len(got) /\ DOMAIN q = 1..Len(q)
  <2> HIDE DEF q
  <2> QED
    BY <1>1
<1>5. Len(q) \in 0..Len(q) /\ SubSeq(q, 1, Len(q)) = q
  <2> HIDE DEF q
  <2> QED
    BY <1>1
<1>6. ASSUME NEW j \in DOMAIN (got \o q) PROVE (got \o q)[j] \notin ErrorItems(MaxResp)
  <2> HIDE DEF q
  <2>1. (got \o q)[j].k = "chunk"
    <3>1. CASE j \in 1..Len(got)
      BY <1>4, <3>1 DEF OnlyChunks
    <3>2. CASE j \notin 1..Len(got)
      <4>1. j - Len(got) \in 1..Len(q) /\ Len(got) + (j - Len(got)) = j
        BY <1>4, <3>2
      <4> QED
        BY <1>3, <1>4, <4>1 DEF OnlyChunks
    <3> QED
      BY <3>1, <3>2
  <2> QED
    BY <2>1 DEF ErrorItems
<1>7. /\ \A j \in DOMAIN (got \o SubSeq(q, 1, Len(q))) :
            (got \o SubSeq(q, 1, Len(q)))[j] \notin ErrorItems(MaxResp)
      /\ ResponsesLeft' = Append(SubSeq(q, 1, Len(q)), x)
  BY <1>3, <1>5, <1>6, Zenon
<1> QED
  BY <1>2, <1>5, <1>7 DEF ResponseStep, ResponsePipe!Cut

(* Nobody reads any more: what the caller's channel holds is left.         *)
LEMMA StopReading ==
    ASSUME TypeOK, TypeOK', ~ResponsesRead', got' = got, Begins(cResp', ResponsesLeft)
    PROVE  ResponseStep
<1>1. ~ResponsesOpen'
  BY DEF ResponsesOpen
<1>2. WirePart' = <<>> /\ SourcePart' = <<>>
  BY <1>1 DEF WirePart, SourcePart
<1>3. ResponsesLeft' = (cResp' \o WirePart') \o SourcePart' /\ cResp' \in Seq(Item)
  BY LeftAfter
<1>4. ResponsesLeft' = cResp'
  BY <1>2, <1>3, ConcatEmpty
<1> QED
  BY <1>1, <1>4, CutShort

(* The server sends no more: what the wire still carries is left.          *)
LEMMA StopSending ==
    ASSUME TypeOK, TypeOK', ResponsesRead' = ResponsesRead, ~ResponsesOpen',
           got' = got, cResp' = cResp, ResponsesRead => Begins(Items(s2c'), Items(s2c))
    PROVE  ResponseStep
<1>1. /\ ResponsesLeft = (cResp \o WirePart) \o SourcePart
      /\ cResp \in Seq(Item) /\ WirePart \in Seq(Item) /\ SourcePart \in Seq(Item)
      /\ cResp \o WirePart \in Seq(Item)
  BY LeftIs
<1>2. /\ ResponsesLeft' = (cResp' \o WirePart') \o SourcePart' /\ WirePart' \in Seq(Item)
      /\ cResp' \o WirePart' \in Seq(Item)
  BY LeftAfter
<1>3. SourcePart' = <<>>
  BY DEF SourcePart
<1>4. ResponsesLeft' = cResp \o WirePart'
  BY <1>2, <1>3, ConcatEmpty
<1>5. Begins(WirePart', WirePart)
  <2>1. CASE ResponsesRead
    BY <2>1 DEF WirePart
  <2>2. CASE ~ResponsesRead
    BY <1>1, <2>2, BeginsConcat DEF WirePart
  <2> QED
    BY <2>1, <2>2
<1>6. Begins(cResp \o WirePart', cResp \o WirePart)
  BY <1>1, <1>2, <1>5, BeginsConcat
<1>7. cResp \o WirePart' \in Seq(Item)
  BY <1>2
<1>8. Begins(cResp \o WirePart', (cResp \o WirePart) \o SourcePart)
  BY <1>1, <1>6, <1>7, BeginsConcat
<1>9. Begins(ResponsesLeft', ResponsesLeft)
  BY <1>1, <1>4, <1>8
<1> QED
  BY <1>9, CutShort

(* Nothing that the pipe is made of changes.                               *)
LEMMA PipeFrame ==
    ASSUME UNCHANGED <<call, cReceiver, got, cResp, inResp, s2c, lost, srv, hResp>>
    PROVE  ResponseStep
<1>1. ResponsesRead' = ResponsesRead /\ ResponsesOpen' = ResponsesOpen
  BY DEF ResponsesRead, ResponsesOpen
<1> QED
  BY <1>1 DEF ResponseStep, ResponsesLeft
-----------------------------------------------------------------------------
(* The open, and what ends it.                                             *)
LEMMA PipeOpens ==
    ASSUME TypeOK, TypeOK', RespInv, Open \/ Cancel
    PROVE  ResponseStep
<1> USE DEF callerVars, clientVars, wireVars, serverVars, handlerVars
<1>1. /\ cResp \in Seq(Item) /\ ResponsesLeft = (cResp \o WirePart) \o SourcePart
      /\ WirePart \in Seq(Item) /\ SourcePart \in Seq(Item) /\ cResp \o WirePart \in Seq(Item)
  BY LeftIs
<1>2. Begins(cResp, ResponsesLeft)
  <2>1. Begins(cResp, cResp \o WirePart)
    BY <1>1, BeginsConcat
  <2> QED
    BY <1>1, <2>1, BeginsConcat
<1>3. CASE call_streaming_live
  <2>1. /\ call = "opening" /\ s2c # <<>> /\ Head(s2c).k = "ack" /\ s2c' = Tail(s2c)
        /\ UNCHANGED <<got, cResp, lost, srv, hResp>>
        /\ inResp' = "run" /\ cReceiver' = "held"
    BY <1>3 DEF call_streaming_live
  <2>2. inResp = "off"
    BY <2>1 DEF RespInv, PhaseInv
  <2>3. ResponsesRead /\ ResponsesRead'
    BY <2>1, <2>2 DEF ResponsesRead
  <2>4. ResponsesOpen' = ResponsesOpen
    BY <2>1, <2>3 DEF ResponsesOpen
  <2>5. Items(Tail(s2c)) = Items(s2c)
    <3>1. s2c \in Seq(Frame) /\ s2c[1] = Head(s2c) /\ Len(s2c) \in Nat
      BY <2>1, RespTypes, TailAt
    <3>2. Leads(s2c[1]) /\ (Len(s2c) > 1 => ~Leads(s2c[2]))
      BY <2>1, <2>3, <3>1, ReadIs DEF Leads
    <3> QED
      BY <2>1, <3>1, <3>2, ItemsRead
  <2>6. WirePart' = WirePart /\ SourcePart' = SourcePart
    BY <2>1, <2>3, <2>4, <2>5 DEF WirePart, SourcePart
  <2>7. ResponsesLeft' = ResponsesLeft
    BY <2>1, <2>6, LeftIs, LeftAfter
  <2> QED
    BY <2>1, <2>4, <2>7 DEF ResponseStep
<1>4. CASE call_streaming_open /\ call' = "opening"
  <2>1. /\ call = "idle"
        /\ UNCHANGED <<cReceiver, got, cResp, inResp, s2c, lost, srv, hResp>>
    BY <1>4 DEF call_streaming_open
  <2>2. ResponsesRead' = ResponsesRead
    BY <1>4, <2>1 DEF ResponsesRead
  <2>3. ResponsesOpen' = ResponsesOpen
    BY <2>1, <2>2 DEF ResponsesOpen
  <2> QED
    BY <2>1, <2>2, <2>3 DEF ResponseStep, ResponsesLeft
<1>5. CASE ~call_streaming_live /\ ~(call_streaming_open /\ call' = "opening")
  <2>1. /\ call' \in {"failed", "cancelled"} /\ call # "live"
        /\ UNCHANGED <<cReceiver, got, cResp>>
    BY <1>5 DEF Open, Cancel, call_streaming_open, call_streaming_fails, CancelWhileWriting,
       CancelWhileOpening
  <2>2. ~ResponsesRead'
    BY <2>1 DEF RespInv, PhaseInv, ResponsesRead
  <2> QED
    BY <1>2, <2>1, <2>2, StopReading
<1> QED
  BY <1>3, <1>4, <1>5

(* The caller takes the first item of the pipe.                            *)
LEMMA PipeReceive ==
    ASSUME TypeOK, TypeOK', CallerReceive
    PROVE  ResponseStep
<1>1. /\ cResp # <<>> /\ got' = Append(got, Head(cResp)) /\ cResp' = Tail(cResp)
      /\ UNCHANGED <<call, cReceiver, inResp, s2c, lost, srv, hResp>>
  BY DEF CallerReceive, callerVars, clientVars, wireVars, serverVars, handlerVars
<1>2. ResponsesOpen' = ResponsesOpen /\ ResponsesRead' = ResponsesRead
  BY <1>1 DEF ResponsesOpen, ResponsesRead
<1>3. WirePart' = WirePart /\ SourcePart' = SourcePart
  BY <1>1, <1>2 DEF WirePart, SourcePart
<1>4. /\ ResponsesLeft = (cResp \o WirePart) \o SourcePart
      /\ cResp \in Seq(Item) /\ WirePart \in Seq(Item) /\ SourcePart \in Seq(Item)
      /\ cResp \o WirePart \in Seq(Item)
  BY LeftIs
<1>5. ResponsesLeft' = (Tail(cResp) \o WirePart) \o SourcePart
  BY <1>1, <1>3, LeftAfter
<1>6. /\ cResp \o WirePart # <<>> /\ Head(cResp \o WirePart) = Head(cResp)
      /\ Tail(cResp \o WirePart) = Tail(cResp) \o WirePart
  BY <1>1, <1>4, ConcatHead
<1> DEFINE c == cResp \o WirePart
<1>7. c \in Seq(Item) /\ c # <<>> /\ Head(c) = Head(cResp) /\ Tail(c) = Tail(cResp) \o WirePart
  BY <1>4, <1>6
<1> HIDE DEF c
<1>8. /\ c \o SourcePart # <<>> /\ Head(c \o SourcePart) = Head(c)
      /\ Tail(c \o SourcePart) = Tail(c) \o SourcePart
  BY <1>4, <1>7, ConcatHead
<1>9. /\ ResponsesLeft # <<>> /\ Head(ResponsesLeft) = Head(cResp)
      /\ Tail(ResponsesLeft) = ResponsesLeft'
  <2>1. ResponsesLeft = c \o SourcePart
    BY <1>4 DEF c
  <2> QED
    BY <1>5, <1>7, <1>8, <2>1
<1> QED
  BY <1>1, <1>2, <1>9 DEF ResponseStep, ResponsePipe!Get

(* The caller drops its receiver, and with it the channel.                 *)
LEMMA PipeDropped ==
    ASSUME TypeOK, TypeOK', RespInv, CallerDropReceiver
    PROVE  ResponseStep
<1>1. /\ cReceiver = "held" /\ cReceiver' = "gone" /\ cResp' = <<>>
      /\ UNCHANGED <<got, call>>
  BY DEF CallerDropReceiver, clientVars
<1>2. call = "live"
  BY <1>1 DEF RespInv, PhaseInv
<1>3. ~ResponsesRead'
  BY <1>1, <1>2 DEF ResponsesRead
<1>4. Begins(cResp', ResponsesLeft)
  BY <1>1, LeftIs, BeginsConcat
<1> QED
  BY <1>1, <1>3, <1>4, StopReading

(* pump_inbound_responses forwards an item, and may return upon it.        *)
LEMMA PipeForward ==
    ASSUME TypeOK, TypeOK', RespInv, pump_inbound_responses_forward
    PROVE  ResponseStep
<1> DEFINE x == ItemOf(Head(s2c))
           X == Items(s2c)
<1>1. /\ inResp = "run" /\ s2c # <<>> /\ ~IsEnd(Head(s2c)) /\ cReceiver = "held"
      /\ s2c' = Tail(s2c) /\ cResp' = Append(cResp, x)
      /\ UNCHANGED <<cReceiver, got, call, lost, srv, hResp>>
      /\ GoesOn(Head(s2c)) => inResp' = "run"
      /\ ~GoesOn(Head(s2c)) => inResp' = "err"
  BY DEF pump_inbound_responses_forward, ReturnInboundResponses, callerVars, serverVars, handlerVars
<1>2. call = "live" /\ ResponsesRead
  BY <1>1 DEF RespInv, PhaseInv, ResponsesRead
<1>3. /\ s2c \in Seq(Frame) /\ Len(s2c) \in Nat \ {0} /\ Head(s2c) = s2c[1]
      /\ s2c[1] \in Frame
  BY <1>1, RespTypes, TailAt
<1>4. IsItem(s2c[1]) /\ (Len(s2c) > 1 => ~Leads(s2c[2]))
  BY <1>1, <1>2, <1>3, ReadIs DEF IsItem, IsEnd, Leads
<1>5. X # <<>> /\ Head(X) = x /\ Tail(X) = Items(Tail(s2c))
  BY <1>1, <1>3, <1>4, ItemsRead
<1>6. /\ ResponsesLeft = (cResp \o X) \o SourcePart
      /\ cResp \in Seq(Item) /\ X \in Seq(Item) /\ SourcePart \in Seq(Item)
      /\ cResp \o X \in Seq(Item)
  BY <1>2, LeftIs DEF WirePart
<1> HIDE DEF x, X
<1>7. Append(cResp, x) \o Tail(X) = cResp \o X
  BY <1>5, <1>6, ShiftHead
<1>8. CASE GoesOn(Head(s2c))
  <2>1. ResponsesRead' /\ ResponsesOpen' = ResponsesOpen
    BY <1>1, <1>2, <1>8 DEF ResponsesRead, ResponsesOpen
  <2>2. WirePart' = Tail(X) /\ SourcePart' = SourcePart
    BY <1>1, <1>5, <2>1 DEF WirePart, SourcePart
  <2>3. ResponsesLeft' = ResponsesLeft
    BY <1>1, <1>6, <1>7, <2>2, LeftAfter
  <2> QED
    BY <1>1, <2>1, <2>3 DEF ResponseStep
<1>9. CASE ~GoesOn(Head(s2c))
  <2>1. ~ResponsesRead'
    BY <1>1, <1>9 DEF ResponsesRead
  <2>2. Append(cResp, x) \in Seq(Item) /\ Tail(X) \in Seq(Item)
    <3>1. x \in Item
      BY <1>1, <1>3, ItemOfType DEF x
    <3> QED
      BY <1>5, <1>6, <3>1, AppendAt, TailAt
  <2>3. Begins(Append(cResp, x), Append(cResp, x) \o Tail(X))
    BY <2>2, BeginsConcat
  <2>4. Begins(Append(cResp, x), ResponsesLeft)
    BY <1>6, <1>7, <2>2, <2>3, BeginsConcat
  <2> QED
    BY <1>1, <2>1, <2>4, StopReading
<1> QED
  BY <1>8, <1>9

(* It returns at the end of the stream, or because the caller has gone, or *)
(* after a failed read, which is the one error that is put in.             *)
LEMMA PipeReturns ==
    ASSUME TypeOK, TypeOK', RespInv,
           \/ pump_inbound_responses_gone \/ pump_inbound_responses_end
           \/ pump_inbound_responses_lost
    PROVE  ResponseStep
<1> USE DEF callerVars, clientVars, wireVars, serverVars, handlerVars
<1>1. /\ inResp = "run" /\ inResp' \in {"end", "eof", "err", "gone"}
      /\ UNCHANGED <<got, call, cReceiver>>
  BY DEF pump_inbound_responses_gone, pump_inbound_responses_end, pump_inbound_responses_lost,
     ReturnInboundResponses
<1>2. ~ResponsesRead' /\ ~ResponsesOpen'
  BY <1>1 DEF ResponsesRead, ResponsesOpen
<1>3. /\ ResponsesLeft = (cResp \o WirePart) \o SourcePart
      /\ cResp \in Seq(Item) /\ WirePart \in Seq(Item) /\ SourcePart \in Seq(Item)
      /\ cResp \o WirePart \in Seq(Item)
  BY LeftIs
<1>4. Begins(cResp, ResponsesLeft)
  <2>1. Begins(cResp, cResp \o WirePart)
    BY <1>3, BeginsConcat
  <2> QED
    BY <1>3, <2>1, BeginsConcat
<1>5. CASE cResp' = cResp
  BY <1>1, <1>2, <1>4, <1>5, StopReading
<1>6. CASE pump_inbound_responses_lost /\ cReceiver = "held"
  <2>1. s2c = <<>> /\ lost # {} /\ cResp' = Append(cResp, TransportReadErr)
    BY <1>6 DEF pump_inbound_responses_lost
  <2>2. ResponsesRead /\ ~ResponsesOpen
    BY <1>1, <1>6, <2>1 DEF ResponsesRead, ResponsesOpen
  <2>3. WirePart = <<>> /\ SourcePart = <<>>
    BY <2>1, <2>2, ItemsNone DEF WirePart, SourcePart
  <2>4. ResponsesLeft = cResp
    BY <1>3, <2>3, ConcatEmpty
  <2>5. WirePart' = <<>> /\ SourcePart' = <<>>
    BY <1>2 DEF WirePart, SourcePart
  <2>6. ResponsesLeft' = cResp'
    <3>1. ResponsesLeft' = (cResp' \o WirePart') \o SourcePart' /\ cResp' \in Seq(Item)
      BY LeftAfter
    <3> QED
      BY <2>5, <3>1, ConcatEmpty
  <2>7. TransportReadErr \in ErrorItems(MaxResp)
    BY ConstantsAssumption DEF TransportReadErr, ErrorItems, ItemKinds
  <2>8. OnlyChunks(got) /\ OnlyChunks(ResponsesLeft)
    BY <2>2, <2>4, ReadIs
  <2> QED
    BY <1>1, <1>2, <2>1, <2>4, <2>6, <2>7, <2>8, CutError
<1> QED
  BY <1>5, <1>6 DEF pump_inbound_responses_gone, pump_inbound_responses_end,
     pump_inbound_responses_lost, ReturnInboundResponses
-----------------------------------------------------------------------------
(* A frame that is no item, and FIN, add no item to a wire.                *)
LEMMA ItemsQuiet ==
    ASSUME NEW w \in Seq(Frame), NEW f \in Frame, ~IsItem(f), Leads(f) => w = <<>>
    PROVE  /\ Written(w, f) \in Seq(Frame) /\ Items(Written(w, f)) = Items(w)
           /\ Items(Finished(w)) = Items(w)
           /\ Items(Finished(Written(w, f))) = Items(w)
<1>1. \A v \in Seq(Frame) : Items(Finished(v)) = Items(v)
  <2> SUFFICES ASSUME NEW v \in Seq(Frame) PROVE Items(Finished(v)) = Items(v)
    OBVIOUS
  <2>1. F("fin") \in Frame /\ ~IsItem(F("fin")) /\ ~Leads(F("fin"))
    BY FType DEF F, IsItem, Leads
  <2>2. Items(Append(v, F("fin"))) = Items(v)
    BY <2>1, ItemsAppend
  <2> QED
    BY <2>2 DEF Finished, Written
<1>2. Written(w, f) \in Seq(Frame)
  BY WireType
<1>3. Items(Written(w, f)) = Items(w)
  BY ItemsAppend DEF Written
<1> QED
  BY <1>1, <1>2, <1>3

(* The open-request is answered.                                           *)
LEMMA PipeNegotiates ==
    ASSUME TypeOK, TypeOK', RespInv, Negotiate
    PROVE  ResponseStep
<1> USE DEF callerVars, clientVars, wireVars, serverVars, handlerVars
<1>1. /\ srv = "await" /\ s2c \in Seq(Frame)
      /\ UNCHANGED <<call, cReceiver, got, cResp, inResp, lost, hResp>>
  BY RespTypes DEF Negotiate, streaming_negotiate_open, streaming_negotiate_unknown,
     streaming_negotiate_fails
<1>2. s2c = <<>>
  BY <1>1, RespTypes DEF RespInv, PhaseInv
<1>3. /\ F("ack") \in Frame /\ ~IsItem(F("ack")) /\ F("nak") \in Frame /\ ~IsItem(F("nak"))
  BY FType DEF F, IsItem
<1>4. ResponsesRead' = ResponsesRead
  BY <1>1 DEF ResponsesRead
<1>5. CASE streaming_negotiate_open
  <2>1. s2c' = Written(s2c, F("ack")) /\ srv' = "drain"
    BY <1>5 DEF streaming_negotiate_open
  <2>2. Items(s2c') = Items(s2c)
    BY <1>1, <1>2, <1>3, <2>1, ItemsQuiet
  <2>3. ResponsesOpen' = ResponsesOpen
    BY <1>1, <1>4, <2>1 DEF ResponsesOpen
  <2>4. WirePart' = WirePart /\ SourcePart' = SourcePart
    BY <1>1, <1>4, <2>2, <2>3 DEF WirePart, SourcePart
  <2>5. ResponsesLeft' = ResponsesLeft
    BY <1>1, <2>4, LeftIs, LeftAfter
  <2> QED
    BY <1>1, <2>3, <2>5 DEF ResponseStep
<1>6. CASE streaming_negotiate_unknown \/ streaming_negotiate_fails
  <2>1. /\ srv' = "done"
        /\ \/ s2c' = s2c \/ s2c' = Finished(s2c) \/ s2c' = Finished(Written(s2c, F("nak")))
    BY <1>6 DEF streaming_negotiate_unknown, streaming_negotiate_fails
  <2>2. Items(s2c') = Items(s2c)
    <3>1. /\ Items(Finished(s2c)) = Items(s2c)
          /\ Items(Finished(Written(s2c, F("nak")))) = Items(s2c)
      BY <1>1, <1>2, <1>3, ItemsQuiet
    <3> QED
      BY <2>1, <3>1
  <2>3. Begins(Items(s2c'), Items(s2c))
    BY <1>1, <2>2, ItemsList, BeginsConcat
  <2>4. ~ResponsesOpen'
    BY <2>1 DEF ResponsesOpen
  <2> QED
    BY <1>1, <1>4, <2>3, <2>4, StopSending
<1> QED
  BY <1>5, <1>6 DEF Negotiate

(* What is on the wire of an open direction.                               *)
LEMMA CleanItems ==
    ASSUME TypeOK, RespInv, RespClean, ResponsesRead, lost = {}, srv \in {"drain", "join"}
    PROVE  /\ \A i \in (Lead(s2c) + 1)..Len(s2c) : s2c[i].k = "chunk" /\ IsItem(s2c[i])
           /\ OnlyChunks(Items(s2c))
<1>1. /\ s2c \in Seq(Frame) /\ Len(s2c) \in Nat
      /\ \A i \in 1..Len(s2c) : s2c[i].k \in {"ack", "chunk"}
      /\ \A i \in 2..Len(s2c) : ~Leads(s2c[i])
  BY RespTypes, ReadIs DEF RespClean
<1>2. Lead(s2c) \in {0, 1} /\ (Len(s2c) > 0 /\ Leads(s2c[1]) => Lead(s2c) = 1)
  <2>1. Len(s2c) > 0 => s2c # <<>>
    BY <1>1
  <2> QED
    BY <2>1 DEF Lead, Leads
<1>3. ASSUME NEW i \in (Lead(s2c) + 1)..Len(s2c) PROVE s2c[i].k = "chunk" /\ IsItem(s2c[i])
  <2>1. i \in 1..Len(s2c) /\ ~Leads(s2c[i])
    <3>1. CASE i = 1
      BY <1>1, <1>2, <3>1
    <3>2. CASE i # 1
      <4>1. i \in 2..Len(s2c) /\ i \in 1..Len(s2c)
        BY <1>1, <1>2, <3>2
      <4> QED
        BY <1>1, <4>1
    <3> QED
      BY <3>1, <3>2
  <2>2. s2c[i].k = "chunk"
    BY <1>1, <2>1 DEF Leads
  <2> QED
    BY <2>2 DEF IsItem
<1>4. OnlyChunks(Items(s2c))
  <2> DEFINE s == Items(s2c)
             b == Lead(s2c)
  <2>1. /\ s \in Seq(Item) /\ b + Len(s) <= Len(s2c)
        /\ \A i \in 1..Len(s) : s[i] = ItemOf(s2c[b + i])
    BY <1>1, ItemsList DEF Lists
  <2>2. \A i \in (b + 1)..Len(s2c) : s2c[i].k = "chunk"
    BY <1>3
  <2>3. b \in Nat
    BY <1>2
  <2> HIDE DEF s, b
  <2>4. ASSUME NEW i \in 1..Len(s) PROVE s[i].k = "chunk"
    <3>1. b + i \in (b + 1)..Len(s2c)
      BY <1>1, <2>1, <2>3
    <3>2. s2c[b + i].k = "chunk" /\ s[i] = ItemOf(s2c[b + i])
      BY <2>1, <2>2, <3>1
    <3> QED
      BY <3>2 DEF ItemOf
  <2>5. DOMAIN s = 1..Len(s)
    BY <2>1
  <2> QED
    BY <2>4, <2>5 DEF OnlyChunks, s
<1> QED
  BY <1>3, <1>4

(* drain_handler_responses moves one item on to the wire.                  *)
LEMMA PipeWrites ==
    ASSUME TypeOK, TypeOK', RespInv, RespClean, drain_handler_responses_write
    PROVE  ResponseStep
<1> USE DEF callerVars, clientVars, wireVars, serverVars, handlerVars
<1> DEFINE h == Head(hResp)
           X == Items(s2c)
           Y == Items(hResp)
<1>1. /\ srv = "drain" /\ hResp # <<>> /\ s2c' = Written(s2c, h)
      /\ UNCHANGED <<call, cReceiver, got, cResp, inResp, lost>>
      /\ h.k = "err" => srv' = "joinT"
      /\ h.k # "err" => srv' = "drain" /\ hResp' = Tail(hResp)
  BY DEF drain_handler_responses_write
<1>2. ResponsesRead' = ResponsesRead
  BY <1>1 DEF ResponsesRead
<1>3. CASE ~(ResponsesRead /\ lost = {})
  <2>1. ~ResponsesOpen /\ ~ResponsesOpen' /\ ResponsesOpen' = ResponsesOpen
    BY <1>1, <1>2, <1>3 DEF ResponsesOpen
  <2>2. ResponsesRead => s2c' = s2c
    BY <1>1, <1>3 DEF Written
  <2>3. WirePart' = WirePart /\ SourcePart' = SourcePart
    BY <1>2, <2>1, <2>2 DEF WirePart, SourcePart
  <2>4. ResponsesLeft' = ResponsesLeft
    BY <1>1, <2>3, LeftIs, LeftAfter
  <2> QED
    BY <1>1, <2>1, <2>4 DEF ResponseStep
<1>4. CASE ResponsesRead /\ lost = {}
  <2>1. ResponsesOpen
    BY <1>1, <1>4 DEF ResponsesOpen
  <2>2. /\ s2c \in Seq(Frame) /\ h \in Frame /\ IsItem(h) /\ ~Leads(h) /\ h = hResp[1]
        /\ hResp \in Seq(Frame) /\ Len(hResp) \in Nat
        /\ \A i \in 1..Len(hResp) : IsItem(hResp[i])
    <3>1. s2c \in Seq(Frame) /\ hResp \in Seq([k : RespKinds, n : Nat])
      BY RespTypes
    <3>2. h \in [k : RespKinds, n : Nat] /\ h = hResp[1] /\ Len(hResp) \in Nat
      BY <1>1, <3>1, TailAt
    <3> QED
      BY <3>1, <3>2, HandlerItems
  <2>3. Y # <<>> /\ Head(Y) = ItemOf(h) /\ Tail(Y) = Items(Tail(hResp))
    <3>1. Len(hResp) > 1 => ~Leads(hResp[2])
      <4> SUFFICES ASSUME Len(hResp) > 1 PROVE ~Leads(hResp[2])
        OBVIOUS
      <4>1. IsItem(hResp[2])
        BY <2>2
      <4> QED
        BY <4>1 DEF IsItem, Leads
    <3> QED
      BY <1>1, <2>2, <3>1, ItemsRead
  <2>4. Items(s2c') = Append(X, Head(Y))
    <3>1. s2c' = Append(s2c, h)
      BY <1>1, <1>4 DEF Written
    <3>2. \A i \in (Lead(s2c) + 1)..Len(s2c) : IsItem(s2c[i])
      BY <1>1, <1>4, CleanItems
    <3>3. Items(Append(s2c, h)) = Append(X, ItemOf(h))
      BY <2>2, <3>2, ItemsAppend
    <3> QED
      BY <2>3, <3>1, <3>3
  <2>5. /\ ResponsesLeft = (cResp \o X) \o Y
        /\ cResp \in Seq(Item) /\ X \in Seq(Item) /\ Y \in Seq(Item) /\ cResp \o X \in Seq(Item)
    BY <1>4, <2>1, LeftIs DEF WirePart, SourcePart
  <2> HIDE DEF h, X, Y
  <2>6. Head(Y) \in Item /\ Tail(Y) \in Seq(Item)
    BY <2>3, <2>5, TailAt
  <2> DEFINE c == cResp \o X
  <2>7. cResp \o Append(X, Head(Y)) = Append(c, Head(Y))
    BY <2>5, <2>6, AppendConcat
  <2>8. Append(c, Head(Y)) \o Tail(Y) = ResponsesLeft
    BY <2>3, <2>5, ShiftHead
  <2>9. Append(c, Head(Y)) \in Seq(Item)
    <3>1. c \in Seq(Item)
      BY <2>5
    <3> HIDE DEF c
    <3> QED
      BY <2>6, <3>1, AppendAt
  <2> HIDE DEF c
  <2>10. WirePart' = Append(X, Head(Y))
    BY <1>2, <1>4, <2>4 DEF WirePart
  <2>11. ResponsesLeft' = Append(c, Head(Y)) \o SourcePart'
    BY <1>1, <2>7, <2>10, LeftAfter
  <2>12. CASE h.k # "err"
    <3>1. ResponsesOpen' = ResponsesOpen
      BY <1>1, <1>2, <2>12 DEF ResponsesOpen
    <3>2. SourcePart' = Tail(Y)
      BY <1>1, <2>1, <2>3, <2>12, <3>1 DEF SourcePart
    <3> QED
      BY <1>1, <2>8, <2>11, <3>1, <3>2 DEF ResponseStep
  <2>13. CASE h.k = "err"
    <3>1. ~ResponsesOpen'
      BY <1>1, <2>13 DEF ResponsesOpen
    <3>2. ResponsesLeft' = Append(c, Head(Y))
      BY <2>9, <2>11, <3>1, ConcatEmpty DEF SourcePart
    <3>3. Begins(ResponsesLeft', ResponsesLeft)
      BY <2>6, <2>8, <2>9, <3>2, BeginsConcat
    <3> QED
      BY <1>1, <3>1, <3>3, CutShort
  <2> QED
    BY <2>12, <2>13
<1> QED
  BY <1>3, <1>4

(* The drain ends, or the substream is closed without another frame.       *)
LEMMA PipeEnds ==
    ASSUME TypeOK, TypeOK', RespInv,
           drain_handler_responses_fails \/ drain_handler_responses_end \/ skip_finalise
    PROVE  ResponseStep
<1> USE DEF callerVars, clientVars, wireVars, serverVars, handlerVars
<1>1. /\ srv' \in {"join", "joinT", "done"} /\ s2c \in Seq(Frame)
      /\ UNCHANGED <<call, cReceiver, got, cResp, inResp, lost>>
      /\ s2c' = s2c \/ s2c' = Finished(s2c)
  BY RespTypes DEF drain_handler_responses_fails, drain_handler_responses_end, skip_finalise,
     CloseSubstream
<1>2. ResponsesRead' = ResponsesRead /\ ~ResponsesOpen'
  BY <1>1 DEF ResponsesRead, ResponsesOpen
<1>3. Items(s2c') = Items(s2c)
  <2>1. F("end") \in Frame /\ ~IsItem(F("end")) /\ ~Leads(F("end"))
    BY FType DEF F, IsItem, Leads
  <2> QED
    BY <1>1, <2>1, ItemsQuiet
<1>4. Begins(Items(s2c'), Items(s2c))
  BY <1>1, <1>3, ItemsList, BeginsConcat
<1> QED
  BY <1>1, <1>2, <1>4, StopSending

(* finalise_streaming writes what the handler returned: nothing that the   *)
(* caller receives, or an error behind the chunks.                         *)
LEMMA PipeFinalises ==
    ASSUME TypeOK, TypeOK', RespInv, RespClean, finalise_streaming
    PROVE  ResponseStep
<1> USE DEF callerVars, clientVars, wireVars, serverVars, handlerVars
<1> DEFINE f == TerminalFrame(handler)
<1>1. /\ srv = "join" /\ srv' = "done" /\ s2c \in Seq(Frame)
      /\ UNCHANGED <<call, cReceiver, got, cResp, inResp, lost>>
      /\ s2c' = s2c \/ s2c' = Finished(Written(s2c, f))
  BY RespTypes DEF finalise_streaming, CloseSubstream, CanWrite
<1>2. ResponsesRead' = ResponsesRead /\ ~ResponsesOpen' /\ ~ResponsesOpen
  BY <1>1 DEF ResponsesRead, ResponsesOpen
<1>3. /\ f \in Frame /\ ~Leads(f) /\ f.n = 0
      /\ IF handler = "ok" THEN ~IsItem(f) ELSE IsItem(f) /\ f.k = "err"
  BY FType DEF TerminalFrame, F, IsItem, Leads
<1> HIDE DEF f
<1>4. Begins(Items(s2c), Items(s2c))
  BY <1>1, ItemsList, BeginsConcat
<1>5. CASE s2c' = s2c
  BY <1>1, <1>2, <1>4, <1>5, StopSending
<1>6. CASE s2c' = Finished(Written(s2c, f)) /\ ~(ResponsesRead /\ lost = {})
  <2>1. lost # {} => s2c' = s2c
    BY <1>6 DEF Finished, Written
  <2>2. ResponsesRead => Begins(Items(s2c'), Items(s2c))
    BY <1>4, <1>6, <2>1
  <2> QED
    BY <1>1, <1>2, <2>2, StopSending
<1>7. CASE s2c' = Finished(Written(s2c, f)) /\ handler = "ok"
  <2>1. Items(s2c') = Items(s2c)
    BY <1>1, <1>3, <1>7, ItemsQuiet
  <2> QED
    BY <1>1, <1>2, <1>4, <2>1, StopSending
<1>8. CASE s2c' = Finished(Written(s2c, f)) /\ ResponsesRead /\ lost = {} /\ handler # "ok"
  <2> DEFINE X == Items(s2c)
             x == ItemOf(f)
  <2>1. x \in ErrorItems(MaxResp) /\ x \in Item
    BY <1>3, <1>8, ItemOfType, ConstantsAssumption DEF ItemOf, ErrorItems, ItemKinds
  <2>2. /\ \A i \in (Lead(s2c) + 1)..Len(s2c) : IsItem(s2c[i])
        /\ OnlyChunks(X)
    BY <1>1, <1>8, CleanItems
  <2>3. Items(s2c') = Append(X, x)
    <3>1. Written(s2c, f) = Append(s2c, f) /\ Written(s2c, f) \in Seq(Frame)
      BY <1>1, <1>3, <1>8, WireType DEF Written
    <3>2. Items(Append(s2c, f)) = Append(X, x)
      BY <1>1, <1>3, <1>8, <2>2, ItemsAppend
    <3>3. F("end") \in Frame /\ ~IsItem(F("end")) /\ ~Leads(F("end"))
      BY FType DEF F, IsItem, Leads
    <3>4. Items(Finished(Written(s2c, f))) = Items(Written(s2c, f))
      BY <3>1, <3>3, ItemsQuiet
    <3> QED
      BY <1>8, <3>1, <3>2, <3>4
  <2>4. /\ cResp \in Seq(Item) /\ X \in Seq(Item) /\ cResp \o X \in Seq(Item)
        /\ ResponsesLeft = (cResp \o X) \o SourcePart
    BY <1>8, LeftIs DEF WirePart
  <2> HIDE DEF x, X
  <2>5. SourcePart = <<>> /\ SourcePart' = <<>> /\ WirePart' = Append(X, x)
    BY <1>2, <1>8, <2>3 DEF SourcePart, WirePart
  <2>6. ResponsesLeft = cResp \o X
    BY <2>4, <2>5, ConcatEmpty
  <2>7. ResponsesLeft' = cResp \o Append(X, x)
    <3>1. ResponsesLeft' = (cResp' \o WirePart') \o SourcePart' /\ cResp' \o WirePart' \in Seq(Item)
      BY LeftAfter
    <3>2. ResponsesLeft' = cResp' \o WirePart'
      BY <2>5, <3>1, ConcatEmpty
    <3> QED
      BY <1>1, <2>5, <3>2
  <2>8. ResponsesLeft' = Append(ResponsesLeft, x)
    BY <2>1, <2>4, <2>6, <2>7, AppendConcat
  <2>9. OnlyChunks(got) /\ OnlyChunks(ResponsesLeft)
    <3>1. OnlyChunks(got) /\ OnlyChunks(cResp) /\ OnlyChunks(X)
      BY <1>8, <2>2, ReadIs
    <3> DEFINE q == cResp \o X
    <3>2. /\ q \in Seq(Item) /\ Len(q) = Len(cResp) + Len(X)
          /\ Len(cResp) \in Nat /\ Len(X) \in Nat
          /\ \A i \in 1..Len(cResp) : q[i] = cResp[i]
          /\ \A i \in 1..Len(X) : q[Len(cResp) + i] = X[i]
      BY <2>4, ConcatAt
    <3> HIDE DEF q
    <3>3. DOMAIN q = 1..Len(q) /\ DOMAIN cResp = 1..Len(cResp) /\ DOMAIN X = 1..Len(X)
      BY <2>4, <3>2
    <3>4. ASSUME NEW i \in 1..Len(q) PROVE q[i].k = "chunk"
      <4>1. CASE i \in 1..Len(cResp)
        BY <3>1, <3>2, <3>3, <4>1 DEF OnlyChunks
      <4>2. CASE i \notin 1..Len(cResp)
        <5>1. i - Len(cResp) \in 1..Len(X) /\ Len(cResp) + (i - Len(cResp)) = i
          BY <3>2, <4>2
        <5>2. PICK j \in 1..Len(X) : Len(cResp) + j = i
          BY <5>1
        <5>3. q[i] = X[j]
          BY <3>2, <5>2
        <5>4. X[j].k = "chunk"
          BY <3>1, <3>3, <5>2 DEF OnlyChunks
        <5> QED
          BY <5>3, <5>4
      <4> QED
        BY <4>1, <4>2
    <3>5. OnlyChunks(q)
      BY <3>3, <3>4 DEF OnlyChunks
    <3> QED
      BY <2>6, <3>1, <3>5 DEF q
  <2> QED
    BY <1>1, <1>2, <2>1, <2>8, <2>9, CutError
<1> QED
  BY <1>1, <1>5, <1>6, <1>7, <1>8

(* The handler's sender puts one item into the pipe, while it is open.     *)
LEMMA PipeSends ==
    ASSUME TypeOK, TypeOK', NEW kind \in RespKinds, HandlerSend(kind)
    PROVE  ResponseStep
<1> USE DEF callerVars, clientVars, wireVars, serverVars, handlerVars
<1> DEFINE f == [k |-> kind, n |-> nResp + 1]
           x == ItemOf(f)
           Y == Items(hResp)
<1>1. /\ nResp \in Nat /\ nResp < MaxResp /\ hResp' = Append(hResp, f)
      /\ UNCHANGED <<call, cReceiver, got, cResp, inResp, s2c, lost, srv>>
  BY RespTypes DEF HandlerSend
<1>2. ResponsesRead' = ResponsesRead /\ ResponsesOpen' = ResponsesOpen
  BY <1>1 DEF ResponsesRead, ResponsesOpen
<1>3. WirePart' = WirePart
  BY <1>1, <1>2 DEF WirePart
<1>4. CASE ~ResponsesOpen
  <2>1. SourcePart' = SourcePart
    BY <1>2, <1>4 DEF SourcePart
  <2>2. ResponsesLeft' = ResponsesLeft
    BY <1>1, <1>3, <2>1, LeftIs, LeftAfter
  <2> QED
    BY <1>1, <1>2, <2>2 DEF ResponseStep
<1>5. CASE ResponsesOpen
  <2>1. f \in [k : RespKinds, n : Nat]
    BY <1>1
  <2>2. f \in Frame /\ IsItem(f) /\ ~Leads(f)
    BY <2>1, HandlerItems
  <2>3. x \in [k : ItemKinds, n : 1..MaxResp] /\ x \in Item
    BY <1>1, <2>2, ItemOfType, ConstantsAssumption DEF ItemOf, ItemKinds
  <2>4. Items(hResp') = Append(Y, x)
    <3>1. hResp \in Seq(Frame) /\ \A i \in (Lead(hResp) + 1)..Len(hResp) : IsItem(hResp[i])
      BY HandlerItems
    <3> HIDE DEF f
    <3>2. Items(Append(hResp, f)) = Append(Y, x)
      BY <2>2, <3>1, ItemsAppend
    <3> QED
      BY <1>1, <3>2
  <2>5. SourcePart = Y /\ SourcePart' = Append(Y, x)
    BY <1>2, <1>5, <2>4 DEF SourcePart
  <2> HIDE DEF x, Y, f
  <2>6. /\ ResponsesLeft = (cResp \o WirePart) \o Y
        /\ cResp \o WirePart \in Seq(Item) /\ Y \in Seq(Item)
    BY <2>5, LeftIs
  <2>7. ResponsesLeft' = (cResp \o WirePart) \o Append(Y, x)
    BY <1>1, <1>3, <2>5, LeftAfter
  <2>8. ResponsesLeft' = Append(ResponsesLeft, x)
    BY <2>3, <2>6, <2>7, AppendConcat
  <2> QED
    BY <1>1, <1>2, <1>5, <2>3, <2>8 DEF ResponseStep, ResponsePipe!Put
<1> QED
  BY <1>4, <1>5

(* The substream is stopped, or the connection fails.                      *)
LEMMA PipeBreaks ==
    ASSUME TypeOK, TypeOK', RespInv,
           DeliverStopS2C \/ \E side \in Failing : ConnectionLost(side)
    PROVE  ResponseStep
<1> USE DEF callerVars, clientVars, wireVars, serverVars, handlerVars
<1>1. s2c \in Seq(Frame) /\ UNCHANGED <<call, cReceiver, got, cResp, inResp, srv, hResp>>
  BY RespTypes DEF DeliverStopS2C, ConnectionLost
<1>2. ResponsesRead' = ResponsesRead
  BY <1>1 DEF ResponsesRead
<1>3. CASE DeliverStopS2C
  <2>1. s2cStop = "sent"
    BY <1>3 DEF DeliverStopS2C
  <2>2. ~ResponsesRead
    BY <2>1, ReadIs DEF RespInv, PhaseInv
  <2>3. ~ResponsesOpen'
    BY <1>2, <2>2 DEF ResponsesOpen
  <2> QED
    BY <1>1, <1>2, <2>2, <2>3, StopSending
<1>4. CASE \E side \in Failing : ConnectionLost(side)
  <2>1. /\ lost' # {}
        /\ s2c' = s2c \/ \E j \in 0..Len(s2c) : s2c' = SubSeq(s2c, 1, j)
    BY <1>4 DEF ConnectionLost
  <2>2. Begins(Items(s2c'), Items(s2c))
    <3>1. CASE s2c' = s2c
      BY <1>1, <3>1, ItemsList, BeginsConcat
    <3>2. CASE \E j \in 0..Len(s2c) : s2c' = SubSeq(s2c, 1, j)
      BY <1>1, <3>2, ItemsBegin
    <3> QED
      BY <2>1, <3>1, <3>2
  <2>3. ~ResponsesOpen'
    BY <2>1 DEF ResponsesOpen
  <2> QED
    BY <1>1, <1>2, <2>2, <2>3, StopSending
<1> QED
  BY <1>3, <1>4

(* Every step of the call is one of the pipe, or none.                     *)
LEMMA PipeSteps ==
    ASSUME TypeOK, TypeOK', RespInv, RespClean, [Next]_vars
    PROVE  ResponseStep
<1> USE DEF callerVars, clientVars, wireVars, serverVars, handlerVars
<1>1. CASE Open \/ Cancel
  BY <1>1, PipeOpens
<1>2. CASE Caller
  <2>1. CASE CallerDropSender \/ \E kind \in ReqKinds : CallerSend(kind)
    BY <2>1, PipeFrame DEF CallerDropSender, CallerSend
  <2> QED
    BY <1>2, <2>1, PipeReceive, PipeDropped DEF Caller
<1>3. CASE pump_outbound_requests \/ pump_inbound_requests
  BY <1>3, PipeFrame
     DEF pump_outbound_requests, pump_outbound_requests_chunk, pump_outbound_requests_fails,
         pump_outbound_requests_end, pump_inbound_requests, pump_inbound_requests_forward,
         pump_inbound_requests_gone, pump_inbound_requests_end, pump_inbound_requests_lost
<1>4. CASE pump_inbound_responses
  BY <1>4, PipeForward, PipeReturns DEF pump_inbound_responses
<1>5. CASE Negotiate
  BY <1>5, PipeNegotiates
<1>6. CASE handle_streaming_substream
  BY <1>6, PipeWrites, PipeEnds, PipeFinalises DEF handle_streaming_substream
<1>7. CASE Handler
  <2>1. CASE \/ HandlerReceive \/ HandlerDropRequests \/ HandlerDropSender
             \/ \E result \in {"ok", "err", "panic"} : HandlerReturn(result)
    BY <2>1, PipeFrame DEF HandlerReceive, HandlerDropRequests, HandlerDropSender, HandlerReturn
  <2> QED
    BY <1>7, <2>1, PipeSends DEF Handler
<1>8. CASE Transport
  <2>1. CASE DeliverStopC2S
    BY <2>1, PipeFrame DEF DeliverStopC2S
  <2> QED
    BY <1>8, <2>1, PipeBreaks DEF Transport
<1>9. CASE UNCHANGED vars
  BY <1>9, PipeFrame DEF vars
<1> QED
  BY <1>1, <1>2, <1>3, <1>4, <1>5, <1>6, <1>7, <1>8, <1>9 DEF Next

(* From the response sender that the handler is given to the stream that   *)
(* call_streaming returns, the responses are one FIFO pipe that can be     *)
(* cut: drain_handler_responses, the substream, pump_inbound_responses and *)
(* finalise_streaming lose nothing but a suffix, put at most one error in  *)
(* its place, and deliver nothing that was sent after a cut.  This is for  *)
(* handlers that send no chunk above MAX_STREAMING_PAYLOAD_LEN.            *)
THEOREM ResponsesImplementPipe ==
    ASSUME NoneTooBig
    PROVE  Spec => ResponsesAreAPipe
<1>1. Init => ResponsePipe!PipeInit
  <2> SUFFICES ASSUME Init PROVE ResponsePipe!PipeInit
    OBVIOUS
  <2>1. /\ cResp = <<>> /\ s2c = <<>> /\ hResp = <<>> /\ got = <<>> /\ srv = "await"
        /\ inResp = "off" /\ call = "idle" /\ lost = {}
    BY DEF Init
  <2>2. ResponsesRead = TRUE /\ ResponsesOpen = TRUE
    BY <2>1 DEF ResponsesRead, ResponsesOpen
  <2>3. ResponsesLeft = <<>> \o <<>> \o <<>>
    BY <2>1, <2>2, ItemsNone DEF ResponsesLeft
  <2>4. <<>> \o <<>> = <<>>
    OBVIOUS
  <2> QED
    BY <2>1, <2>2, <2>3, <2>4 DEF ResponsePipe!PipeInit
<1>2. TypeOK /\ TypeOK' /\ RespInv /\ RespClean /\ [Next]_vars
        => [ResponsePipe!Put \/ ResponsePipe!Get \/ ResponsePipe!Cut]_
             <<ResponsesLeft, got, ResponsesOpen>>
  BY PipeSteps DEF ResponseStep
<1> QED
  BY <1>1, <1>2, ResponsesClean, ResponseInvariant, TypeCorrect, PTL
     DEF Spec, ResponsesAreAPipe, ResponsePipe!PipeSpec
=============================================================================
