----------------------------- MODULE UnaryProofs -----------------------------
(***************************************************************************)
(* Proofs about UnaryCall, for any number of calls, any outcomes of the    *)
(* handlers and any number of connections.                                 *)
(***************************************************************************)
EXTENDS UnaryCall, TLAPS

IoErrors == {"TransportRead", "TransportWrite"}

(* The client's side: what a call has done when it is at a certain point.  *)
Client(k) ==
    /\ call[k] \in {"idle", "writing", "reading"} => res[k] = "none"
    /\ call[k] = "idle" => sub[k] = "nothing"
    /\ call[k] \in {"writing", "reading", "evicting"} => on[k] # 0
    /\ call[k] = "writing" => sub[k] \in {"nothing", "part"}
    /\ call[k] = "evicting" => res[k] \in IoErrors
    /\ sub[k] = "torn" => call[k] = "cancelled"
    /\ res[k] \in IoErrors => on[k] # 0 /\ call[k] \in {"evicting", "done", "cancelled"}
    /\ res[k] = "Ok" => call[k] = "done"

(* The server's side: the task has run on what the request half holds, or  *)
(* has dropped it unread, and what it sends is what it made of it.         *)
Task(k) ==
    /\ srv[k] = "none" => ran[k] = "nothing" /\ out[k] = "none" /\ reply[k] = "nothing"
    /\ srv[k] # "none" /\ ~stopped[k] => sub[k] \in {"whole", "torn"}
    /\ srv[k] = "running" => ran[k] # "nothing"
    /\ srv[k] \in {"running", "answering"} => reply[k] \in {"nothing", "part"}
    /\ stopped[k] => srv[k] = "done" /\ ran[k] = "nothing" /\ reply[k] \in {"nothing", "fin"}
    /\ ran[k] # "nothing" => ran[k] = sub[k]
    /\ out[k] = "ok" => ran[k] # "nothing"
    /\ reply[k] = "ok" => out[k] = "ok"

(* What a transport error of a call is due to, and that it stays so: the   *)
(* connection is closed for good, or the task has ended.                   *)
Cause(k) ==
    res[k] \in IoErrors =>
        \/ link[on[k]] = "closed" /\ reply[k] \in {"nothing", "part"}
        \/ srv[k] = "done" /\ reply[k] \in {"nothing", "part", "huge"}
        \/ stopped[k] /\ reply[k] = "fin"

(* An answer that has been returned stays what the task has sent.          *)
Answer(k) == res[k] = "Ok" => ran[k] = "whole" /\ out[k] = "ok" /\ reply[k] = "ok"

CallInv(k) == Client(k) /\ Task(k) /\ Cause(k) /\ Answer(k)

UnaryInv == TypeOK /\ (\A k \in Calls : CallInv(k)) /\ FailedConnectionForgotten

-----------------------------------------------------------------------------
(* What decode_response_frame makes of a response, by what arrived.        *)
LEMMA Decoded ==
    ASSUME NEW r \in WireError \cup {"fin", "ok", "huge"}
    PROVE  /\ decode_response_frame(r) \in RpcError \cup {"Ok"}
           /\ decode_response_frame(r) = "Ok" <=> r = "ok"
           /\ decode_response_frame(r) \in IoErrors <=> r = "huge"
<1>1. CASE r = "fin"
  BY <1>1 DEF decode_response_frame, RpcError, TransportErrors, IoErrors
<1>2. CASE r = "ok"
  BY <1>2 DEF decode_response_frame, IoErrors
<1>3. CASE r = "huge"
  BY <1>3 DEF decode_response_frame, RpcError, TransportErrors, IoErrors
<1>4. CASE r \in WireError
  <2>1. r \notin {"fin", "ok", "huge"}
    BY <1>4 DEF WireError
  <2>2. decode_response_frame(r) = into_rpc_error(r)
    BY <2>1 DEF decode_response_frame
  <2>3. into_rpc_error(r) \in {"UnknownMethod", "VersionMismatch", "InvalidMethodName",
                               "MalformedFrame", "Handler"}
    BY <1>4 DEF into_rpc_error, WireError
  <2> QED
    BY <2>1, <2>2, <2>3 DEF RpcError, IoErrors
<1> QED
  BY <1>1, <1>2, <1>3, <1>4

(* What crosses the wire is a WireError.                                   *)
LEMMA Encoded == \A err : from_rpc_error(err) \in WireError
  BY DEF from_rpc_error, WireError

(* What a call that returns has become.                                    *)
LEMMA Returned ==
    ASSUME TypeOK, NEW k \in Calls, NEW r \in RpcError \cup {"Ok"}, Returns(k, r)
    PROVE  /\ call' \in [Calls -> {"idle", "writing", "reading", "evicting", "done",
                                   "cancelled"}]
           /\ res' \in [Calls -> RpcError \cup {"none", "Ok"}]
           /\ res'[k] = r
           /\ call'[k] = IF k \in Unary /\ r \in IoErrors THEN "evicting" ELSE "done"
           /\ \A j \in Calls \ {k} : call'[j] = call[j] /\ res'[j] = res[j]
  BY DEF TypeOK, Returns, is_transport_io_error, IoErrors

(* A step preserves the types.                                             *)
LEMMA TypeStep == TypeOK /\ [Next]_vars => TypeOK'
<1> SUFFICES ASSUME TypeOK, [Next]_vars PROVE TypeOK'
  OBVIOUS
<1>0. {"TransportOpenSubstream", "TransportRead", "TransportWrite", "UnknownMethod",
       "MalformedFrame"} \subseteq RpcError
  BY DEF RpcError, TransportErrors
<1> USE UnaryAssumption DEF TypeOK, connVars, callVars, streamVars
<1>1. ASSUME NEW k \in Calls, CallStep(k) PROVE TypeOK'
  <2>1. CASE open_substream_cached(k)
    BY <2>1 DEF open_substream_cached
  <2>2. CASE open_substream_stale(k)
    BY <2>2, <1>0 DEF open_substream_stale
  <2>3. CASE open_substream_dial(k)
    BY <2>3 DEF open_substream_dial
  <2>4. CASE open_substream_unreachable(k)
    BY <2>4, <1>0 DEF open_substream_unreachable
  <2>5. CASE write_all_part(k)
    BY <2>5 DEF write_all_part
  <2>6. CASE write_all_finish(k)
    BY <2>6 DEF write_all_finish
  <2>7. CASE write_all_fails(k)
    BY <2>7, <1>0, Returned DEF write_all_fails
  <2>8. CASE read_to_end(k)
    <3>1. reply[k] \in WireError \cup {"fin", "ok", "huge"}
      BY <2>8 DEF read_to_end
    <3>2. decode_response_frame(reply[k]) \in RpcError \cup {"Ok"}
      BY <3>1, Decoded
    <3> QED
      BY <2>8, <3>2, Returned DEF read_to_end
  <2>9. CASE read_to_end_fails(k)
    BY <2>9, <1>0, Returned DEF read_to_end_fails
  <2>10. CASE evict_cached_connection(k)
    BY <2>10 DEF evict_cached_connection
  <2>11. CASE Cancel(k)
    BY <2>11 DEF Cancel
  <2>12. CASE dispatch_unary(k)
    BY <2>12 DEF dispatch_unary, RequestRead
  <2>13. CASE dispatch_unary_unknown(k)
    BY <2>13, <1>0 DEF dispatch_unary_unknown, RequestRead
  <2>14. CASE streaming_negotiate_open(k)
    <3>1. out' \in [Calls -> RpcError \cup {"none", "ok", "huge", "panic"}]
      <4>1. CASE out' = [out EXCEPT ![k] = "ok"]
        BY <4>1
      <4>2. CASE out' = [out EXCEPT ![k] = "UnknownMethod"]
        BY <4>2, <1>0
      <4> QED
        BY <4>1, <4>2, <2>14 DEF streaming_negotiate_open
    <3>2. ran' \in [Calls -> {"nothing", "torn", "whole"}]
      BY <2>14 DEF streaming_negotiate_open
    <3> QED
      BY <2>14, <3>1, <3>2 DEF streaming_negotiate_open
  <2>15. CASE read_request_fails(k)
    BY <2>15 DEF read_request_fails
  <2>16. CASE write_response(k)
    BY <2>16, Encoded DEF write_response
  <2>17. CASE write_response_part(k)
    BY <2>17 DEF write_response_part
  <2>18. CASE \E outcome \in Outcomes : HandlerReturns(k, outcome)
    <3> PICK outcome \in Outcomes : HandlerReturns(k, outcome)
      BY <2>18
    <3>1. outcome \in RpcError \cup {"none", "ok", "huge", "panic"}
      OBVIOUS
    <3>2. out' \in [Calls -> RpcError \cup {"none", "ok", "huge", "panic"}]
      BY <3>1 DEF HandlerReturns
    <3>6. \/ /\ srv' = [srv EXCEPT ![k] = "done"]
             /\ reply' = [reply EXCEPT ![k] = IF Up(k) THEN "fin" ELSE @]
          \/ srv' = [srv EXCEPT ![k] = "answering"] /\ reply' = reply
      BY DEF HandlerReturns
    <3>3. srv' \in [Calls -> {"none", "running", "answering", "done"}]
      BY <3>6
    <3>4. reply' \in [Calls -> WireError \cup {"nothing", "part", "fin", "ok", "huge"}]
      <4>1. CASE reply' = [reply EXCEPT ![k] = IF Up(k) THEN "fin" ELSE @]
        BY <4>1
      <4>2. CASE reply' = reply
        BY <4>2
      <4> QED
        BY <3>6, <4>1, <4>2
    <3>5. UNCHANGED <<connVars, callVars, sub, stopped, ran>>
      BY DEF HandlerReturns
    <3> QED
      BY <3>2, <3>3, <3>4, <3>5
  <2> QED
    BY <1>1, <2>1, <2>2, <2>3, <2>4, <2>5, <2>6, <2>7, <2>8, <2>9, <2>10, <2>11, <2>12, <2>13,
       <2>14, <2>15, <2>16, <2>17, <2>18
    DEF CallStep, open_substream, call_inner, ServerStep
<1>2. CASE \E n \in 1..MaxDials : LinkStep(n)
  BY <1>2 DEF LinkStep, Cut, IdleTimeout, PeerCloses
<1>3. CASE UNCHANGED vars
  BY <1>3 DEF vars
<1> QED
  BY <1>1, <1>2, <1>3 DEF Next

(* A step of one call leaves the others alone, except for the cache and    *)
(* the connections.                                                        *)
LEMMA OthersUnchanged ==
    ASSUME TypeOK, NEW k \in Calls, CallStep(k), NEW j \in Calls, j # k
    PROVE  /\ call'[j] = call[j] /\ on'[j] = on[j] /\ res'[j] = res[j]
           /\ sub'[j] = sub[j] /\ stopped'[j] = stopped[j] /\ srv'[j] = srv[j]
           /\ ran'[j] = ran[j] /\ out'[j] = out[j] /\ reply'[j] = reply[j]
<1> USE DEF TypeOK, connVars, callVars, streamVars
<1>1. CASE open_substream_cached(k)
  BY <1>1 DEF open_substream_cached
<1>2. CASE open_substream_stale(k)
  BY <1>2 DEF open_substream_stale
<1>3. CASE open_substream_dial(k)
  BY <1>3 DEF open_substream_dial
<1>4. CASE open_substream_unreachable(k)
  BY <1>4 DEF open_substream_unreachable
<1>5. CASE write_all_part(k)
  BY <1>5 DEF write_all_part
<1>6. CASE write_all_finish(k)
  BY <1>6 DEF write_all_finish
<1>7. CASE write_all_fails(k)
  BY <1>7 DEF write_all_fails, Returns
<1>8. CASE read_to_end(k)
  BY <1>8 DEF read_to_end, Returns
<1>9. CASE read_to_end_fails(k)
  BY <1>9 DEF read_to_end_fails, Returns
<1>10. CASE evict_cached_connection(k)
  BY <1>10 DEF evict_cached_connection
<1>11. CASE Cancel(k)
  BY <1>11 DEF Cancel
<1>12. CASE dispatch_unary(k)
  BY <1>12 DEF dispatch_unary, RequestRead
<1>13. CASE dispatch_unary_unknown(k)
  BY <1>13 DEF dispatch_unary_unknown, RequestRead
<1>14. CASE streaming_negotiate_open(k)
  BY <1>14 DEF streaming_negotiate_open
<1>15. CASE read_request_fails(k)
  BY <1>15 DEF read_request_fails
<1>16. CASE write_response(k)
  BY <1>16 DEF write_response
<1>17. CASE write_response_part(k)
  BY <1>17 DEF write_response_part
<1>18. CASE \E outcome \in Outcomes : HandlerReturns(k, outcome)
  BY <1>18 DEF HandlerReturns
<1> QED
  BY <1>1, <1>2, <1>3, <1>4, <1>5, <1>6, <1>7, <1>8, <1>9, <1>10, <1>11, <1>12, <1>13, <1>14,
     <1>15, <1>16, <1>17, <1>18
  DEF CallStep, open_substream, call_inner, ServerStep

(* A connection that is closed stays so, and the cache only ever holds the *)
(* connection it held, none, or one that has just been dialled.            *)
LEMMA Connections ==
    ASSUME TypeOK, [Next]_vars
    PROVE  /\ dialled <= dialled'
           /\ cache' \in {cache, 0, dialled + 1}
           /\ \A n \in 1..dialled : link[n] = "closed" => link'[n] = "closed"
<1> USE UnaryAssumption DEF TypeOK, connVars, callVars, streamVars
<1>1. CASE UNCHANGED connVars
  BY <1>1
<1>2. ASSUME NEW k \in Calls, open_substream_stale(k) \/ evict_cached_connection(k)
      PROVE  cache' = 0 /\ UNCHANGED <<dialled, link>>
  BY <1>2 DEF open_substream_stale, evict_cached_connection
<1>3. ASSUME NEW k \in Calls, open_substream_dial(k)
      PROVE  /\ dialled' = dialled + 1 /\ cache' = dialled + 1
             /\ link' = [link EXCEPT ![dialled + 1] = "up"]
  BY <1>3 DEF open_substream_dial
<1>4. ASSUME NEW k \in Calls, CallStep(k)
      PROVE  \/ open_substream_stale(k) \/ evict_cached_connection(k)
             \/ open_substream_dial(k) \/ UNCHANGED connVars
  BY <1>4 DEF CallStep, open_substream, call_inner, ServerStep, open_substream_cached,
     open_substream_stale, open_substream_dial, open_substream_unreachable, write_all_part,
     write_all_finish, write_all_fails, read_to_end, read_to_end_fails, evict_cached_connection,
     Cancel, dispatch_unary, dispatch_unary_unknown, RequestRead,
     streaming_negotiate_open,
     read_request_fails, write_response, write_response_part, HandlerReturns
<1>5. CASE \E n \in 1..MaxDials : LinkStep(n)
  BY <1>5 DEF LinkStep, Cut, IdleTimeout, PeerCloses
<1>6. CASE UNCHANGED vars
  BY <1>6, <1>1 DEF vars
<1> QED
  BY <1>1, <1>2, <1>3, <1>4, <1>5, <1>6 DEF Next

(* What a call's own step makes of what is known about it.                 *)
LEMMA OwnStep ==
    ASSUME TypeOK, NEW k \in Calls, CallInv(k), CallStep(k)
    PROVE  CallInv(k)'
<1> USE UnaryAssumption
    DEF TypeOK, connVars, callVars, streamVars, CallInv, Client, Task, Cause, Answer, IoErrors
<1>1. CASE open_substream_cached(k)
  BY <1>1 DEF open_substream_cached
<1>2. CASE open_substream_stale(k)
  BY <1>2 DEF open_substream_stale
<1>3. CASE open_substream_dial(k)
  BY <1>3 DEF open_substream_dial
<1>4. CASE open_substream_unreachable(k)
  BY <1>4 DEF open_substream_unreachable
<1>5. CASE write_all_part(k)
  BY <1>5 DEF write_all_part
<1>6. CASE write_all_finish(k)
  BY <1>6 DEF write_all_finish
<1>7. CASE write_all_fails(k)
  BY <1>7 DEF write_all_fails, Returns, is_transport_io_error
<1>8. CASE read_to_end(k)
  <2>1. reply[k] \in WireError \cup {"fin", "ok", "huge"}
    BY <1>8 DEF read_to_end
  <2> DEFINE r == decode_response_frame(reply[k])
  <2>2. /\ r \in RpcError \cup {"Ok"}
        /\ r = "Ok" <=> reply[k] = "ok"
        /\ r \in {"TransportRead", "TransportWrite"} <=> reply[k] = "huge"
    BY <2>1, Decoded
  <2>3. "none" \notin RpcError /\ "Ok" \notin RpcError
    BY DEF RpcError, TransportErrors
  <2>4. /\ res'[k] = r /\ call'[k] \in {"evicting", "done"}
        /\ call'[k] = "evicting" => r \in {"TransportRead", "TransportWrite"}
        /\ r = "Ok" => call'[k] = "done"
        /\ UNCHANGED <<connVars, on, streamVars>>
    BY <1>8, <2>2, Returned DEF read_to_end
  <2> HIDE DEF r
  <2>5. call[k] = "reading" /\ reply[k] \notin {"nothing", "part"}
    BY <1>8 DEF read_to_end
  <2>6. Client(k)'
    BY <2>2, <2>3, <2>4, <2>5
  <2>7. Task(k)'
    BY <2>4
  <2>8. Cause(k)'
    BY <2>2, <2>4, <2>5
  <2>9. Answer(k)'
    BY <2>2, <2>3, <2>4, <2>5
  <2> QED
    BY <2>6, <2>7, <2>8, <2>9
<1>9. CASE read_to_end_fails(k)
  BY <1>9 DEF read_to_end_fails, Returns, is_transport_io_error
<1>10. CASE evict_cached_connection(k)
  BY <1>10 DEF evict_cached_connection
<1>11. CASE Cancel(k)
  BY <1>11 DEF Cancel
<1>12. CASE dispatch_unary(k)
  BY <1>12 DEF dispatch_unary, RequestRead
<1>13. CASE dispatch_unary_unknown(k)
  BY <1>13 DEF dispatch_unary_unknown, RequestRead
<1>14. CASE streaming_negotiate_open(k)
  BY <1>14 DEF streaming_negotiate_open
<1>15. CASE read_request_fails(k)
  BY <1>15 DEF read_request_fails
<1>16. CASE write_response(k)
  <2>1. /\ srv[k] = "answering" /\ srv'[k] = "done"
        /\ ~Up(k) => reply'[k] = reply[k]
        /\ Up(k) /\ out[k] \in {"ok", "huge"} => reply'[k] = out[k]
        /\ Up(k) /\ out[k] \notin {"ok", "huge"} => reply'[k] \in WireError
        /\ UNCHANGED <<connVars, callVars, sub, stopped, ran, out>>
    BY <1>16, Encoded DEF write_response
  <2>2. reply'[k] = "ok" => out[k] = "ok"
    BY <2>1 DEF WireError
  <2>3. ~Up(k) <=> link[on[k]] # "up"
    BY DEF Up
  <2> QED
    BY <2>1, <2>2, <2>3
<1>17. CASE write_response_part(k)
  BY <1>17 DEF write_response_part
<1>18. CASE \E outcome \in Outcomes : HandlerReturns(k, outcome)
  <2> PICK outcome \in Outcomes : HandlerReturns(k, outcome)
    BY <1>18
  <2>1. /\ srv[k] = "running" /\ srv'[k] \in {"answering", "done"} /\ out'[k] = outcome
        /\ reply'[k] = reply[k] \/ (Up(k) /\ reply'[k] = "fin" /\ srv'[k] = "done")
        /\ UNCHANGED <<connVars, callVars, sub, stopped, ran>>
    <3>1. CASE outcome = "panic"
      BY <3>1 DEF HandlerReturns
    <3>2. CASE outcome # "panic"
      BY <3>2 DEF HandlerReturns
    <3> QED
      BY <3>1, <3>2
  <2>2. Up(k) <=> link[on[k]] = "up"
    BY DEF Up
  <2> QED
    BY <2>1, <2>2
<1> HIDE DEF CallInv
<1> QED
  BY <1>1, <1>2, <1>3, <1>4, <1>5, <1>6, <1>7, <1>8, <1>9, <1>10, <1>11, <1>12, <1>13, <1>14,
     <1>15, <1>16, <1>17, <1>18
  DEF CallStep, open_substream, call_inner, ServerStep

(* What is known about a call survives every step.                         *)
LEMMA CallInvStep ==
    ASSUME TypeOK, \A k \in Calls : CallInv(k), [Next]_vars, NEW j \in Calls
    PROVE  CallInv(j)'
<1>1. ASSUME /\ call'[j] = call[j] /\ on'[j] = on[j] /\ res'[j] = res[j]
             /\ sub'[j] = sub[j] /\ stopped'[j] = stopped[j] /\ srv'[j] = srv[j]
             /\ ran'[j] = ran[j] /\ out'[j] = out[j] /\ reply'[j] = reply[j]
      PROVE  CallInv(j)'
  <2>1. CallInv(j)
    OBVIOUS
  <2>2. Client(j)' /\ Task(j)' /\ Answer(j)'
    BY <1>1, <2>1 DEF CallInv, Client, Task, Answer
  <2>3. res[j] \in IoErrors => on[j] \in 1..dialled
    BY <2>1 DEF CallInv, Client, TypeOK
  <2>4. Cause(j)'
    BY <1>1, <2>1, <2>3, Connections DEF CallInv, Cause
  <2> QED
    BY <2>2, <2>4 DEF CallInv
<1>2. ASSUME NEW k \in Calls, CallStep(k) PROVE CallInv(j)'
  <2>1. CASE j = k
    BY <1>2, <2>1, OwnStep
  <2>2. CASE j # k
    BY <1>1, <1>2, <2>2, OthersUnchanged
  <2> QED
    BY <2>1, <2>2
<1>3. CASE \E n \in 1..MaxDials : LinkStep(n)
  <2>1. UNCHANGED <<callVars, streamVars>>
    BY <1>3 DEF LinkStep, Cut, IdleTimeout, PeerCloses
  <2> QED
    BY <1>1, <2>1 DEF callVars, streamVars
<1>4. CASE UNCHANGED vars
  BY <1>1, <1>4 DEF vars, callVars, streamVars
<1> QED
  BY <1>2, <1>3, <1>4 DEF Next

(* Only the eviction lets a unary call return a transport error, and the   *)
(* number of its connection is never in the cache again.                   *)
LEMMA ForgottenStep ==
    TypeOK /\ (\A k \in Calls : CallInv(k)) /\ FailedConnectionForgotten /\ [Next]_vars
      => FailedConnectionForgotten'
<1> SUFFICES ASSUME TypeOK, \A k \in Calls : CallInv(k), FailedConnectionForgotten,
                    [Next]_vars, NEW j \in Unary,
                    call'[j] = "done", res'[j] \in IoErrors
             PROVE  cache' # on'[j]
  BY DEF FailedConnectionForgotten, Forgotten, IoErrors
<1>0. j \in Calls /\ CallInv(j)
  BY DEF Calls
<1>1. ASSUME call'[j] = call[j], res'[j] = res[j], on'[j] = on[j] PROVE cache' # on'[j]
  <2>1. cache # on[j]
    BY <1>1 DEF FailedConnectionForgotten, Forgotten, IoErrors
  <2>2. on[j] \in 1..dialled
    BY <1>0, <1>1 DEF CallInv, Client, TypeOK
  <2> QED
    BY <1>1, <2>1, <2>2, Connections DEF TypeOK
<1>2. ASSUME CallStep(j) PROVE cache' # on'[j]
  <2> USE <1>0 DEF TypeOK, connVars, callVars, streamVars
  <2>1. CASE open_substream_cached(j)
    BY <2>1 DEF open_substream_cached
  <2>2. CASE open_substream_stale(j)
    BY <2>2 DEF open_substream_stale, IoErrors
  <2>3. CASE open_substream_dial(j)
    BY <2>3 DEF open_substream_dial
  <2>4. CASE open_substream_unreachable(j)
    BY <2>4 DEF open_substream_unreachable, IoErrors
  <2>5. CASE write_all_finish(j)
    BY <2>5 DEF write_all_finish
  <2>6. CASE write_all_fails(j) \/ read_to_end(j) \/ read_to_end_fails(j)
    BY <2>6 DEF write_all_fails, read_to_end, read_to_end_fails, Returns,
                is_transport_io_error, IoErrors
  <2>7. CASE evict_cached_connection(j)
    BY <2>7 DEF evict_cached_connection, CallInv, Client
  <2>8. CASE Cancel(j)
    BY <2>8 DEF Cancel
  <2>9. CASE write_all_part(j)
    BY <2>9, <1>1 DEF write_all_part
  <2>10. CASE ServerStep(j) \/ write_response_part(j)
    BY <2>10, <1>1 DEF ServerStep, dispatch_unary, dispatch_unary_unknown, RequestRead,
                       write_response, streaming_negotiate_open, read_request_fails,
                       write_response_part
  <2>11. CASE \E outcome \in Outcomes : HandlerReturns(j, outcome)
    BY <2>11, <1>1 DEF HandlerReturns
  <2> HIDE DEF TypeOK
  <2> QED
    BY <1>2, <2>1, <2>2, <2>3, <2>4, <2>5, <2>6, <2>7, <2>8, <2>9, <2>10, <2>11
    DEF CallStep, open_substream, call_inner
<1>3. ASSUME NEW k \in Calls, CallStep(k), k # j PROVE cache' # on'[j]
  BY <1>0, <1>1, <1>3, OthersUnchanged
<1>4. CASE \E n \in 1..MaxDials : LinkStep(n)
  BY <1>4, <1>1 DEF LinkStep, Cut, IdleTimeout, PeerCloses, callVars
<1>5. CASE UNCHANGED vars
  BY <1>5, <1>1 DEF vars, callVars
<1> QED
  BY <1>2, <1>3, <1>4, <1>5 DEF Next

-----------------------------------------------------------------------------
(* The inductive invariant: the types, what is known about every call, and *)
(* that a connection that failed a unary call has left the cache.          *)
THEOREM UnaryInvariant == Spec => []UnaryInv
<1>1. Init => UnaryInv
  <2> SUFFICES ASSUME Init PROVE UnaryInv
    OBVIOUS
  <2> USE UnaryAssumption DEF Init
  <2>1. TypeOK
    BY DEF TypeOK
  <2>2. ASSUME NEW k \in Calls PROVE CallInv(k)
    BY DEF CallInv, Client, Task, Cause, Answer, IoErrors
  <2>3. FailedConnectionForgotten
    BY DEF FailedConnectionForgotten, Forgotten, Calls
  <2> QED
    BY <2>1, <2>2, <2>3 DEF UnaryInv
<1>2. UnaryInv /\ [Next]_vars => UnaryInv'
  BY TypeStep, CallInvStep, ForgottenStep DEF UnaryInv
<1> QED
  BY <1>1, <1>2, PTL DEF Spec

(* Every variable of the client, its cache and the server's tasks keeps    *)
(* its type: what a call returns is an RpcError or Ok, what crosses the    *)
(* wire a WireError.                                                       *)
THEOREM TypeCorrect == Spec => []TypeOK
<1>1. UnaryInv => TypeOK
  BY DEF UnaryInv
<1> QED
  BY <1>1, UnaryInvariant, PTL

(* A call that returns Ok returns the whole response of a handler that ran *)
(* on the whole request.                                                   *)
THEOREM AnswersAreWhole == Spec => []AnswerComplete
<1>1. UnaryInv => AnswerComplete
  BY DEF UnaryInv, CallInv, Answer, AnswerComplete
<1> QED
  BY <1>1, UnaryInvariant, PTL

(* After a unary call has returned TransportRead or TransportWrite, no     *)
(* call is given its connection from the cache.                            *)
THEOREM FailedConnectionsEvicted == Spec => []FailedConnectionForgotten
<1>1. UnaryInv => FailedConnectionForgotten
  BY DEF UnaryInv
<1> QED
  BY <1>1, UnaryInvariant, PTL

(* What a unary call reports as a transport error happened to its own      *)
(* substream: an RpcError of the handler comes as another error.           *)
THEOREM TransportErrorsNotForwarded == Spec => []TransportErrorsAreLocal
<1>1. UnaryInv => TransportErrorsAreLocal
  BY DEF UnaryInv, CallInv, Cause, TransportErrorsAreLocal, IoErrors, Calls
<1> QED
  BY <1>1, UnaryInvariant, PTL
=============================================================================
