------------------------------ MODULE UnaryCall ------------------------------
(***************************************************************************)
(* Concurrent calls of one RpcClient to one peer, over the connection      *)
(* cache they share: RpcClient::call from open_substream to the eviction   *)
(* that follows a transport error, the server's side of a unary substream  *)
(* and, as far as the open-ack, call_streaming, which shares the cache but *)
(* not the eviction.                                                       *)
(*                                                                         *)
(* The cache belongs to nerw-core and has one entry for (peer, ALPN); 0 is *)
(* no entry.  Connections are numbered in the order they are dialled.      *)
(***************************************************************************)
EXTENDS Integers

CONSTANTS
    Unary,      \* calls through RpcClient::call
    Streaming,  \* calls through RpcClient::call_streaming
    Oversize,   \* calls whose request is above RPC_STREAM_READ_LIMIT
    Outcomes,   \* what a handler may come to
    MaxDials    \* bound: connections dialled

Calls == Unary \cup Streaming

(* error.rs and wire_error.rs: the variants of RpcError, and of WireError. *)
TransportErrors == {"TransportOpenSubstream", "TransportRegisterAlpn",
                    "TransportRead", "TransportWrite"}
RpcError == TransportErrors \cup
    {"Codec", "MalformedFrame", "UnknownMethod", "InvalidMethodName", "VersionMismatch",
     "Handler", "DatagramStreamIdCollision", "DatagramStreamIdUnknown", "DatagramTooShort",
     "AlreadyServing"}
WireError == {"UnknownMethod", "VersionMismatch", "InvalidMethodName", "MalformedFrame",
              "HandlerError", "Codec"}

(* A handler may return any RpcError, one of a call of its own too.        *)
(* "huge" is Ok with a response above RPC_RESPONSE_READ_LIMIT, which the   *)
(* server does not refuse.                                                 *)
ASSUME UnaryAssumption ==
    /\ Unary \cap Streaming = {}
    /\ Oversize \subseteq Unary
    /\ Outcomes \subseteq {"ok", "huge", "panic"} \cup RpcError
    /\ MaxDials \in Nat

VARIABLES
    cache,    \* the cached connection
    dialled,  \* connections dialled so far
    link,     \* up; cut: silently gone; closed: and the client knows
    call,     \* progress of a call
    on,       \* the connection of its substream
    res,      \* what it returns
    sub,      \* its request half as the server can read it
    stopped,  \* the server has dropped the receive half
    srv,      \* the server's task for the substream
    ran,      \* the request the handler was given
    out,      \* what the task is about to answer
    reply     \* the response half as the client can read it

connVars   == <<cache, dialled, link>>
callVars   == <<call, on, res>>
streamVars == <<sub, stopped, srv, ran, out, reply>>
vars == <<connVars, callVars, streamVars>>

-----------------------------------------------------------------------------
(* nerw-core: Client::open_substream, which reuses the cached connection   *)
(* if open_bi succeeds on it - it does on a connection that is silently    *)
(* gone -, evicts it if not, and dials if there is none.                   *)

open_substream_cached(k) ==
    /\ call[k] = "idle" /\ cache # 0 /\ link[cache] # "closed"
    /\ call' = [call EXCEPT ![k] = "writing"]
    /\ on' = [on EXCEPT ![k] = cache]
    /\ UNCHANGED <<connVars, res, streamVars>>

open_substream_stale(k) ==
    /\ call[k] = "idle" /\ cache # 0 /\ link[cache] = "closed"
    /\ cache' = 0
    /\ call' = [call EXCEPT ![k] = "done"]
    /\ res' = [res EXCEPT ![k] = "TransportOpenSubstream"]
    /\ UNCHANGED <<dialled, link, on, streamVars>>

open_substream_dial(k) ==
    /\ call[k] = "idle" /\ cache = 0 /\ dialled < MaxDials
    /\ dialled' = dialled + 1
    /\ cache' = dialled + 1
    /\ link' = [link EXCEPT ![dialled + 1] = "up"]
    /\ call' = [call EXCEPT ![k] = "writing"]
    /\ on' = [on EXCEPT ![k] = dialled + 1]
    /\ UNCHANGED <<res, streamVars>>

open_substream_unreachable(k) ==
    /\ call[k] = "idle" /\ cache = 0
    /\ call' = [call EXCEPT ![k] = "done"]
    /\ res' = [res EXCEPT ![k] = "TransportOpenSubstream"]
    /\ UNCHANGED <<connVars, on, streamVars>>

(* A connection is silently cut, the idle timeout notices, the peer closes. *)
Cut(n) ==
    /\ link[n] = "up"
    /\ link' = [link EXCEPT ![n] = "cut"]
    /\ UNCHANGED <<cache, dialled, callVars, streamVars>>
IdleTimeout(n) ==
    /\ link[n] = "cut"
    /\ link' = [link EXCEPT ![n] = "closed"]
    /\ UNCHANGED <<cache, dialled, callVars, streamVars>>
PeerCloses(n) ==
    /\ link[n] = "up"
    /\ link' = [link EXCEPT ![n] = "closed"]
    /\ UNCHANGED <<cache, dialled, callVars, streamVars>>

-----------------------------------------------------------------------------
(* client.rs: call_inner after open_substream, then call.                  *)

Up(k) == link[on[k]] = "up"

(* Mutant: only a failed read evicts.                                      *)
is_transport_io_error_read_only(err) == err = "TransportRead"

is_transport_io_error(err) == err \in {"TransportRead", "TransportWrite"}

(* call_inner returns r; call evicts after a transport error, which is     *)
(* another await.  call_streaming returns at once.                         *)
Returns(k, r) ==
    /\ call' = [call EXCEPT ![k] = IF k \in Unary /\ is_transport_io_error(r) THEN "evicting"
                                   ELSE "done"]
    /\ res' = [res EXCEPT ![k] = r]

(* A part of the request is on its way.                                    *)
write_all_part(k) ==
    /\ call[k] = "writing" /\ sub[k] = "nothing" /\ Up(k)
    /\ sub' = [sub EXCEPT ![k] = "part"]
    /\ UNCHANGED <<connVars, callVars, stopped, srv, ran, out, reply>>

(* write_all and finish succeed: what a cut connection swallows too.       *)
write_all_finish(k) ==
    /\ call[k] = "writing" /\ link[on[k]] # "closed"
    /\ call' = [call EXCEPT ![k] = "reading"]
    /\ sub' = [sub EXCEPT ![k] = IF Up(k) /\ ~stopped[k] THEN "whole" ELSE @]
    /\ UNCHANGED <<connVars, on, res, stopped, srv, ran, out, reply>>

write_all_fails(k) ==
    /\ call[k] = "writing" /\ (link[on[k]] = "closed" \/ (stopped[k] /\ Up(k)))
    /\ Returns(k, "TransportWrite")
    /\ UNCHANGED <<connVars, on, streamVars>>

(* What the client makes of an error of the server: there is no postcard   *)
(* error to put into a Codec.                                              *)
into_rpc_error(w) == IF w \in {"HandlerError", "Codec"} THEN "Handler" ELSE w

(* Mutant: the opcode is not looked at.                                    *)
decode_response_frame_raw(r) == r

(* What becomes of a response that is read to its FIN, or to its limit,    *)
(* which is a read error; a panicked handler leaves an empty one.          *)
decode_response_frame(r) ==
    CASE r = "fin"  -> "MalformedFrame"
      [] r = "ok"   -> "Ok"
      [] r = "huge" -> "TransportRead"
      [] OTHER      -> into_rpc_error(r)

read_to_end(k) ==
    /\ call[k] = "reading" /\ reply[k] \notin {"nothing", "part"}
    /\ Returns(k, decode_response_frame(reply[k]))
    /\ UNCHANGED <<connVars, on, streamVars>>

(* Mutant: a connection lost in the middle of a response ends it.          *)
read_to_end_takes_part(k) ==
    /\ call[k] = "reading" /\ reply[k] \in {"nothing", "part"} /\ link[on[k]] = "closed"
    /\ Returns(k, IF reply[k] = "part" THEN "Ok" ELSE "TransportRead")
    /\ UNCHANGED <<connVars, on, streamVars>>

read_to_end_fails(k) ==
    /\ call[k] = "reading" /\ reply[k] \in {"nothing", "part"} /\ link[on[k]] = "closed"
    /\ Returns(k, "TransportRead")
    /\ UNCHANGED <<connVars, on, streamVars>>

(* The entry of (peer, ALPN) is evicted, whichever connection it is.       *)
evict_cached_connection(k) ==
    /\ call[k] = "evicting"
    /\ cache' = 0
    /\ call' = [call EXCEPT ![k] = "done"]
    /\ UNCHANGED <<dialled, link, on, res, streamVars>>

(* The future is dropped.  A SendStream that is dropped while it writes is *)
(* finished: the server reads a request that stops short.                  *)
Cancel(k) ==
    /\ call[k] \in {"writing", "reading", "evicting"}
    /\ call' = [call EXCEPT ![k] = "cancelled"]
    /\ sub' = [sub EXCEPT ![k] = IF call[k] = "writing" /\ Up(k) THEN "torn" ELSE @]
    /\ UNCHANGED <<connVars, on, res, stopped, srv, ran, out, reply>>

-----------------------------------------------------------------------------
(* server.rs: handle_inbound_substream and what it calls.                  *)

(* A request that is read to its end: one above the limit only when it is  *)
(* torn, below the limit.                                                  *)
RequestRead(k) ==
    /\ k \in Unary /\ srv[k] = "none" /\ sub[k] \in {"whole", "torn"}
    /\ k \in Oversize => sub[k] = "torn"

(* The frame decodes: the handler runs, on a torn request too if the       *)
(* method name came through.                                               *)
dispatch_unary(k) ==
    /\ RequestRead(k)
    /\ srv' = [srv EXCEPT ![k] = "running"]
    /\ ran' = [ran EXCEPT ![k] = sub[k]]
    /\ UNCHANGED <<connVars, callVars, sub, stopped, out, reply>>

(* The registry does not know the method, or the name is cut short.        *)
dispatch_unary_unknown(k) ==
    /\ RequestRead(k)
    /\ srv' = [srv EXCEPT ![k] = "answering"]
    /\ out' = [out EXCEPT ![k] = IF sub[k] = "whole" THEN "UnknownMethod"
                                 ELSE "MalformedFrame"]
    /\ UNCHANGED <<connVars, callVars, sub, stopped, ran, reply>>

(* call_streaming's open-request: the ack, or the error ack.               *)
streaming_negotiate_open(k) ==
    /\ k \in Streaming /\ srv[k] = "none" /\ sub[k] = "whole"
    /\ srv' = [srv EXCEPT ![k] = "answering"]
    /\ \/ out' = [out EXCEPT ![k] = "ok"] /\ ran' = [ran EXCEPT ![k] = "whole"]
       \/ out' = [out EXCEPT ![k] = "UnknownMethod"] /\ UNCHANGED ran
    /\ UNCHANGED <<connVars, callVars, sub, stopped, reply>>

(* Mutant: the two halves outlive the failed read.                         *)
read_request_fails_holds(k) ==
    /\ srv[k] = "none" /\ sub[k] # "nothing"
    /\ k \in Oversize \/ sub[k] = "torn" \/ ~Up(k)
    /\ srv' = [srv EXCEPT ![k] = "done"]
    /\ UNCHANGED <<connVars, callVars, sub, stopped, ran, out, reply>>

(* The opcode or the rest cannot be read, or there is too much of it: the  *)
(* task returns and drops both halves.                                     *)
read_request_fails(k) ==
    /\ srv[k] = "none" /\ sub[k] # "nothing"
    /\ k \in Oversize \/ sub[k] = "torn" \/ ~Up(k)
    /\ srv' = [srv EXCEPT ![k] = "done"]
    /\ stopped' = [stopped EXCEPT ![k] = TRUE]
    /\ reply' = [reply EXCEPT ![k] = IF Up(k) THEN "fin" ELSE @]
    /\ UNCHANGED <<connVars, callVars, sub, ran, out>>

(* The handler returns, or panics, which drops both halves.                *)
HandlerReturns(k, outcome) ==
    /\ srv[k] = "running"
    /\ out' = [out EXCEPT ![k] = outcome]
    /\ IF outcome = "panic"
       THEN /\ srv' = [srv EXCEPT ![k] = "done"]
            /\ reply' = [reply EXCEPT ![k] = IF Up(k) THEN "fin" ELSE @]
       ELSE srv' = [srv EXCEPT ![k] = "answering"] /\ UNCHANGED reply
    /\ UNCHANGED <<connVars, callVars, sub, stopped, ran>>

(* Mutant: an error crosses the wire as it is.                             *)
from_rpc_error_verbatim(err) == err

(* What has no WireError of its own is an error of the handler.            *)
from_rpc_error(err) == IF err \in WireError THEN err ELSE "HandlerError"

(* write_response or write_error: a part of the frame, then all and FIN.   *)
write_response_part(k) ==
    /\ srv[k] = "answering" /\ reply[k] = "nothing" /\ Up(k)
    /\ reply' = [reply EXCEPT ![k] = "part"]
    /\ UNCHANGED <<connVars, callVars, sub, stopped, srv, ran, out>>

write_response(k) ==
    /\ srv[k] = "answering"
    /\ srv' = [srv EXCEPT ![k] = "done"]
    /\ reply' = [reply EXCEPT ![k] = IF ~Up(k) THEN @
                                     ELSE IF out[k] \in {"ok", "huge"} THEN out[k]
                                     ELSE from_rpc_error(out[k])]
    /\ UNCHANGED <<connVars, callVars, sub, stopped, ran, out>>

-----------------------------------------------------------------------------
Init ==
    /\ cache = 0 /\ dialled = 0
    /\ link = [n \in 1..MaxDials |-> "none"]
    /\ call = [k \in Calls |-> "idle"] /\ on = [k \in Calls |-> 0]
    /\ res = [k \in Calls |-> "none"]
    /\ sub = [k \in Calls |-> "nothing"] /\ stopped = [k \in Calls |-> FALSE]
    /\ srv = [k \in Calls |-> "none"] /\ ran = [k \in Calls |-> "nothing"]
    /\ out = [k \in Calls |-> "none"] /\ reply = [k \in Calls |-> "nothing"]

open_substream(k) ==
    \/ open_substream_cached(k) \/ open_substream_stale(k)
    \/ open_substream_dial(k) \/ open_substream_unreachable(k)

call_inner(k) ==
    \/ write_all_finish(k) \/ write_all_fails(k)
    \/ read_to_end(k) \/ read_to_end_fails(k)

ServerStep(k) ==
    \/ dispatch_unary(k) \/ dispatch_unary_unknown(k) \/ streaming_negotiate_open(k)
    \/ read_request_fails(k) \/ write_response(k)

CallStep(k) ==
    \/ open_substream(k) \/ write_all_part(k) \/ call_inner(k)
    \/ evict_cached_connection(k) \/ Cancel(k)
    \/ ServerStep(k) \/ write_response_part(k)
    \/ \E outcome \in Outcomes : HandlerReturns(k, outcome)

LinkStep(n) == Cut(n) \/ IdleTimeout(n) \/ PeerCloses(n)

Next == (\E k \in Calls : CallStep(k)) \/ (\E n \in 1..MaxDials : LinkStep(n))

Spec == Init /\ [][Next]_vars

(* The runtime polls both sides' tasks, a cut connection times out, and    *)
(* handlers return.                                                        *)
FairSpec ==
    /\ Spec
    /\ \A k \in Calls :
          /\ WF_vars(call_inner(k)) /\ WF_vars(evict_cached_connection(k))
          /\ WF_vars(ServerStep(k))
          /\ WF_vars(\E outcome \in Outcomes : HandlerReturns(k, outcome))
    /\ \A n \in 1..MaxDials : WF_vars(IdleTimeout(n))

-----------------------------------------------------------------------------
(* The values every variable ranges over.                                  *)
TypeOK ==
    /\ cache \in 0..dialled /\ dialled \in 0..MaxDials
    /\ link \in [1..MaxDials -> {"none", "up", "cut", "closed"}]
    /\ call \in [Calls -> {"idle", "writing", "reading", "evicting", "done", "cancelled"}]
    /\ on \in [Calls -> 0..dialled]
    /\ res \in [Calls -> RpcError \cup {"none", "Ok"}]
    /\ sub \in [Calls -> {"nothing", "part", "torn", "whole"}]
    /\ stopped \in [Calls -> BOOLEAN]
    /\ srv \in [Calls -> {"none", "running", "answering", "done"}]
    /\ ran \in [Calls -> {"nothing", "torn", "whole"}]
    /\ out \in [Calls -> RpcError \cup {"none", "ok", "huge", "panic"}]
    /\ reply \in [Calls -> WireError \cup {"nothing", "part", "fin", "ok", "huge"}]

(* A call that returns Ok returns the whole response of a handler that ran *)
(* on the whole request, whatever was cut, cancelled or refused meanwhile. *)
AnswerComplete ==
    \A k \in Calls : res[k] = "Ok" => ran[k] = "whole" /\ out[k] = "ok" /\ reply[k] = "ok"

Forgotten(k) ==
    call[k] = "done" /\ res[k] \in {"TransportRead", "TransportWrite"} => cache # on[k]

(* Once a unary call has returned TransportRead or TransportWrite, its     *)
(* connection is not in the cache again: no later call is given it.        *)
FailedConnectionForgotten == \A k \in Unary : Forgotten(k)

(* A unary call reports a transport error, and so evicts its connection,   *)
(* only when its own substream failed or its response was above the limit: *)
(* never because the handler reported the transport error of a call that   *)
(* it had made itself.                                                     *)
TransportErrorsAreLocal ==
    \A k \in Unary :
        res[k] \in {"TransportRead", "TransportWrite"} =>
            reply[k] \in {"nothing", "part", "huge"} \/ (stopped[k] /\ reply[k] = "fin")

(* Every call that has its substream returns in the end, also when the     *)
(* peer has silently gone, panicked or refused the request.                *)
CallsReturn ==
    \A k \in Calls : (call[k] \in {"writing", "reading"}) ~> (call[k] \in {"done", "cancelled"})

-----------------------------------------------------------------------------
(* What the documentation says and the code does not do.                   *)

(* A call that has returned failed to read or to write on connection n.    *)
HasFailed(n) ==
    \E k \in Calls : call[k] = "done" /\ res[k] \in {"TransportRead", "TransportWrite"}
                      /\ on[k] = n

(* client.rs, "Stale-connection eviction (N2)": when a read or a write on  *)
(* an established stream fails, the client evicts the connection, so that  *)
(* the next call dials instead of replaying the dead entry.  But           *)
(* call_streaming evicts nothing: the next call starts from the entry of a *)
(* connection on which it has failed, and is refused.                      *)
DeadEntryNotReplayed ==
    [][\A k \in Calls : call[k] = "idle" /\ call'[k] # "idle" => ~HasFailed(cache)]_vars
=============================================================================
