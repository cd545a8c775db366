------------------------- MODULE DatagramDispatcher -------------------------
(***************************************************************************)
(* datagram.rs: the dispatcher's table of handlers, the read loop of each  *)
(* subscribed connection, and the task that each datagram gets, which      *)
(* waits for an in-flight permit, looks its stream-id up and runs the      *)
(* handler it finds.                                                       *)
(*                                                                         *)
(* Frames are the datagrams, each sent at most once; a frame is known by   *)
(* what decode_stream_id makes of it, a stream-id or an error.  Sessions   *)
(* are the handlers an application registers, each under one stream-id.    *)
(***************************************************************************)
EXTENDS Integers, Sequences, FiniteSets

CONSTANTS
    Ids,          \* handshake stream-ids
    Sessions,     \* handlers
    Conns,        \* connections that share the dispatcher
    Frames,
    SessionId,    \* the stream-id a session registers under
    ConnOf,       \* the connection a frame arrives on
    Prefix,       \* its first bytes: an id, "empty", "truncated" or "overlong"
    MaxInFlight,
    NoSession

(* with_max_in_flight asserts max > 0.                                     *)
ASSUME DatagramAssumption ==
    /\ MaxInFlight \in Nat \ {0}
    /\ SessionId \in [Sessions -> Ids]
    /\ ConnOf \in [Frames -> Conns]
    /\ Prefix \in [Frames -> Ids \cup {"empty", "truncated", "overlong"}]
    /\ IsFiniteSet(Frames)
    /\ NoSession \notin Sessions

VARIABLES
    handlers,  \* the table
    reg,       \* what register has told a session: new, ok, collision, removed
    loop,      \* the read loop of a connection: off, run, ended
    link,      \* up, down
    frame,     \* where a frame is
    permits, queue,  \* in_flight_permits: free ones, tasks that wait
    by,        \* the session whose handler a frame is given to
    result     \* what dispatch returns for it

tableVars == <<handlers, reg>>
connVars  == <<loop, link>>
taskVars  == <<permits, queue>>
vars == <<tableVars, connVars, frame, taskVars, by, result>>

-----------------------------------------------------------------------------
(* Mutant: the entry is inserted without a look at the slot.               *)
register_overwrites(h) ==
    /\ reg[h] # "ok"
    /\ handlers' = [handlers EXCEPT ![SessionId[h]] = h]
    /\ reg' = [reg EXCEPT ![h] = "ok"]
    /\ UNCHANGED <<connVars, frame, taskVars, by, result>>

(* Check and insert under one shard lock.  A session that met a collision  *)
(* may try again; one that is registered would meet itself.                *)
register(h) ==
    /\ reg[h] # "ok"
    /\ IF handlers[SessionId[h]] = NoSession
       THEN /\ handlers' = [handlers EXCEPT ![SessionId[h]] = h]
            /\ reg' = [reg EXCEPT ![h] = "ok"]
       ELSE reg' = [reg EXCEPT ![h] = "collision"] /\ UNCHANGED handlers
    /\ UNCHANGED <<connVars, frame, taskVars, by, result>>

(* The handler that was there is returned; without one nothing happens.    *)
unregister(id) ==
    /\ handlers[id] # NoSession
    /\ handlers' = [handlers EXCEPT ![id] = NoSession]
    /\ reg' = [reg EXCEPT ![handlers[id]] = "removed"]
    /\ UNCHANGED <<connVars, frame, taskVars, by, result>>

(* subscribe_connection spawns the read loop.                              *)
subscribe_connection(c) ==
    /\ loop[c] = "off"
    /\ loop' = [loop EXCEPT ![c] = "run"]
    /\ UNCHANGED <<tableVars, link, frame, taskVars, by, result>>

(* read_datagram yields what is buffered, also after the connection has    *)
(* closed; each frame gets a task.                                         *)
read_datagram(f) ==
    /\ loop[ConnOf[f]] = "run" /\ frame[f] = "buffered"
    /\ frame' = [frame EXCEPT ![f] = "spawned"]
    /\ UNCHANGED <<tableVars, connVars, taskVars, by, result>>

(* Mutant: the loop checks for closure first.                              *)
read_loop_ends_at_close(c) ==
    /\ loop[c] = "run" /\ link[c] = "down"
    /\ loop' = [loop EXCEPT ![c] = "ended"]
    /\ UNCHANGED <<tableVars, link, frame, taskVars, by, result>>

read_loop_ends(c) ==
    /\ loop[c] = "run" /\ link[c] = "down"
    /\ \A f \in Frames : ConnOf[f] = c => frame[f] # "buffered"
    /\ loop' = [loop EXCEPT ![c] = "ended"]
    /\ UNCHANGED <<tableVars, link, frame, taskVars, by, result>>

(* The task is polled for the first time, in any order, and queues; ...    *)
acquire_owned(f) ==
    /\ frame[f] = "spawned"
    /\ frame' = [frame EXCEPT ![f] = "waiting"]
    /\ queue' = Append(queue, f)
    /\ UNCHANGED <<tableVars, connVars, permits, by, result>>

(* Mutant: no permit is waited for.                                        *)
permit_granted_unlimited ==
    /\ queue # <<>>
    /\ frame' = [frame EXCEPT ![Head(queue)] = "dispatching"]
    /\ permits' = permits - 1
    /\ queue' = Tail(queue)
    /\ UNCHANGED <<tableVars, connVars, by, result>>

(* ... it has a permit, ...                                                *)
permit_granted ==
    /\ queue # <<>> /\ permits > 0
    /\ frame' = [frame EXCEPT ![Head(queue)] = "dispatching"]
    /\ permits' = permits - 1
    /\ queue' = Tail(queue)
    /\ UNCHANGED <<tableVars, connVars, by, result>>

(* decode_stream_id returns Ok: the varint is whole and fits in 64 bits.   *)
decode_stream_id(prefix) == prefix \in Ids

(* Mutant: the handler is the one that was there when the frame arrived.   *)
dispatch_finds_early(f) ==
    /\ frame[f] = "dispatching" /\ decode_stream_id(Prefix[f])
    /\ \E h \in Sessions :
          /\ SessionId[h] = Prefix[f] /\ reg[h] \in {"ok", "removed"}
          /\ by' = [by EXCEPT ![f] = h]
    /\ frame' = [frame EXCEPT ![f] = "handling"]
    /\ UNCHANGED <<tableVars, connVars, taskVars, result>>

(* ... decodes and looks up: only now, not when the frame arrived.  The    *)
(* handler is called with its clone next; the two are one step here.       *)
dispatch_finds(f) ==
    /\ frame[f] = "dispatching" /\ decode_stream_id(Prefix[f])
    /\ handlers[Prefix[f]] # NoSession
    /\ frame' = [frame EXCEPT ![f] = "handling"]
    /\ by' = [by EXCEPT ![f] = handlers[Prefix[f]]]
    /\ UNCHANGED <<tableVars, connVars, taskVars, result>>

(* What dispatch returns without a handler.                                *)
Rejection(prefix) ==
    CASE prefix = "empty"                     -> "DatagramTooShort"
      [] prefix \in {"truncated", "overlong"} -> "MalformedFrame"
      [] OTHER                                -> "DatagramStreamIdUnknown"

(* Mutant: the permit is not given back on an error.                       *)
dispatch_rejects_leaks(f) ==
    /\ frame[f] = "dispatching"
    /\ decode_stream_id(Prefix[f]) => handlers[Prefix[f]] = NoSession
    /\ frame' = [frame EXCEPT ![f] = "done"]
    /\ result' = [result EXCEPT ![f] = Rejection(Prefix[f])]
    /\ UNCHANGED <<tableVars, connVars, taskVars, by>>

dispatch_rejects(f) ==
    /\ frame[f] = "dispatching"
    /\ decode_stream_id(Prefix[f]) => handlers[Prefix[f]] = NoSession
    /\ frame' = [frame EXCEPT ![f] = "done"]
    /\ result' = [result EXCEPT ![f] = Rejection(Prefix[f])]
    /\ permits' = permits + 1
    /\ UNCHANGED <<tableVars, connVars, queue, by>>

(* The handler returns or panics; the permit is dropped with the task.     *)
handle_returns(f) ==
    /\ frame[f] = "handling"
    /\ frame' = [frame EXCEPT ![f] = "done"]
    /\ result' = [result EXCEPT ![f] = "handled"]
    /\ permits' = permits + 1
    /\ UNCHANGED <<tableVars, connVars, queue, by>>

-----------------------------------------------------------------------------
(* The network: a datagram arrives or is lost, on its way or because the   *)
(* connection's buffer is full; connections close.                         *)
Arrive(f) ==
    /\ frame[f] = "new" /\ link[ConnOf[f]] = "up"
    /\ frame' = [frame EXCEPT ![f] = "buffered"]
    /\ UNCHANGED <<tableVars, connVars, taskVars, by, result>>
Lose(f) ==
    /\ frame[f] \in {"new", "buffered"}
    /\ frame' = [frame EXCEPT ![f] = "lost"]
    /\ UNCHANGED <<tableVars, connVars, taskVars, by, result>>
Close(c) ==
    /\ link[c] = "up"
    /\ link' = [link EXCEPT ![c] = "down"]
    /\ UNCHANGED <<tableVars, loop, frame, taskVars, by, result>>

-----------------------------------------------------------------------------
Init ==
    /\ handlers = [i \in Ids |-> NoSession]
    /\ reg = [h \in Sessions |-> "new"]
    /\ loop = [c \in Conns |-> "off"] /\ link = [c \in Conns |-> "up"]
    /\ frame = [f \in Frames |-> "new"]
    /\ permits = MaxInFlight /\ queue = <<>>
    /\ by = [f \in Frames |-> NoSession]
    /\ result = [f \in Frames |-> "none"]

dispatch(f) == dispatch_finds(f) \/ dispatch_rejects(f)

Next ==
    \/ \E h \in Sessions : register(h)
    \/ \E i \in Ids : unregister(i)
    \/ \E c \in Conns : subscribe_connection(c) \/ read_loop_ends(c) \/ Close(c)
    \/ \E f \in Frames : \/ Arrive(f) \/ Lose(f) \/ read_datagram(f) \/ acquire_owned(f)
                         \/ dispatch(f) \/ handle_returns(f)
    \/ permit_granted

Spec == Init /\ [][Next]_vars

(* Tasks are polled, and handlers return ("MUST return promptly").         *)
FairSpec ==
    /\ Spec /\ WF_vars(permit_granted)
    /\ \A c \in Conns : WF_vars(read_loop_ends(c))
    /\ \A f \in Frames : /\ WF_vars(read_datagram(f)) /\ WF_vars(acquire_owned(f))
                         /\ WF_vars(dispatch(f)) /\ WF_vars(handle_returns(f))

-----------------------------------------------------------------------------
InFlight == {f \in Frames : frame[f] \in {"dispatching", "handling"}}

(* The values every variable ranges over.                                  *)
TypeOK ==
    /\ handlers \in [Ids -> Sessions \cup {NoSession}]
    /\ reg \in [Sessions -> {"new", "ok", "collision", "removed"}]
    /\ loop \in [Conns -> {"off", "run", "ended"}] /\ link \in [Conns -> {"up", "down"}]
    /\ frame \in [Frames -> {"new", "buffered", "lost", "spawned", "waiting", "dispatching",
                             "handling", "done"}]
    /\ permits \in 0..MaxInFlight /\ queue \in Seq(Frames)
    /\ by \in [Frames -> Sessions \cup {NoSession}]
    /\ result \in [Frames -> {"none", "handled", "DatagramTooShort", "MalformedFrame",
                              "DatagramStreamIdUnknown"}]

(* No permit is lost, whatever dispatch returns: at most MaxInFlight       *)
(* frames are being dispatched or handled at a time.                       *)
InFlightBounded == permits + Cardinality(InFlight) = MaxInFlight

(* A session whose register returned Ok, and that nobody has unregistered, *)
(* is the one dispatch finds: a second register for its stream-id, from    *)
(* another connection perhaps, does not replace it.                        *)
RegisteredReachable ==
    \A h \in Sessions : reg[h] = "ok" <=> handlers[SessionId[h]] = h

(* Once unregister has returned, dispatch gives the session's handler no   *)
(* further frame, not one that arrived before either.  Frames whose        *)
(* dispatch has cloned the handler out of the table by then go on.         *)
UnregisterIsFinal ==
    [][\A f \in Frames, h \in Sessions :
          reg[h] = "removed" /\ frame'[f] = "handling" /\ by'[f] = h
            => frame[f] = "handling" /\ by[f] = h]_vars

(* Every frame that reaches a subscribed connection is dispatched, also if *)
(* the connection closes meanwhile, unless the network's buffer drops it.  *)
FramesSettle ==
    \A f \in Frames :
        (frame[f] = "buffered" /\ loop[ConnOf[f]] = "run") ~> (frame[f] \in {"done", "lost"})
=============================================================================
