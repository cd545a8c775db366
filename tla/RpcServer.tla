------------------------------ MODULE RpcServer ------------------------------
(***************************************************************************)
(* server.rs above the substream: RpcServer instances on one iroh endpoint *)
(* (serve, register_alpn_handler, Drop), their accept loops, the task that *)
(* each inbound connection gets, and the task that each of its substreams  *)
(* gets.  What happens inside one substream is StreamingCall.              *)
(*                                                                         *)
(* A tokio Semaphore is its number of free permits and the FIFO queue of   *)
(* the tasks that wait for one.  A stream of this module is a place for a  *)
(* substream: it is free again once its task has ended.                    *)
(***************************************************************************)
EXTENDS Integers, Sequences, FiniteSets

CONSTANTS
    Servers,     \* RpcServer instances sharing one endpoint
    Conns,       \* inbound connections
    Streams,     \* substreams of these connections
    ConnOf,      \* the connection of a substream
    AlpnOf,      \* the ALPN a connection negotiates
    MaxConns,    \* max_concurrent_connections
    MaxStreams,  \* max_concurrent_streams
    NoServer

(* Neither limit is validated: both may be 0.                              *)
ASSUME ServerAssumption ==
    /\ MaxConns \in Nat /\ MaxStreams \in Nat
    /\ IsFiniteSet(Conns) /\ IsFiniteSet(Streams)
    /\ ConnOf \in [Streams -> Conns]
    /\ AlpnOf \in [Conns -> {"rpc", "app"}]
    /\ NoServer \notin Servers

VARIABLES
    endpoint,    \* iroh's endpoint: open, closed
    server,      \* new, serving (in serve, the mutex held), served, dropped
    loop,        \* run_accept_loop: off, run, aborting, ended
    table,       \* alpn_handlers
    counter,     \* connection_id_counter
    connFree, connQ,    \* connection_permits
    streamFree, streamQ, \* stream_permits
    conn,        \* the task of a connection
    owner,       \* the server whose loop accepted it
    id,          \* its connection_id, 0 before it has one
    link,        \* up, down
    stream       \* the task of a substream

serverVars == <<endpoint, server, loop, table>>
permitVars == <<counter, connFree, connQ, streamFree, streamQ>>
connVars   == <<conn, owner, id, link>>
vars == <<serverVars, permitVars, connVars, stream>>

-----------------------------------------------------------------------------
(* RpcServer.                                                              *)

(* serve, with the accept_loop mutex held: install the wire handler, with  *)
(* fresh semaphores and a fresh counter, ...  A call that finds the slot   *)
(* filled returns AlreadyServing and changes nothing.                      *)
serve_install(s) ==
    /\ server[s] = "new"
    /\ server' = [server EXCEPT ![s] = "serving"]
    /\ table' = [table EXCEPT ![s]["rpc"] = "wire"]
    /\ counter' = [counter EXCEPT ![s] = 1]
    /\ connFree' = [connFree EXCEPT ![s] = MaxConns]
    /\ streamFree' = [streamFree EXCEPT ![s] = MaxStreams]
    /\ UNCHANGED <<endpoint, loop, connQ, streamQ, connVars, stream>>

(* Mutant: the loop is spawned before the handler is installed.            *)
serve_spawn_early(s) ==
    /\ server[s] \in {"new", "serving"} /\ loop[s] # "ended"
    /\ server' = [server EXCEPT ![s] = IF @ = "serving" THEN "served" ELSE @]
    /\ loop' = [loop EXCEPT ![s] = "run"]
    /\ UNCHANGED <<endpoint, table, permitVars, connVars, stream>>

(* ... then spawn the loop, which may run before serve returns.            *)
serve_spawn(s) ==
    /\ server[s] = "serving"
    /\ server' = [server EXCEPT ![s] = "served"]
    /\ loop' = [loop EXCEPT ![s] = "run"]
    /\ UNCHANGED <<endpoint, table, permitVars, connVars, stream>>

(* Not under the mutex: any time while the server exists.                  *)
register_alpn_handler(s, alpn) ==
    /\ server[s] # "dropped"
    /\ table' = [table EXCEPT ![s][alpn] = "custom"]
    /\ UNCHANGED <<endpoint, server, loop, permitVars, connVars, stream>>

(* Drop aborts the loop, which a poll in progress on another worker        *)
(* survives until its next await.  Connection tasks are not touched.       *)
drop(s) ==
    /\ server[s] \in {"new", "served"}
    /\ server' = [server EXCEPT ![s] = "dropped"]
    /\ loop' = [loop EXCEPT ![s] = IF loop[s] = "run" THEN "aborting" ELSE @]
    /\ UNCHANGED <<endpoint, table, permitVars, connVars, stream>>

-----------------------------------------------------------------------------
(* run_accept_loop.                                                        *)

(* client.accept() yields a connection, for which a task is spawned.       *)
accept(s, c) ==
    /\ loop[s] \in {"run", "aborting"} /\ conn[c] = "incoming"
    /\ conn' = [conn EXCEPT ![c] = "accepting"]
    /\ owner' = [owner EXCEPT ![c] = s]
    /\ UNCHANGED <<serverVars, permitVars, id, link, stream>>

accept_loop_ends(s) ==
    /\ \/ loop[s] = "run" /\ endpoint = "closed"
       \/ loop[s] = "aborting"
    /\ loop' = [loop EXCEPT ![s] = "ended"]
    /\ UNCHANGED <<endpoint, server, table, permitVars, connVars, stream>>

(* The task of a connection: its handshake fails, ...                      *)
handshake_fails(c) ==
    /\ conn[c] = "accepting" /\ link[c] = "down"
    /\ conn' = [conn EXCEPT ![c] = "over"]
    /\ UNCHANGED <<serverVars, permitVars, owner, id, link, stream>>

(* ... or its ALPN is looked up.  Without a handler it is closed; the wire *)
(* handler takes an id and queues for a connection permit.                 *)
dispatch_none(c) ==
    /\ conn[c] = "accepting" /\ table[owner[c]][AlpnOf[c]] = "none"
    /\ conn' = [conn EXCEPT ![c] = "refused"]
    /\ link' = [link EXCEPT ![c] = "down"]
    /\ UNCHANGED <<serverVars, permitVars, owner, id, stream>>

dispatch_custom(c) ==
    /\ conn[c] = "accepting" /\ table[owner[c]][AlpnOf[c]] = "custom"
    /\ conn' = [conn EXCEPT ![c] = "custom"]
    /\ UNCHANGED <<serverVars, permitVars, owner, id, link, stream>>

(* Mutant: the counter is read but not advanced.                           *)
dispatch_wire_loads(c) ==
    /\ conn[c] = "accepting" /\ table[owner[c]][AlpnOf[c]] = "wire"
    /\ conn' = [conn EXCEPT ![c] = "queued"]
    /\ id' = [id EXCEPT ![c] = counter[owner[c]]]
    /\ connQ' = [connQ EXCEPT ![owner[c]] = Append(@, c)]
    /\ UNCHANGED <<serverVars, counter, connFree, streamFree, streamQ, owner, link, stream>>

dispatch_wire(c) ==
    /\ conn[c] = "accepting" /\ table[owner[c]][AlpnOf[c]] = "wire"
    /\ conn' = [conn EXCEPT ![c] = "queued"]
    /\ id' = [id EXCEPT ![c] = counter[owner[c]]]
    /\ counter' = [counter EXCEPT ![owner[c]] = @ + 1]
    /\ connQ' = [connQ EXCEPT ![owner[c]] = Append(@, c)]
    /\ UNCHANGED <<serverVars, connFree, streamFree, streamQ, owner, link, stream>>

-----------------------------------------------------------------------------
(* WireDispatchHandler::handle and run_connection_loop.                    *)

acquire_connection_permit(s) ==
    /\ connQ[s] # <<>> /\ connFree[s] > 0
    /\ conn' = [conn EXCEPT ![Head(connQ[s])] = "looping"]
    /\ connFree' = [connFree EXCEPT ![s] = @ - 1]
    /\ connQ' = [connQ EXCEPT ![s] = Tail(@)]
    /\ UNCHANGED <<serverVars, counter, streamFree, streamQ, owner, id, link, stream>>

(* Mutant: the permit is taken before the task is spawned.                 *)
accept_bi_with_permit(t) ==
    LET s == owner[ConnOf[t]] IN
    /\ stream[t] = "opened" /\ conn[ConnOf[t]] = "looping"
    /\ streamFree[s] > 0
    /\ stream' = [stream EXCEPT ![t] = "running"]
    /\ streamFree' = [streamFree EXCEPT ![s] = @ - 1]
    /\ UNCHANGED <<serverVars, counter, connFree, connQ, streamQ, connVars>>

(* A substream that has arrived is accepted even if the connection has     *)
(* failed since; its task is spawned before it has a permit.               *)
accept_bi(t) ==
    LET s == owner[ConnOf[t]] IN
    /\ stream[t] = "opened" /\ conn[ConnOf[t]] = "looping"
    /\ stream' = [stream EXCEPT ![t] = "waiting"]
    /\ streamQ' = [streamQ EXCEPT ![s] = Append(@, t)]
    /\ UNCHANGED <<serverVars, counter, connFree, connQ, streamFree, connVars>>

(* Mutant: the connection permit is not given back.                        *)
connection_loop_ends_leaks(c) ==
    /\ conn[c] = "looping" /\ link[c] = "down"
    /\ conn' = [conn EXCEPT ![c] = "over"]
    /\ stream' = [t \in Streams |-> IF ConnOf[t] = c /\ stream[t] = "opened" THEN "none"
                                    ELSE stream[t]]
    /\ UNCHANGED <<serverVars, permitVars, owner, id, link>>

(* accept_bi fails: the loop returns and the permit is dropped.  Tasks of  *)
(* substreams it has accepted are not touched.                             *)
connection_loop_ends(c) ==
    /\ conn[c] = "looping" /\ link[c] = "down"
    /\ conn' = [conn EXCEPT ![c] = "over"]
    /\ connFree' = [connFree EXCEPT ![owner[c]] = @ + 1]
    /\ stream' = [t \in Streams |-> IF ConnOf[t] = c /\ stream[t] = "opened" THEN "none"
                                    ELSE stream[t]]
    /\ UNCHANGED <<serverVars, counter, connQ, streamFree, streamQ, owner, id, link>>

(* Mutants: no permit is waited for; the newest waiter is served first.    *)
acquire_stream_permit_unlimited(s) ==
    /\ streamQ[s] # <<>>
    /\ stream' = [stream EXCEPT ![Head(streamQ[s])] = "running"]
    /\ streamFree' = [streamFree EXCEPT ![s] = @ - 1]
    /\ streamQ' = [streamQ EXCEPT ![s] = Tail(@)]
    /\ UNCHANGED <<serverVars, counter, connFree, connQ, connVars>>
acquire_stream_permit_lifo(s) ==
    /\ streamQ[s] # <<>> /\ streamFree[s] > 0
    /\ stream' = [stream EXCEPT ![streamQ[s][Len(streamQ[s])]] = "running"]
    /\ streamFree' = [streamFree EXCEPT ![s] = @ - 1]
    /\ streamQ' = [streamQ EXCEPT ![s] = SubSeq(@, 1, Len(@) - 1)]
    /\ UNCHANGED <<serverVars, counter, connFree, connQ, connVars>>

acquire_stream_permit(s) ==
    /\ streamQ[s] # <<>> /\ streamFree[s] > 0
    /\ stream' = [stream EXCEPT ![Head(streamQ[s])] = "running"]
    /\ streamFree' = [streamFree EXCEPT ![s] = @ - 1]
    /\ streamQ' = [streamQ EXCEPT ![s] = Tail(@)]
    /\ UNCHANGED <<serverVars, counter, connFree, connQ, connVars>>

(* handle_inbound_substream returns or panics; either way the permit is    *)
(* dropped with the task.                                                  *)
stream_task_ends(t) ==
    /\ stream[t] = "running"
    /\ stream' = [stream EXCEPT ![t] = "none"]
    /\ streamFree' = [streamFree EXCEPT ![owner[ConnOf[t]]] = @ + 1]
    /\ UNCHANGED <<serverVars, counter, connFree, connQ, streamQ, connVars>>

-----------------------------------------------------------------------------
(* Peers, the application and the endpoint.                                *)

Connect(c) ==
    /\ conn[c] = "none" /\ endpoint = "open"
    /\ conn' = [conn EXCEPT ![c] = "incoming"]
    /\ link' = [link EXCEPT ![c] = "up"]
    /\ UNCHANGED <<serverVars, permitVars, owner, id, stream>>

OpenStream(t) ==
    /\ stream[t] = "none" /\ conn[ConnOf[t]] \in {"queued", "looping"}
    /\ link[ConnOf[t]] = "up"
    /\ stream' = [stream EXCEPT ![t] = "opened"]
    /\ UNCHANGED <<serverVars, permitVars, connVars>>

Disconnect(c) ==
    /\ link[c] = "up"
    /\ link' = [link EXCEPT ![c] = "down"]
    /\ conn' = [conn EXCEPT ![c] = IF @ \in {"incoming", "custom"} THEN "over" ELSE @]
    /\ UNCHANGED <<serverVars, permitVars, owner, id, stream>>

(* Client::shutdown closes every connection with the endpoint.             *)
Shutdown ==
    /\ endpoint = "open"
    /\ endpoint' = "closed"
    /\ link' = [c \in Conns |-> "down"]
    /\ conn' = [c \in Conns |-> IF conn[c] \in {"incoming", "custom"} THEN "over"
                                ELSE conn[c]]
    /\ UNCHANGED <<server, loop, table, permitVars, owner, id, stream>>

-----------------------------------------------------------------------------
Init ==
    /\ endpoint = "open"
    /\ server = [s \in Servers |-> "new"]
    /\ loop = [s \in Servers |-> "off"]
    /\ table = [s \in Servers |-> [a \in {"rpc", "app"} |-> "none"]]
    /\ counter = [s \in Servers |-> 1]
    /\ connFree = [s \in Servers |-> MaxConns]
    /\ streamFree = [s \in Servers |-> MaxStreams]
    /\ connQ = [s \in Servers |-> <<>>]
    /\ streamQ = [s \in Servers |-> <<>>]
    /\ conn = [c \in Conns |-> "none"]
    /\ owner = [c \in Conns |-> NoServer]
    /\ id = [c \in Conns |-> 0]
    /\ link = [c \in Conns |-> "down"]
    /\ stream = [t \in Streams |-> "none"]

ServerStep(s) ==
    \/ serve_install(s) \/ serve_spawn(s) \/ drop(s)
    \/ \E alpn \in {"rpc", "app"} : register_alpn_handler(s, alpn)
    \/ accept_loop_ends(s)
    \/ \E c \in Conns : accept(s, c)
    \/ acquire_connection_permit(s) \/ acquire_stream_permit(s)

ConnStep(c) ==
    \/ handshake_fails(c) \/ dispatch_none(c) \/ dispatch_custom(c) \/ dispatch_wire(c)
    \/ connection_loop_ends(c) \/ Connect(c) \/ Disconnect(c)

StreamStep(t) == OpenStream(t) \/ accept_bi(t) \/ stream_task_ends(t)

Next ==
    \/ \E s \in Servers : ServerStep(s)
    \/ \E c \in Conns : ConnStep(c)
    \/ \E t \in Streams : StreamStep(t)
    \/ Shutdown

Spec == Init /\ [][Next]_vars

(* The runtime polls every task that can run; nothing is assumed of peers, *)
(* of the application or of how long a substream takes.                    *)
FrameworkFairness ==
    /\ \A s \in Servers :
          /\ WF_vars(serve_spawn(s)) /\ WF_vars(accept_loop_ends(s))
          /\ WF_vars(\E c \in Conns : accept(s, c))
          /\ WF_vars(acquire_connection_permit(s)) /\ WF_vars(acquire_stream_permit(s))
    /\ \A c \in Conns :
          /\ WF_vars(handshake_fails(c) \/ dispatch_none(c) \/ dispatch_custom(c)
                       \/ dispatch_wire(c))
          /\ WF_vars(connection_loop_ends(c))
    /\ \A t \in Streams : WF_vars(accept_bi(t))

FairSpec == Spec /\ FrameworkFairness

-----------------------------------------------------------------------------
(* The values every variable ranges over.                                  *)
TypeOK ==
    /\ endpoint \in {"open", "closed"}
    /\ server \in [Servers -> {"new", "serving", "served", "dropped"}]
    /\ loop \in [Servers -> {"off", "run", "aborting", "ended"}]
    /\ table \in [Servers -> [{"rpc", "app"} -> {"none", "wire", "custom"}]]
    /\ counter \in [Servers -> Nat \ {0}]
    /\ connFree \in [Servers -> Nat] /\ streamFree \in [Servers -> Nat]
    /\ connQ \in [Servers -> Seq(Conns)] /\ streamQ \in [Servers -> Seq(Streams)]
    /\ conn \in [Conns -> {"none", "incoming", "accepting", "refused", "custom", "queued",
                           "looping", "over"}]
    /\ owner \in [Conns -> Servers \cup {NoServer}]
    /\ id \in [Conns -> Nat]
    /\ link \in [Conns -> {"up", "down"}]
    /\ stream \in [Streams -> {"none", "opened", "waiting", "running"}]

Looping(s) == {c \in Conns : conn[c] = "looping" /\ owner[c] = s}
Running(s) == {t \in Streams : stream[t] = "running" /\ owner[ConnOf[t]] = s}
Waiting(s) == {t \in Streams : stream[t] = "waiting" /\ owner[ConnOf[t]] = s}

StreamPermitsConserved ==
    \A s \in Servers : streamFree[s] + Cardinality(Running(s)) = MaxStreams
ConnPermitsConserved ==
    \A s \in Servers : connFree[s] + Cardinality(Looping(s)) = MaxConns

(* No permit is lost or invented, whatever the order in which substreams   *)
(* and connections end, and across serve and Drop: a server never runs     *)
(* more than max_concurrent_streams substreams or more than                *)
(* max_concurrent_connections accept-bi loops, and gets back to its full   *)
(* budget.                                                                 *)
PermitsConserved == StreamPermitsConserved /\ ConnPermitsConserved

(* Two connections of one server never share a connection_id, so that      *)
(* (connection_id, stream_id) names one substream.                         *)
ConnectionIdsUnique ==
    \A c, d \in Conns :
        owner[c] = owner[d] /\ id[c] # 0 /\ id[c] = id[d] => c = d

(* A connection for the wire protocol is never turned away for want of a   *)
(* handler: serve installs the handler before it spawns the loop.          *)
WireNeverRefused == \A c \in Conns : conn[c] = "refused" => AlpnOf[c] # "rpc"

(* A substream that has arrived is accepted without waiting for the        *)
(* substreams before it, however long these take.                          *)
ArrivalsNotStarved ==
    \A t \in Streams :
        (stream[t] = "opened" /\ conn[ConnOf[t]] = "looping") ~> (stream[t] # "opened")

StreamsEnd     == \A t \in Streams : WF_vars(stream_task_ends(t))
ConnectionsEnd == \A c \in Conns : WF_vars(Disconnect(c))

(* If every substream ends - its handler returns, and its peer reads the   *)
(* answer or times out -, each accepted one gets its turn, even when its   *)
(* server has been dropped and its connection has failed.  Likewise a      *)
(* connection above max_concurrent_connections, which its peer sees as     *)
(* open while nothing accepts its substreams: it gets its turn if those    *)
(* before it end, and connections that died in the queue do not clog it.   *)
WaitersServed ==
    /\ StreamsEnd => \A t \in Streams : (stream[t] = "waiting") ~> (stream[t] = "running")
    /\ ConnectionsEnd => \A c \in Conns : (conn[c] = "queued") ~> (conn[c] = "looping")
=============================================================================
