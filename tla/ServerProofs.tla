----------------------------- MODULE ServerProofs -----------------------------
(***************************************************************************)
(* Proofs about RpcServer, for any number of servers, connections and      *)
(* substreams and any limits, 0 included.                                  *)
(***************************************************************************)
EXTENDS RpcServer, CommonLemmas

(* A loop runs only once serve has installed the wire handler, and nothing *)
(* takes it out of the table again.                                        *)
LifeInv ==
    \A s \in Servers :
        /\ server[s] \in {"new", "serving"} => loop[s] = "off"
        /\ server[s] = "serving" \/ loop[s] # "off" => table[s]["rpc"] # "none"

(* What the task of a connection knows of its server.                      *)
ConnInv ==
    \A c \in Conns :
        /\ conn[c] \in {"accepting", "refused", "custom", "queued", "looping"}
             => owner[c] \in Servers
        /\ owner[c] \in Servers => loop[owner[c]] # "off"
        /\ conn[c] \in {"none", "incoming"} => id[c] = 0
        /\ id[c] # 0 => owner[c] \in Servers /\ id[c] < counter[owner[c]]

(* A substream is there only once its connection is with a server.         *)
StreamInv ==
    \A t \in Streams : stream[t] # "none" =>
        /\ conn[ConnOf[t]] \in {"queued", "looping", "over"}
        /\ owner[ConnOf[t]] \in Servers

(* The queues of the semaphores hold the tasks that wait, each once.       *)
Queued(s) == {c \in Conns : conn[c] = "queued" /\ owner[c] = s}
QueueInv ==
    \A s \in Servers :
        /\ Distinct(connQ[s]) /\ Elems(connQ[s]) = Queued(s)
        /\ Distinct(streamQ[s]) /\ Elems(streamQ[s]) = Waiting(s)

ServerInv == TypeOK /\ LifeInv /\ ConnInv /\ StreamInv /\ QueueInv

-----------------------------------------------------------------------------
(* A step preserves the types.                                             *)
LEMMA TypeStep == TypeOK /\ ConnInv /\ StreamInv /\ [Next]_vars => TypeOK'
<1> SUFFICES ASSUME TypeOK, ConnInv, StreamInv, [Next]_vars PROVE TypeOK'
  OBVIOUS
<1> USE ServerAssumption DEF TypeOK, serverVars, permitVars, connVars
<1>1. CASE \E s \in Servers : ServerStep(s)
  <2> PICK s \in Servers : ServerStep(s)
    BY <1>1
  <2>1. CASE serve_install(s)
    BY <2>1 DEF serve_install
  <2>2. CASE serve_spawn(s)
    BY <2>2 DEF serve_spawn
  <2>3. CASE drop(s)
    BY <2>3 DEF drop
  <2>4. CASE \E alpn \in {"rpc", "app"} : register_alpn_handler(s, alpn)
    BY <2>4 DEF register_alpn_handler
  <2>5. CASE accept_loop_ends(s)
    BY <2>5 DEF accept_loop_ends
  <2>6. CASE \E c \in Conns : accept(s, c)
    BY <2>6 DEF accept
  <2>7. CASE acquire_connection_permit(s)
    <3>1. Head(connQ[s]) \in Conns /\ Tail(connQ[s]) \in Seq(Conns)
      BY <2>7, SeqTypes DEF acquire_connection_permit
    <3>2. connQ' \in [Servers -> Seq(Conns)]
      BY <2>7, <3>1 DEF acquire_connection_permit
    <3>3. connFree' \in [Servers -> Nat]
      BY <2>7 DEF acquire_connection_permit
    <3> QED
      BY <2>7, <3>1, <3>2, <3>3 DEF acquire_connection_permit
  <2>8. CASE acquire_stream_permit(s)
    <3>1. Head(streamQ[s]) \in Streams /\ Tail(streamQ[s]) \in Seq(Streams)
      BY <2>8, SeqTypes DEF acquire_stream_permit
    <3>2. streamQ' \in [Servers -> Seq(Streams)]
      BY <2>8, <3>1 DEF acquire_stream_permit
    <3>3. streamFree' \in [Servers -> Nat]
      BY <2>8 DEF acquire_stream_permit
    <3> QED
      BY <2>8, <3>1, <3>2, <3>3 DEF acquire_stream_permit
  <2> QED
    BY <2>1, <2>2, <2>3, <2>4, <2>5, <2>6, <2>7, <2>8 DEF ServerStep
<1>2. CASE \E c \in Conns : ConnStep(c)
  <2> PICK c \in Conns : ConnStep(c)
    BY <1>2
  <2>1. CASE handshake_fails(c)
    BY <2>1 DEF handshake_fails
  <2>2. CASE dispatch_none(c)
    BY <2>2 DEF dispatch_none
  <2>3. CASE dispatch_custom(c)
    BY <2>3 DEF dispatch_custom
  <2>4. CASE dispatch_wire(c)
    <3>1. owner[c] \in Servers
      BY <2>4 DEF dispatch_wire, ConnInv
    <3>2. Append(connQ[owner[c]], c) \in Seq(Conns)
      BY <3>1, SeqTypes
    <3> QED
      BY SMTT(30), <2>4, <3>1, <3>2 DEF dispatch_wire
  <2>5. CASE connection_loop_ends(c)
    BY <2>5 DEF connection_loop_ends, ConnInv
  <2>6. CASE Connect(c)
    BY <2>6 DEF Connect
  <2>7. CASE Disconnect(c)
    BY <2>7 DEF Disconnect
  <2> QED
    BY <2>1, <2>2, <2>3, <2>4, <2>5, <2>6, <2>7 DEF ConnStep
<1>3. CASE \E t \in Streams : StreamStep(t)
  <2> PICK t \in Streams : StreamStep(t)
    BY <1>3
  <2>1. CASE OpenStream(t)
    BY <2>1 DEF OpenStream
  <2>2. CASE accept_bi(t)
    <3>1. owner[ConnOf[t]] \in Servers
      BY <2>2 DEF accept_bi, StreamInv
    <3>2. Append(streamQ[owner[ConnOf[t]]], t) \in Seq(Streams)
      BY <3>1, SeqTypes
    <3> QED
      BY <2>2, <3>1, <3>2 DEF accept_bi
  <2>3. CASE stream_task_ends(t)
    BY <2>3 DEF stream_task_ends, StreamInv
  <2> QED
    BY <2>1, <2>2, <2>3 DEF StreamStep
<1>4. CASE Shutdown
  BY <1>4 DEF Shutdown
<1>5. CASE UNCHANGED vars
  BY <1>5 DEF vars
<1> QED
  BY <1>1, <1>2, <1>3, <1>4, <1>5 DEF Next

(* The task at the head of a queue is one that waits.                      *)
LEMMA QueueHeads ==
    ASSUME TypeOK, QueueInv, NEW s \in Servers
    PROVE  /\ connQ[s] # <<>> => /\ Head(connQ[s]) \in Conns
                                /\ conn[Head(connQ[s])] = "queued" /\ owner[Head(connQ[s])] = s
           /\ streamQ[s] # <<>> => /\ Head(streamQ[s]) \in Streams
                                  /\ stream[Head(streamQ[s])] = "waiting"
                                  /\ owner[ConnOf[Head(streamQ[s])]] = s
<1>1. connQ[s] \in Seq(Conns) /\ streamQ[s] \in Seq(Streams)
  BY DEF TypeOK
<1>2. connQ[s] # <<>> => Head(connQ[s]) \in Queued(s)
  BY <1>1, Pop DEF QueueInv
<1>3. streamQ[s] # <<>> => Head(streamQ[s]) \in Waiting(s)
  BY <1>1, Pop DEF QueueInv
<1> QED
  BY <1>2, <1>3 DEF Queued, Waiting

(* The loop's life, action by action.                                      *)
LEMMA LifeStep == TypeOK /\ LifeInv /\ [Next]_vars => LifeInv'
<1> SUFFICES ASSUME TypeOK, LifeInv, [Next]_vars PROVE LifeInv'
  OBVIOUS
<1> USE DEF TypeOK, LifeInv, serverVars
<1>1. CASE \E s \in Servers : ServerStep(s)
  <2> PICK s \in Servers : ServerStep(s)
    BY <1>1
  <2>1. CASE serve_install(s)
    BY <2>1 DEF serve_install
  <2>2. CASE serve_spawn(s)
    BY <2>2 DEF serve_spawn
  <2>3. CASE drop(s)
    BY <2>3 DEF drop
  <2>4. CASE \E alpn \in {"rpc", "app"} : register_alpn_handler(s, alpn)
    BY <2>4 DEF register_alpn_handler
  <2>5. CASE accept_loop_ends(s)
    BY <2>5 DEF accept_loop_ends
  <2>6. CASE \E c \in Conns : accept(s, c)
    BY <2>6 DEF accept
  <2>7. CASE acquire_connection_permit(s)
    BY <2>7 DEF acquire_connection_permit
  <2>8. CASE acquire_stream_permit(s)
    BY <2>8 DEF acquire_stream_permit
  <2> QED
    BY <2>1, <2>2, <2>3, <2>4, <2>5, <2>6, <2>7, <2>8 DEF ServerStep
<1>2. CASE \E c \in Conns : ConnStep(c)
  <2> PICK c \in Conns : ConnStep(c)
    BY <1>2
  <2>1. CASE handshake_fails(c)
    BY <2>1 DEF handshake_fails
  <2>2. CASE dispatch_none(c)
    BY <2>2 DEF dispatch_none
  <2>3. CASE dispatch_custom(c)
    BY <2>3 DEF dispatch_custom
  <2>4. CASE dispatch_wire(c)
    BY <2>4 DEF dispatch_wire
  <2>5. CASE connection_loop_ends(c)
    BY <2>5 DEF connection_loop_ends
  <2>6. CASE Connect(c)
    BY <2>6 DEF Connect
  <2>7. CASE Disconnect(c)
    BY <2>7 DEF Disconnect
  <2> QED
    BY <2>1, <2>2, <2>3, <2>4, <2>5, <2>6, <2>7 DEF ConnStep
<1>3. CASE \E t \in Streams : StreamStep(t)
  <2> PICK t \in Streams : StreamStep(t)
    BY <1>3
  <2>1. CASE OpenStream(t)
    BY <2>1 DEF OpenStream
  <2>2. CASE accept_bi(t)
    BY <2>2 DEF accept_bi
  <2>3. CASE stream_task_ends(t)
    BY <2>3 DEF stream_task_ends
  <2> QED
    BY <2>1, <2>2, <2>3 DEF StreamStep
<1>4. CASE Shutdown
  BY <1>4 DEF Shutdown
<1>5. CASE UNCHANGED vars
  BY <1>5 DEF vars
<1> QED
  BY <1>1, <1>2, <1>3, <1>4, <1>5 DEF Next

(* A connection's task and its server.                                     *)
LEMMA ConnStepInv == TypeOK /\ LifeInv /\ ConnInv /\ QueueInv /\ [Next]_vars => ConnInv'
<1> SUFFICES ASSUME TypeOK, LifeInv, ConnInv, QueueInv, [Next]_vars PROVE ConnInv'
  OBVIOUS
<1> USE ServerAssumption DEF TypeOK, LifeInv, ConnInv, serverVars, permitVars, connVars
<1>1. CASE \E s \in Servers : ServerStep(s)
  <2> PICK s \in Servers : ServerStep(s)
    BY <1>1
  <2>1. CASE serve_install(s)
    BY <2>1 DEF serve_install
  <2>2. CASE serve_spawn(s)
    BY <2>2 DEF serve_spawn
  <2>3. CASE drop(s)
    BY <2>3 DEF drop
  <2>4. CASE \E alpn \in {"rpc", "app"} : register_alpn_handler(s, alpn)
    BY <2>4 DEF register_alpn_handler
  <2>5. CASE accept_loop_ends(s)
    BY <2>5 DEF accept_loop_ends
  <2>6. CASE \E c \in Conns : accept(s, c)
    BY <2>6 DEF accept
  <2>7. CASE acquire_connection_permit(s)
    <3>1. Head(connQ[s]) \in Conns /\ conn[Head(connQ[s])] = "queued"
      BY <2>7, QueueHeads DEF acquire_connection_permit
    <3> QED
      BY SMTT(30), <2>7, <3>1 DEF acquire_connection_permit
  <2>8. CASE acquire_stream_permit(s)
    BY <2>8 DEF acquire_stream_permit
  <2> QED
    BY <2>1, <2>2, <2>3, <2>4, <2>5, <2>6, <2>7, <2>8 DEF ServerStep
<1>2. CASE \E c \in Conns : ConnStep(c)
  <2> PICK c \in Conns : ConnStep(c)
    BY <1>2
  <2>1. CASE handshake_fails(c)
    BY <2>1 DEF handshake_fails
  <2>2. CASE dispatch_none(c)
    BY <2>2 DEF dispatch_none
  <2>3. CASE dispatch_custom(c)
    BY <2>3 DEF dispatch_custom
  <2>4. CASE dispatch_wire(c)
    BY <2>4 DEF dispatch_wire
  <2>5. CASE connection_loop_ends(c)
    BY <2>5 DEF connection_loop_ends
  <2>6. CASE Connect(c)
    BY <2>6 DEF Connect
  <2>7. CASE Disconnect(c)
    BY <2>7 DEF Disconnect
  <2> QED
    BY <2>1, <2>2, <2>3, <2>4, <2>5, <2>6, <2>7 DEF ConnStep
<1>3. CASE \E t \in Streams : StreamStep(t)
  <2> PICK t \in Streams : StreamStep(t)
    BY <1>3
  <2>1. CASE OpenStream(t)
    BY <2>1 DEF OpenStream
  <2>2. CASE accept_bi(t)
    BY <2>2 DEF accept_bi
  <2>3. CASE stream_task_ends(t)
    BY <2>3 DEF stream_task_ends
  <2> QED
    BY <2>1, <2>2, <2>3 DEF StreamStep
<1>4. CASE Shutdown
  BY <1>4 DEF Shutdown
<1>5. CASE UNCHANGED vars
  BY <1>5 DEF vars
<1> QED
  BY <1>1, <1>2, <1>3, <1>4, <1>5 DEF Next

(* A substream and its connection.                                         *)
LEMMA StreamStepInv ==
    TypeOK /\ ConnInv /\ StreamInv
      /\ QueueInv /\ [Next]_vars
    => StreamInv'
<1> SUFFICES ASSUME TypeOK, ConnInv, StreamInv, QueueInv, [Next]_vars PROVE StreamInv'
  OBVIOUS
<1> USE ServerAssumption DEF TypeOK, ConnInv, StreamInv, serverVars, permitVars, connVars
<1>1. CASE \E s \in Servers : ServerStep(s)
  <2> PICK s \in Servers : ServerStep(s)
    BY <1>1
  <2>1. CASE serve_install(s)
    BY <2>1 DEF serve_install
  <2>2. CASE serve_spawn(s)
    BY <2>2 DEF serve_spawn
  <2>3. CASE drop(s)
    BY <2>3 DEF drop
  <2>4. CASE \E alpn \in {"rpc", "app"} : register_alpn_handler(s, alpn)
    BY <2>4 DEF register_alpn_handler
  <2>5. CASE accept_loop_ends(s)
    BY <2>5 DEF accept_loop_ends
  <2>6. CASE \E c \in Conns : accept(s, c)
    BY <2>6 DEF accept
  <2>7. CASE acquire_connection_permit(s)
    <3>1. Head(connQ[s]) \in Conns /\ conn[Head(connQ[s])] = "queued"
      BY <2>7, QueueHeads DEF acquire_connection_permit
    <3> QED
      BY <2>7, <3>1 DEF acquire_connection_permit
  <2>8. CASE acquire_stream_permit(s)
    <3>1. Head(streamQ[s]) \in Streams /\ stream[Head(streamQ[s])] = "waiting"
      BY <2>8, QueueHeads DEF acquire_stream_permit
    <3> QED
      BY <2>8, <3>1 DEF acquire_stream_permit
  <2> QED
    BY <2>1, <2>2, <2>3, <2>4, <2>5, <2>6, <2>7, <2>8 DEF ServerStep
<1>2. CASE \E c \in Conns : ConnStep(c)
  <2> PICK c \in Conns : ConnStep(c)
    BY <1>2
  <2>1. CASE handshake_fails(c)
    BY <2>1 DEF handshake_fails
  <2>2. CASE dispatch_none(c)
    BY <2>2 DEF dispatch_none
  <2>3. CASE dispatch_custom(c)
    BY <2>3 DEF dispatch_custom
  <2>4. CASE dispatch_wire(c)
    BY <2>4 DEF dispatch_wire
  <2>5. CASE connection_loop_ends(c)
    BY <2>5 DEF connection_loop_ends
  <2>6. CASE Connect(c)
    BY <2>6 DEF Connect
  <2>7. CASE Disconnect(c)
    BY <2>7 DEF Disconnect
  <2> QED
    BY <2>1, <2>2, <2>3, <2>4, <2>5, <2>6, <2>7 DEF ConnStep
<1>3. CASE \E t \in Streams : StreamStep(t)
  <2> PICK t \in Streams : StreamStep(t)
    BY <1>3
  <2>1. CASE OpenStream(t)
    BY <2>1 DEF OpenStream
  <2>2. CASE accept_bi(t)
    BY <2>2 DEF accept_bi
  <2>3. CASE stream_task_ends(t)
    BY <2>3 DEF stream_task_ends
  <2> QED
    BY <2>1, <2>2, <2>3 DEF StreamStep
<1>4. CASE Shutdown
  BY <1>4 DEF Shutdown
<1>5. CASE UNCHANGED vars
  BY <1>5 DEF vars
<1> QED
  BY <1>1, <1>2, <1>3, <1>4, <1>5 DEF Next

(* The queues, action by action.                                           *)
LEMMA QueueStep == TypeOK /\ ConnInv /\ StreamInv /\ QueueInv /\ [Next]_vars => QueueInv'
<1> SUFFICES ASSUME TypeOK, ConnInv, StreamInv, QueueInv, [Next]_vars PROVE QueueInv'
  OBVIOUS
<1> USE ServerAssumption DEF serverVars, permitVars, connVars
<1>1. CASE \E s \in Servers : ServerStep(s)
  <2> PICK s \in Servers : ServerStep(s)
    BY <1>1
  <2>1. CASE serve_install(s)
    <3>1. \A r \in Servers : Queued(r)' = Queued(r) /\ Waiting(r)' = Waiting(r)
      BY <2>1 DEF serve_install, TypeOK, StreamInv, Queued, Waiting
    <3> QED
      BY <2>1, <3>1 DEF serve_install, QueueInv
  <2>2. CASE serve_spawn(s)
    <3>1. \A r \in Servers : Queued(r)' = Queued(r) /\ Waiting(r)' = Waiting(r)
      BY <2>2 DEF serve_spawn, TypeOK, StreamInv, Queued, Waiting
    <3> QED
      BY <2>2, <3>1 DEF serve_spawn, QueueInv
  <2>3. CASE drop(s)
    <3>1. \A r \in Servers : Queued(r)' = Queued(r) /\ Waiting(r)' = Waiting(r)
      BY <2>3 DEF drop, TypeOK, StreamInv, Queued, Waiting
    <3> QED
      BY <2>3, <3>1 DEF drop, QueueInv
  <2>4. CASE \E alpn \in {"rpc", "app"} : register_alpn_handler(s, alpn)
    <3>1. \A r \in Servers : Queued(r)' = Queued(r) /\ Waiting(r)' = Waiting(r)
      BY <2>4 DEF register_alpn_handler, TypeOK, StreamInv, Queued, Waiting
    <3> QED
      BY <2>4, <3>1 DEF register_alpn_handler, QueueInv
  <2>5. CASE accept_loop_ends(s)
    <3>1. \A r \in Servers : Queued(r)' = Queued(r) /\ Waiting(r)' = Waiting(r)
      BY <2>5 DEF accept_loop_ends, TypeOK, StreamInv, Queued, Waiting
    <3> QED
      BY <2>5, <3>1 DEF accept_loop_ends, QueueInv
  <2>6. CASE \E c \in Conns : accept(s, c)
    <3>0. PICK c \in Conns : accept(s, c)
      BY <2>6
    <3>1. \A r \in Servers : Queued(r)' = Queued(r)
      BY <3>0 DEF accept, TypeOK, Queued
    <3>2. \A r \in Servers : Waiting(r)' = Waiting(r)
      <4>1. \A t \in Streams : stream[t] = "waiting" => ConnOf[t] # c
        BY <3>0 DEF accept, StreamInv
      <4>2. \A t \in Streams : ConnOf[t] # c => owner'[ConnOf[t]] = owner[ConnOf[t]]
        BY <3>0 DEF accept, TypeOK
      <4> QED
        BY <3>0, <4>1, <4>2 DEF accept, Waiting
    <3> QED
      BY <3>0, <3>1, <3>2 DEF accept, QueueInv
  <2>7. CASE acquire_connection_permit(s)
    <3>1. connQ[s] \in Seq(Conns) /\ connQ[s] # <<>> /\ Distinct(connQ[s])
      BY <2>7 DEF acquire_connection_permit, TypeOK, QueueInv
    <3>2. /\ Distinct(connQ'[s])
          /\ Elems(connQ'[s]) = Queued(s) \ {Head(connQ[s])}
          /\ Head(connQ[s]) \in Queued(s)
      BY <2>7, <3>1, Pop DEF acquire_connection_permit, TypeOK, QueueInv
    <3>3. \A r \in Servers \ {s} : connQ'[r] = connQ[r]
      BY <2>7 DEF acquire_connection_permit, TypeOK
    <3>4. /\ Queued(s)' = Queued(s) \ {Head(connQ[s])}
          /\ \A r \in Servers \ {s} : Queued(r)' = Queued(r)
          /\ \A r \in Servers : Waiting(r)' = Waiting(r)
      BY <2>7, <3>2 DEF acquire_connection_permit, TypeOK, Queued, Waiting
    <3>5. streamQ' = streamQ
      BY <2>7 DEF acquire_connection_permit
    <3> QED
      BY <3>2, <3>3, <3>4, <3>5 DEF QueueInv
  <2>8. CASE acquire_stream_permit(s)
    <3>1. streamQ[s] \in Seq(Streams) /\ streamQ[s] # <<>> /\ Distinct(streamQ[s])
      BY <2>8 DEF acquire_stream_permit, TypeOK, QueueInv
    <3>2. /\ Distinct(streamQ'[s])
          /\ Elems(streamQ'[s]) = Waiting(s) \ {Head(streamQ[s])}
          /\ Head(streamQ[s]) \in Waiting(s)
      BY <2>8, <3>1, Pop DEF acquire_stream_permit, TypeOK, QueueInv
    <3>3. \A r \in Servers \ {s} : streamQ'[r] = streamQ[r]
      BY <2>8 DEF acquire_stream_permit, TypeOK
    <3>4. /\ Waiting(s)' = Waiting(s) \ {Head(streamQ[s])}
          /\ \A r \in Servers \ {s} : Waiting(r)' = Waiting(r)
          /\ \A r \in Servers : Queued(r)' = Queued(r)
      BY <2>8, <3>2 DEF acquire_stream_permit, TypeOK, Queued, Waiting
    <3>5. connQ' = connQ
      BY <2>8 DEF acquire_stream_permit
    <3> QED
      BY <3>2, <3>3, <3>4, <3>5 DEF QueueInv
  <2> QED
    BY <2>1, <2>2, <2>3, <2>4, <2>5, <2>6, <2>7, <2>8 DEF ServerStep
<1>2. CASE \E c \in Conns : ConnStep(c)
  <2> PICK c \in Conns : ConnStep(c)
    BY <1>2
  <2>1. CASE handshake_fails(c)
    <3>1. \A r \in Servers : Queued(r)' = Queued(r) /\ Waiting(r)' = Waiting(r)
      BY <2>1 DEF handshake_fails, TypeOK, StreamInv, Queued, Waiting
    <3> QED
      BY <2>1, <3>1 DEF handshake_fails, QueueInv
  <2>2. CASE dispatch_none(c)
    <3>1. \A r \in Servers : Queued(r)' = Queued(r) /\ Waiting(r)' = Waiting(r)
      BY <2>2 DEF dispatch_none, TypeOK, StreamInv, Queued, Waiting
    <3> QED
      BY <2>2, <3>1 DEF dispatch_none, QueueInv
  <2>3. CASE dispatch_custom(c)
    <3>1. \A r \in Servers : Queued(r)' = Queued(r) /\ Waiting(r)' = Waiting(r)
      BY <2>3 DEF dispatch_custom, TypeOK, StreamInv, Queued, Waiting
    <3> QED
      BY <2>3, <3>1 DEF dispatch_custom, QueueInv
  <2>4. CASE dispatch_wire(c)
    <3>0. PICK s \in Servers : s = owner[c]
      BY <2>4 DEF dispatch_wire, ConnInv, StreamInv
    <3>1. connQ[s] \in Seq(Conns) /\ Distinct(connQ[s])
      BY DEF TypeOK, QueueInv
    <3>2. c \notin Elems(connQ[s])
      BY <2>4, <3>0 DEF dispatch_wire, QueueInv, Queued
    <3>3. Distinct(connQ'[s]) /\ Elems(connQ'[s]) = Queued(s) \cup {c}
      BY <2>4, <3>0, <3>1, <3>2, Push DEF dispatch_wire, TypeOK, QueueInv
    <3>4. \A r \in Servers \ {s} : connQ'[r] = connQ[r]
      BY <2>4, <3>0 DEF dispatch_wire, TypeOK
    <3>5. /\ Queued(s)' = Queued(s) \cup {c}
          /\ \A r \in Servers \ {s} : Queued(r)' = Queued(r)
          /\ \A r \in Servers : Waiting(r)' = Waiting(r)
      BY <2>4, <3>0 DEF dispatch_wire, TypeOK, Queued, Waiting
    <3>6. streamQ' = streamQ
      BY <2>4 DEF dispatch_wire
    <3> QED
      BY <3>3, <3>4, <3>5, <3>6 DEF QueueInv
  <2>5. CASE connection_loop_ends(c)
    <3>1. \A r \in Servers : Queued(r)' = Queued(r) /\ Waiting(r)' = Waiting(r)
      BY <2>5 DEF connection_loop_ends, TypeOK, StreamInv, Queued, Waiting
    <3> QED
      BY <2>5, <3>1 DEF connection_loop_ends, QueueInv
  <2>6. CASE Connect(c)
    <3>1. \A r \in Servers : Queued(r)' = Queued(r) /\ Waiting(r)' = Waiting(r)
      BY <2>6 DEF Connect, TypeOK, StreamInv, Queued, Waiting
    <3> QED
      BY <2>6, <3>1 DEF Connect, QueueInv
  <2>7. CASE Disconnect(c)
    <3>1. \A r \in Servers : Queued(r)' = Queued(r) /\ Waiting(r)' = Waiting(r)
      BY <2>7 DEF Disconnect, TypeOK, StreamInv, Queued, Waiting
    <3> QED
      BY <2>7, <3>1 DEF Disconnect, QueueInv
  <2> QED
    BY <2>1, <2>2, <2>3, <2>4, <2>5, <2>6, <2>7 DEF ConnStep
<1>3. CASE \E t \in Streams : StreamStep(t)
  <2> PICK t \in Streams : StreamStep(t)
    BY <1>3
  <2>1. CASE OpenStream(t)
    <3>1. \A r \in Servers : Queued(r)' = Queued(r) /\ Waiting(r)' = Waiting(r)
      BY <2>1 DEF OpenStream, TypeOK, StreamInv, Queued, Waiting
    <3> QED
      BY <2>1, <3>1 DEF OpenStream, QueueInv
  <2>2. CASE accept_bi(t)
    <3>0. PICK s \in Servers : s = owner[ConnOf[t]]
      BY <2>2 DEF accept_bi, ConnInv, StreamInv
    <3>1. streamQ[s] \in Seq(Streams) /\ Distinct(streamQ[s])
      BY DEF TypeOK, QueueInv
    <3>2. t \notin Elems(streamQ[s])
      BY <2>2, <3>0 DEF accept_bi, QueueInv, Waiting
    <3>3. Distinct(streamQ'[s]) /\ Elems(streamQ'[s]) = Waiting(s) \cup {t}
      BY <2>2, <3>0, <3>1, <3>2, Push DEF accept_bi, TypeOK, QueueInv
    <3>4. \A r \in Servers \ {s} : streamQ'[r] = streamQ[r]
      BY <2>2, <3>0 DEF accept_bi, TypeOK
    <3>5. /\ Waiting(s)' = Waiting(s) \cup {t}
          /\ \A r \in Servers \ {s} : Waiting(r)' = Waiting(r)
          /\ \A r \in Servers : Queued(r)' = Queued(r)
      BY <2>2, <3>0 DEF accept_bi, TypeOK, Queued, Waiting
    <3>6. connQ' = connQ
      BY <2>2 DEF accept_bi
    <3> QED
      BY <3>3, <3>4, <3>5, <3>6 DEF QueueInv
  <2>3. CASE stream_task_ends(t)
    <3>1. \A r \in Servers : Queued(r)' = Queued(r) /\ Waiting(r)' = Waiting(r)
      BY <2>3 DEF stream_task_ends, TypeOK, StreamInv, Queued, Waiting
    <3> QED
      BY <2>3, <3>1 DEF stream_task_ends, QueueInv
  <2> QED
    BY <2>1, <2>2, <2>3 DEF StreamStep
<1>4. CASE Shutdown
  <2>1. \A r \in Servers : Queued(r)' = Queued(r) /\ Waiting(r)' = Waiting(r)
    BY <1>4 DEF Shutdown, TypeOK, StreamInv, Queued, Waiting
  <2> QED
    BY <1>4, <2>1 DEF Shutdown, QueueInv
<1>5. CASE UNCHANGED vars
  <2>1. \A r \in Servers : Queued(r)' = Queued(r) /\ Waiting(r)' = Waiting(r)
    BY <1>5 DEF vars, TypeOK, StreamInv, Queued, Waiting
  <2> QED
    BY <1>5, <2>1 DEF vars, QueueInv
<1> QED
  BY <1>1, <1>2, <1>3, <1>4, <1>5 DEF Next

-----------------------------------------------------------------------------
(* Counting permits: the holders of a server's permits are finitely many.   *)
LEMMA Holders ==
    ASSUME NEW s \in Servers
    PROVE  /\ IsFiniteSet(Running(s)) /\ Cardinality(Running(s)) \in Nat
           /\ IsFiniteSet(Looping(s)) /\ Cardinality(Looping(s)) \in Nat
<1>1. Running(s) \in SUBSET Streams /\ Looping(s) \in SUBSET Conns
  BY DEF Running, Looping
<1> QED
  BY <1>1, ServerAssumption, FS_Subset, FS_CardinalityType

(* Substreams: what a step takes from the free permits, a task holds.      *)
LEMMA StreamPermitStep ==
    TypeOK /\ LifeInv /\ ConnInv /\ StreamInv
      /\ QueueInv /\ StreamPermitsConserved /\ [Next]_vars
    => StreamPermitsConserved'
<1> SUFFICES ASSUME TypeOK, LifeInv, ConnInv, StreamInv,
                    QueueInv, StreamPermitsConserved, [Next]_vars
             PROVE  StreamPermitsConserved'
  OBVIOUS
<1> USE ServerAssumption DEF serverVars, permitVars, connVars
<1>1. CASE \E s \in Servers : ServerStep(s)
  <2> PICK s \in Servers : ServerStep(s)
    BY <1>1
  <2>1. CASE serve_install(s)
    <3>1. Running(s) = {} /\ \A r \in Servers : Running(r)' = Running(r)
      BY <2>1 DEF serve_install, TypeOK, LifeInv, ConnInv, StreamInv, Running
    <3>2. streamFree[s] = MaxStreams
      <4>1. Cardinality(Running(s)) = 0
        BY <3>1, FS_EmptySet
      <4>2. streamFree[s] + Cardinality(Running(s)) = MaxStreams /\ streamFree[s] \in Nat
        BY DEF StreamPermitsConserved, TypeOK
      <4> QED
        BY <4>1, <4>2
    <3>3. streamFree' = streamFree
      BY <2>1, <3>2 DEF serve_install, TypeOK
    <3> QED
      BY <3>1, <3>3 DEF StreamPermitsConserved
  <2>2. CASE serve_spawn(s)
    <3>1. \A r \in Servers : Running(r)' = Running(r)
      BY <2>2 DEF serve_spawn, TypeOK, Running
    <3> QED
      BY <2>2, <3>1 DEF serve_spawn, StreamPermitsConserved
  <2>3. CASE drop(s)
    <3>1. \A r \in Servers : Running(r)' = Running(r)
      BY <2>3 DEF drop, TypeOK, Running
    <3> QED
      BY <2>3, <3>1 DEF drop, StreamPermitsConserved
  <2>4. CASE \E alpn \in {"rpc", "app"} : register_alpn_handler(s, alpn)
    <3>1. \A r \in Servers : Running(r)' = Running(r)
      BY <2>4 DEF register_alpn_handler, TypeOK, Running
    <3> QED
      BY <2>4, <3>1 DEF register_alpn_handler, StreamPermitsConserved
  <2>5. CASE accept_loop_ends(s)
    <3>1. \A r \in Servers : Running(r)' = Running(r)
      BY <2>5 DEF accept_loop_ends, TypeOK, Running
    <3> QED
      BY <2>5, <3>1 DEF accept_loop_ends, StreamPermitsConserved
  <2>6. CASE \E c \in Conns : accept(s, c)
    <3>0. PICK c \in Conns : accept(s, c)
      BY <2>6
    <3>1. \A r \in Servers : Running(r)' = Running(r)
      <4>1. \A t \in Streams : stream[t] = "running" => ConnOf[t] # c
        BY <3>0 DEF accept, StreamInv
      <4>2. \A t \in Streams : ConnOf[t] # c => owner'[ConnOf[t]] = owner[ConnOf[t]]
        BY <3>0 DEF accept, TypeOK
      <4> QED
        BY <3>0, <4>1, <4>2 DEF accept, Running
    <3> QED
      BY <3>0, <3>1 DEF accept, StreamPermitsConserved
  <2>7. CASE acquire_connection_permit(s)
    <3>1. \A r \in Servers : Running(r)' = Running(r)
      BY <2>7, QueueHeads DEF acquire_connection_permit, TypeOK, Running
    <3> QED
      BY <2>7, <3>1 DEF acquire_connection_permit, StreamPermitsConserved
  <2>8. CASE acquire_stream_permit(s)
    <3> DEFINE h == Head(streamQ[s])
    <3>a. h \in Streams /\ stream[h] = "waiting" /\ owner[ConnOf[h]] = s
      BY <2>8, QueueHeads DEF acquire_stream_permit
    <3>b. stream' = [stream EXCEPT ![h] = "running"] /\ owner' = owner
      BY <2>8 DEF acquire_stream_permit
    <3> HIDE DEF h
    <3>1. h \notin Running(s) /\ Running(s)' = Running(s) \cup {h}
      BY <3>a, <3>b DEF TypeOK, Running
    <3>2. Cardinality(Running(s)') = Cardinality(Running(s)) + 1
      BY <3>1, Holders, FS_AddElement
    <3>3. streamFree'[s] = streamFree[s] - 1 /\ streamFree[s] \in Nat
      BY <2>8 DEF acquire_stream_permit, TypeOK
    <3>4. \A r \in Servers \ {s} : streamFree'[r] = streamFree[r]
      BY <2>8 DEF acquire_stream_permit, TypeOK
    <3>6. \A r \in Servers \ {s} : Running(r)' = Running(r)
      BY <3>a, <3>b DEF TypeOK, Running
    <3>5. streamFree'[s] + Cardinality(Running(s)') = MaxStreams
      BY <3>2, <3>3, Holders DEF StreamPermitsConserved
    <3> QED
      BY <3>4, <3>5, <3>6 DEF StreamPermitsConserved
  <2> QED
    BY <2>1, <2>2, <2>3, <2>4, <2>5, <2>6, <2>7, <2>8 DEF ServerStep
<1>2. CASE \E c \in Conns : ConnStep(c)
  <2> PICK c \in Conns : ConnStep(c)
    BY <1>2
  <2>1. CASE handshake_fails(c)
    <3>1. \A r \in Servers : Running(r)' = Running(r)
      BY <2>1 DEF handshake_fails, TypeOK, Running
    <3> QED
      BY <2>1, <3>1 DEF handshake_fails, StreamPermitsConserved
  <2>2. CASE dispatch_none(c)
    <3>1. \A r \in Servers : Running(r)' = Running(r)
      BY <2>2 DEF dispatch_none, TypeOK, Running
    <3> QED
      BY <2>2, <3>1 DEF dispatch_none, StreamPermitsConserved
  <2>3. CASE dispatch_custom(c)
    <3>1. \A r \in Servers : Running(r)' = Running(r)
      BY <2>3 DEF dispatch_custom, TypeOK, Running
    <3> QED
      BY <2>3, <3>1 DEF dispatch_custom, StreamPermitsConserved
  <2>4. CASE dispatch_wire(c)
    <3>1. \A r \in Servers : Running(r)' = Running(r)
      BY <2>4 DEF dispatch_wire, TypeOK, Running
    <3> QED
      BY <2>4, <3>1 DEF dispatch_wire, StreamPermitsConserved
  <2>5. CASE connection_loop_ends(c)
    <3>1. \A r \in Servers : Running(r)' = Running(r)
      BY <2>5 DEF connection_loop_ends, TypeOK, Running
    <3> QED
      BY <2>5, <3>1 DEF connection_loop_ends, StreamPermitsConserved
  <2>6. CASE Connect(c)
    <3>1. \A r \in Servers : Running(r)' = Running(r)
      BY <2>6 DEF Connect, TypeOK, Running
    <3> QED
      BY <2>6, <3>1 DEF Connect, StreamPermitsConserved
  <2>7. CASE Disconnect(c)
    <3>1. \A r \in Servers : Running(r)' = Running(r)
      BY <2>7 DEF Disconnect, TypeOK, Running
    <3> QED
      BY <2>7, <3>1 DEF Disconnect, StreamPermitsConserved
  <2> QED
    BY <2>1, <2>2, <2>3, <2>4, <2>5, <2>6, <2>7 DEF ConnStep
<1>3. CASE \E t \in Streams : StreamStep(t)
  <2> PICK t \in Streams : StreamStep(t)
    BY <1>3
  <2>1. CASE OpenStream(t)
    <3>1. \A r \in Servers : Running(r)' = Running(r)
      BY <2>1 DEF OpenStream, TypeOK, Running
    <3> QED
      BY <2>1, <3>1 DEF OpenStream, StreamPermitsConserved
  <2>2. CASE accept_bi(t)
    <3>1. \A r \in Servers : Running(r)' = Running(r)
      BY <2>2 DEF accept_bi, TypeOK, Running
    <3> QED
      BY <2>2, <3>1 DEF accept_bi, StreamPermitsConserved
  <2>3. CASE stream_task_ends(t)
    <3>0. PICK s \in Servers : s = owner[ConnOf[t]]
      BY <2>3 DEF stream_task_ends, ConnInv, StreamInv
    <3>1. t \in Running(s) /\ Running(s)' = Running(s) \ {t}
      BY <2>3, <3>0 DEF stream_task_ends, TypeOK, Running
    <3>2. Cardinality(Running(s)') = Cardinality(Running(s)) - 1
      BY <3>1, Holders, FS_RemoveElement
    <3>3. streamFree'[s] = streamFree[s] + 1 /\ streamFree[s] \in Nat
      BY <2>3, <3>0 DEF stream_task_ends, TypeOK
    <3>4. \A r \in Servers \ {s} : streamFree'[r] = streamFree[r] /\ Running(r)' = Running(r)
      BY <2>3, <3>0 DEF stream_task_ends, TypeOK, Running
    <3>5. streamFree'[s] + Cardinality(Running(s)') = MaxStreams
      BY <3>2, <3>3, Holders DEF StreamPermitsConserved
    <3> QED
      BY <3>4, <3>5 DEF StreamPermitsConserved
  <2> QED
    BY <2>1, <2>2, <2>3 DEF StreamStep
<1>4. CASE Shutdown
  <2>1. \A r \in Servers : Running(r)' = Running(r)
    BY <1>4 DEF Shutdown, TypeOK, Running
  <2> QED
    BY <1>4, <2>1 DEF Shutdown, StreamPermitsConserved
<1>5. CASE UNCHANGED vars
  <2>1. \A r \in Servers : Running(r)' = Running(r)
    BY <1>5 DEF vars, TypeOK, Running
  <2> QED
    BY <1>5, <2>1 DEF vars, StreamPermitsConserved
<1> QED
  BY <1>1, <1>2, <1>3, <1>4, <1>5 DEF Next

(* Connections, likewise.                                                  *)
LEMMA ConnPermitStep ==
    TypeOK /\ LifeInv /\ ConnInv /\ StreamInv
      /\ QueueInv /\ ConnPermitsConserved /\ [Next]_vars
    => ConnPermitsConserved'
<1> SUFFICES ASSUME TypeOK, LifeInv, ConnInv, StreamInv,
                    QueueInv, ConnPermitsConserved, [Next]_vars
             PROVE  ConnPermitsConserved'
  OBVIOUS
<1> USE ServerAssumption DEF serverVars, permitVars, connVars
<1>1. CASE \E s \in Servers : ServerStep(s)
  <2> PICK s \in Servers : ServerStep(s)
    BY <1>1
  <2>1. CASE serve_install(s)
    <3>1. Looping(s) = {} /\ \A r \in Servers : Looping(r)' = Looping(r)
      BY <2>1 DEF serve_install, TypeOK, LifeInv, ConnInv, StreamInv, Looping
    <3>2. connFree[s] = MaxConns
      <4>1. Cardinality(Looping(s)) = 0
        BY <3>1, FS_EmptySet
      <4>2. connFree[s] + Cardinality(Looping(s)) = MaxConns /\ connFree[s] \in Nat
        BY DEF ConnPermitsConserved, TypeOK
      <4> QED
        BY <4>1, <4>2
    <3>3. connFree' = connFree
      BY <2>1, <3>2 DEF serve_install, TypeOK
    <3> QED
      BY <3>1, <3>3 DEF ConnPermitsConserved
  <2>2. CASE serve_spawn(s)
    <3>1. \A r \in Servers : Looping(r)' = Looping(r)
      BY <2>2 DEF serve_spawn, TypeOK, Looping
    <3> QED
      BY <2>2, <3>1 DEF serve_spawn, ConnPermitsConserved
  <2>3. CASE drop(s)
    <3>1. \A r \in Servers : Looping(r)' = Looping(r)
      BY <2>3 DEF drop, TypeOK, Looping
    <3> QED
      BY <2>3, <3>1 DEF drop, ConnPermitsConserved
  <2>4. CASE \E alpn \in {"rpc", "app"} : register_alpn_handler(s, alpn)
    <3>1. \A r \in Servers : Looping(r)' = Looping(r)
      BY <2>4 DEF register_alpn_handler, TypeOK, Looping
    <3> QED
      BY <2>4, <3>1 DEF register_alpn_handler, ConnPermitsConserved
  <2>5. CASE accept_loop_ends(s)
    <3>1. \A r \in Servers : Looping(r)' = Looping(r)
      BY <2>5 DEF accept_loop_ends, TypeOK, Looping
    <3> QED
      BY <2>5, <3>1 DEF accept_loop_ends, ConnPermitsConserved
  <2>6. CASE \E c \in Conns : accept(s, c)
    <3>0. PICK c \in Conns : accept(s, c)
      BY <2>6
    <3>1. \A r \in Servers : Looping(r)' = Looping(r)
      BY <3>0 DEF accept, TypeOK, Looping
    <3> QED
      BY <3>0, <3>1 DEF accept, ConnPermitsConserved
  <2>7. CASE acquire_connection_permit(s)
    <3> DEFINE h == Head(connQ[s])
    <3>a. h \in Conns /\ conn[h] = "queued" /\ owner[h] = s
      BY <2>7, QueueHeads DEF acquire_connection_permit
    <3>b. conn' = [conn EXCEPT ![h] = "looping"] /\ owner' = owner
      BY <2>7 DEF acquire_connection_permit
    <3> HIDE DEF h
    <3>1. h \notin Looping(s) /\ Looping(s)' = Looping(s) \cup {h}
      BY <3>a, <3>b DEF TypeOK, Looping
    <3>2. Cardinality(Looping(s)') = Cardinality(Looping(s)) + 1
      BY <3>1, Holders, FS_AddElement
    <3>3. connFree'[s] = connFree[s] - 1 /\ connFree[s] \in Nat
      BY <2>7 DEF acquire_connection_permit, TypeOK
    <3>4. \A r \in Servers \ {s} : connFree'[r] = connFree[r]
      BY <2>7 DEF acquire_connection_permit, TypeOK
    <3>6. \A r \in Servers \ {s} : Looping(r)' = Looping(r)
      BY <3>a, <3>b DEF TypeOK, Looping
    <3>5. connFree'[s] + Cardinality(Looping(s)') = MaxConns
      BY <3>2, <3>3, Holders DEF ConnPermitsConserved
    <3> QED
      BY <3>4, <3>5, <3>6 DEF ConnPermitsConserved
  <2>8. CASE acquire_stream_permit(s)
    <3>1. \A r \in Servers : Looping(r)' = Looping(r)
      BY <2>8, QueueHeads DEF acquire_stream_permit, TypeOK, Looping
    <3> QED
      BY <2>8, <3>1 DEF acquire_stream_permit, ConnPermitsConserved
  <2> QED
    BY <2>1, <2>2, <2>3, <2>4, <2>5, <2>6, <2>7, <2>8 DEF ServerStep
<1>2. CASE \E c \in Conns : ConnStep(c)
  <2> PICK c \in Conns : ConnStep(c)
    BY <1>2
  <2>1. CASE handshake_fails(c)
    <3>1. \A r \in Servers : Looping(r)' = Looping(r)
      BY <2>1 DEF handshake_fails, TypeOK, Looping
    <3> QED
      BY <2>1, <3>1 DEF handshake_fails, ConnPermitsConserved
  <2>2. CASE dispatch_none(c)
    <3>1. \A r \in Servers : Looping(r)' = Looping(r)
      BY <2>2 DEF dispatch_none, TypeOK, Looping
    <3> QED
      BY <2>2, <3>1 DEF dispatch_none, ConnPermitsConserved
  <2>3. CASE dispatch_custom(c)
    <3>1. \A r \in Servers : Looping(r)' = Looping(r)
      BY <2>3 DEF dispatch_custom, TypeOK, Looping
    <3> QED
      BY <2>3, <3>1 DEF dispatch_custom, ConnPermitsConserved
  <2>4. CASE dispatch_wire(c)
    <3>1. \A r \in Servers : Looping(r)' = Looping(r)
      BY <2>4 DEF dispatch_wire, TypeOK, Looping
    <3> QED
      BY <2>4, <3>1 DEF dispatch_wire, ConnPermitsConserved
  <2>5. CASE connection_loop_ends(c)
    <3>0. PICK s \in Servers : s = owner[c]
      BY <2>5 DEF connection_loop_ends, ConnInv, StreamInv
    <3>1. c \in Looping(s) /\ Looping(s)' = Looping(s) \ {c}
      BY <2>5, <3>0 DEF connection_loop_ends, TypeOK, Looping
    <3>2. Cardinality(Looping(s)') = Cardinality(Looping(s)) - 1
      BY <3>1, Holders, FS_RemoveElement
    <3>3. connFree'[s] = connFree[s] + 1 /\ connFree[s] \in Nat
      BY <2>5, <3>0 DEF connection_loop_ends, TypeOK
    <3>4. \A r \in Servers \ {s} : connFree'[r] = connFree[r] /\ Looping(r)' = Looping(r)
      BY <2>5, <3>0 DEF connection_loop_ends, TypeOK, Looping
    <3>5. connFree'[s] + Cardinality(Looping(s)') = MaxConns
      BY <3>2, <3>3, Holders DEF ConnPermitsConserved
    <3> QED
      BY <3>4, <3>5 DEF ConnPermitsConserved
  <2>6. CASE Connect(c)
    <3>1. \A r \in Servers : Looping(r)' = Looping(r)
      BY <2>6 DEF Connect, TypeOK, Looping
    <3> QED
      BY <2>6, <3>1 DEF Connect, ConnPermitsConserved
  <2>7. CASE Disconnect(c)
    <3>1. \A r \in Servers : Looping(r)' = Looping(r)
      BY <2>7 DEF Disconnect, TypeOK, Looping
    <3> QED
      BY <2>7, <3>1 DEF Disconnect, ConnPermitsConserved
  <2> QED
    BY <2>1, <2>2, <2>3, <2>4, <2>5, <2>6, <2>7 DEF ConnStep
<1>3. CASE \E t \in Streams : StreamStep(t)
  <2> PICK t \in Streams : StreamStep(t)
    BY <1>3
  <2>1. CASE OpenStream(t)
    <3>1. \A r \in Servers : Looping(r)' = Looping(r)
      BY <2>1 DEF OpenStream, TypeOK, Looping
    <3> QED
      BY <2>1, <3>1 DEF OpenStream, ConnPermitsConserved
  <2>2. CASE accept_bi(t)
    <3>1. \A r \in Servers : Looping(r)' = Looping(r)
      BY <2>2 DEF accept_bi, TypeOK, Looping
    <3> QED
      BY <2>2, <3>1 DEF accept_bi, ConnPermitsConserved
  <2>3. CASE stream_task_ends(t)
    <3>1. \A r \in Servers : Looping(r)' = Looping(r)
      BY <2>3 DEF stream_task_ends, TypeOK, Looping
    <3> QED
      BY <2>3, <3>1 DEF stream_task_ends, ConnPermitsConserved
  <2> QED
    BY <2>1, <2>2, <2>3 DEF StreamStep
<1>4. CASE Shutdown
  <2>1. \A r \in Servers : Looping(r)' = Looping(r)
    BY <1>4 DEF Shutdown, TypeOK, Looping
  <2> QED
    BY <1>4, <2>1 DEF Shutdown, ConnPermitsConserved
<1>5. CASE UNCHANGED vars
  <2>1. \A r \in Servers : Looping(r)' = Looping(r)
    BY <1>5 DEF vars, TypeOK, Looping
  <2> QED
    BY <1>5, <2>1 DEF vars, ConnPermitsConserved
<1> QED
  BY <1>1, <1>2, <1>3, <1>4, <1>5 DEF Next

-----------------------------------------------------------------------------
(* Ids, action by action.                                                  *)
LEMMA IdStep ==
    TypeOK /\ ConnInv /\ LifeInv
      /\ ConnectionIdsUnique /\ [Next]_vars
    => ConnectionIdsUnique'
<1> SUFFICES ASSUME TypeOK, ConnInv, LifeInv,
                    ConnectionIdsUnique, [Next]_vars
             PROVE  ConnectionIdsUnique'
  OBVIOUS
<1> USE ServerAssumption DEF serverVars, permitVars, connVars
<1>1. CASE \E s \in Servers : ServerStep(s)
  <2> PICK s \in Servers : ServerStep(s)
    BY <1>1
  <2>1. CASE serve_install(s)
    BY <2>1 DEF serve_install, ConnectionIdsUnique
  <2>2. CASE serve_spawn(s)
    BY <2>2 DEF serve_spawn, ConnectionIdsUnique
  <2>3. CASE drop(s)
    BY <2>3 DEF drop, ConnectionIdsUnique
  <2>4. CASE \E alpn \in {"rpc", "app"} : register_alpn_handler(s, alpn)
    BY <2>4 DEF register_alpn_handler, ConnectionIdsUnique
  <2>5. CASE accept_loop_ends(s)
    BY <2>5 DEF accept_loop_ends, ConnectionIdsUnique
  <2>6. CASE \E c \in Conns : accept(s, c)
    <3>1. PICK c \in Conns : accept(s, c)
      BY <2>6
    <3>2. id' = id /\ id[c] = 0 /\ \A d \in Conns \ {c} : owner'[d] = owner[d]
      BY <3>1 DEF accept, TypeOK, ConnInv
    <3> QED
      BY <3>2 DEF ConnectionIdsUnique
  <2>7. CASE acquire_connection_permit(s)
    BY <2>7 DEF acquire_connection_permit, ConnectionIdsUnique
  <2>8. CASE acquire_stream_permit(s)
    BY <2>8 DEF acquire_stream_permit, ConnectionIdsUnique
  <2> QED
    BY <2>1, <2>2, <2>3, <2>4, <2>5, <2>6, <2>7, <2>8 DEF ServerStep
<1>2. CASE \E c \in Conns : ConnStep(c)
  <2> PICK c \in Conns : ConnStep(c)
    BY <1>2
  <2>1. CASE handshake_fails(c)
    BY <2>1 DEF handshake_fails, ConnectionIdsUnique
  <2>2. CASE dispatch_none(c)
    BY <2>2 DEF dispatch_none, ConnectionIdsUnique
  <2>3. CASE dispatch_custom(c)
    BY <2>3 DEF dispatch_custom, ConnectionIdsUnique
  <2>4. CASE dispatch_wire(c)
    <3>1. \A d \in Conns : id[d] # 0 /\ owner[d] = owner[c] => id[d] # counter[owner[c]]
      BY <2>4 DEF dispatch_wire, TypeOK, ConnInv
    <3>2. /\ owner' = owner /\ id'[c] = counter[owner[c]]
          /\ \A d \in Conns \ {c} : id'[d] = id[d]
      BY <2>4 DEF dispatch_wire, TypeOK
    <3> QED
      BY <3>1, <3>2 DEF ConnectionIdsUnique
  <2>5. CASE connection_loop_ends(c)
    BY <2>5 DEF connection_loop_ends, ConnectionIdsUnique
  <2>6. CASE Connect(c)
    BY <2>6 DEF Connect, ConnectionIdsUnique
  <2>7. CASE Disconnect(c)
    BY <2>7 DEF Disconnect, ConnectionIdsUnique
  <2> QED
    BY <2>1, <2>2, <2>3, <2>4, <2>5, <2>6, <2>7 DEF ConnStep
<1>3. CASE \E t \in Streams : StreamStep(t)
  <2> PICK t \in Streams : StreamStep(t)
    BY <1>3
  <2>1. CASE OpenStream(t)
    BY <2>1 DEF OpenStream, ConnectionIdsUnique
  <2>2. CASE accept_bi(t)
    BY <2>2 DEF accept_bi, ConnectionIdsUnique
  <2>3. CASE stream_task_ends(t)
    BY <2>3 DEF stream_task_ends, ConnectionIdsUnique
  <2> QED
    BY <2>1, <2>2, <2>3 DEF StreamStep
<1>4. CASE Shutdown
  BY <1>4 DEF Shutdown, ConnectionIdsUnique
<1>5. CASE UNCHANGED vars
  BY <1>5 DEF vars, ConnectionIdsUnique
<1> QED
  BY <1>1, <1>2, <1>3, <1>4, <1>5 DEF Next

(* A connection is refused only for want of a handler.                     *)
LEMMA RefuseStep ==
    TypeOK /\ LifeInv /\ ConnInv
      /\ QueueInv /\ WireNeverRefused /\ [Next]_vars
    => WireNeverRefused'
<1> SUFFICES ASSUME TypeOK, LifeInv, ConnInv,
                    QueueInv, WireNeverRefused, [Next]_vars
             PROVE  WireNeverRefused'
  OBVIOUS
<1> USE ServerAssumption DEF serverVars, permitVars, connVars
<1>1. CASE \E s \in Servers : ServerStep(s)
  <2> PICK s \in Servers : ServerStep(s)
    BY <1>1
  <2>1. CASE serve_install(s)
    BY <2>1 DEF serve_install, TypeOK, WireNeverRefused
  <2>2. CASE serve_spawn(s)
    BY <2>2 DEF serve_spawn, TypeOK, WireNeverRefused
  <2>3. CASE drop(s)
    BY <2>3 DEF drop, TypeOK, WireNeverRefused
  <2>4. CASE \E alpn \in {"rpc", "app"} : register_alpn_handler(s, alpn)
    BY <2>4 DEF register_alpn_handler, TypeOK, WireNeverRefused
  <2>5. CASE accept_loop_ends(s)
    BY <2>5 DEF accept_loop_ends, TypeOK, WireNeverRefused
  <2>6. CASE \E c \in Conns : accept(s, c)
    BY <2>6 DEF accept, TypeOK, WireNeverRefused
  <2>7. CASE acquire_connection_permit(s)
    <3>1. Head(connQ[s]) \in Conns
      BY <2>7, QueueHeads DEF acquire_connection_permit
    <3> QED
      BY <2>7, <3>1 DEF acquire_connection_permit, TypeOK, WireNeverRefused
  <2>8. CASE acquire_stream_permit(s)
    BY <2>8 DEF acquire_stream_permit, TypeOK, WireNeverRefused
  <2> QED
    BY <2>1, <2>2, <2>3, <2>4, <2>5, <2>6, <2>7, <2>8 DEF ServerStep
<1>2. CASE \E c \in Conns : ConnStep(c)
  <2> PICK c \in Conns : ConnStep(c)
    BY <1>2
  <2>1. CASE handshake_fails(c)
    BY <2>1 DEF handshake_fails, TypeOK, WireNeverRefused
  <2>2. CASE dispatch_none(c)
    <3>1. owner[c] \in Servers /\ table[owner[c]]["rpc"] # "none"
      BY <2>2 DEF dispatch_none, LifeInv, ConnInv
    <3>2. AlpnOf[c] # "rpc"
      BY <2>2, <3>1 DEF dispatch_none
    <3> QED
      BY <2>2, <3>2 DEF dispatch_none, TypeOK, WireNeverRefused
  <2>3. CASE dispatch_custom(c)
    BY <2>3 DEF dispatch_custom, TypeOK, WireNeverRefused
  <2>4. CASE dispatch_wire(c)
    BY <2>4 DEF dispatch_wire, TypeOK, WireNeverRefused
  <2>5. CASE connection_loop_ends(c)
    BY <2>5 DEF connection_loop_ends, TypeOK, WireNeverRefused
  <2>6. CASE Connect(c)
    BY <2>6 DEF Connect, TypeOK, WireNeverRefused
  <2>7. CASE Disconnect(c)
    BY <2>7 DEF Disconnect, TypeOK, WireNeverRefused
  <2> QED
    BY <2>1, <2>2, <2>3, <2>4, <2>5, <2>6, <2>7 DEF ConnStep
<1>3. CASE \E t \in Streams : StreamStep(t)
  <2> PICK t \in Streams : StreamStep(t)
    BY <1>3
  <2>1. CASE OpenStream(t)
    BY <2>1 DEF OpenStream, TypeOK, WireNeverRefused
  <2>2. CASE accept_bi(t)
    BY <2>2 DEF accept_bi, TypeOK, WireNeverRefused
  <2>3. CASE stream_task_ends(t)
    BY <2>3 DEF stream_task_ends, TypeOK, WireNeverRefused
  <2> QED
    BY <2>1, <2>2, <2>3 DEF StreamStep
<1>4. CASE Shutdown
  BY <1>4 DEF Shutdown, TypeOK, WireNeverRefused
<1>5. CASE UNCHANGED vars
  BY <1>5 DEF vars, TypeOK, WireNeverRefused
<1> QED
  BY <1>1, <1>2, <1>3, <1>4, <1>5 DEF Next

-----------------------------------------------------------------------------
(* The inductive invariant: types, the life of a loop, what connections    *)
(* and substreams know of their server, and the semaphores' queues.        *)
THEOREM ServerInvariant == Spec => []ServerInv
<1>1. Init => ServerInv
  <2> SUFFICES ASSUME Init PROVE ServerInv
    OBVIOUS
  <2>1. TypeOK
    BY ServerAssumption DEF Init, TypeOK
  <2>2. LifeInv /\ ConnInv /\ StreamInv
    BY ServerAssumption DEF Init, LifeInv, ConnInv, StreamInv
  <2>3. QueueInv
    BY EmptyQueue DEF Init, QueueInv, Queued, Waiting
  <2> QED
    BY <2>1, <2>2, <2>3 DEF ServerInv
<1>2. ServerInv /\ [Next]_vars => ServerInv'
  BY TypeStep, LifeStep, ConnStepInv, StreamStepInv, QueueStep DEF ServerInv
<1> QED
  BY <1>1, <1>2, PTL DEF Spec

(* Every variable keeps its type.                                          *)
THEOREM TypeCorrect == Spec => []TypeOK
<1>1. ServerInv => TypeOK
  BY DEF ServerInv
<1> QED
  BY <1>1, ServerInvariant, PTL

(* Nobody holds a permit in Init.                                          *)
LEMMA NoHolders == Init => \A s \in Servers : Running(s) = {} /\ Looping(s) = {}
  BY DEF Init, Running, Looping

(* stream_permits and connection_permits: free permits and holders always  *)
(* add up to the configured limit, for every server that shares the        *)
(* endpoint.                                                               *)
THEOREM PermitsNeverLost == Spec => []PermitsConserved
<1>1. Init => PermitsConserved
  <2> SUFFICES ASSUME Init, NEW s \in Servers
               PROVE  /\ streamFree[s] + Cardinality(Running(s)) = MaxStreams
                      /\ connFree[s] + Cardinality(Looping(s)) = MaxConns
    BY DEF PermitsConserved, StreamPermitsConserved, ConnPermitsConserved
  <2>1. Cardinality(Running(s)) = 0 /\ Cardinality(Looping(s)) = 0
    BY NoHolders, FS_EmptySet
  <2>2. streamFree[s] = MaxStreams /\ connFree[s] = MaxConns
    BY DEF Init
  <2> QED
    BY <2>1, <2>2, ServerAssumption
<1>2. ServerInv /\ PermitsConserved /\ [Next]_vars => PermitsConserved'
  BY StreamPermitStep, ConnPermitStep DEF ServerInv, PermitsConserved
<1> QED
  BY <1>1, <1>2, ServerInvariant, PTL DEF Spec

(* fetch_add: connection ids of one server are unique.                     *)
THEOREM IdsUnique == Spec => []ConnectionIdsUnique
<1>1. Init => ConnectionIdsUnique
  BY DEF Init, ConnectionIdsUnique
<1>2. ServerInv /\ ConnectionIdsUnique /\ [Next]_vars => ConnectionIdsUnique'
  BY IdStep DEF ServerInv
<1> QED
  BY <1>1, <1>2, ServerInvariant, PTL DEF Spec

(* serve installs the wire handler before it spawns the accept loop.       *)
THEOREM NoRefusal == Spec => []WireNeverRefused
<1>1. Init => WireNeverRefused
  BY DEF Init, WireNeverRefused
<1>2. ServerInv /\ WireNeverRefused /\ [Next]_vars => WireNeverRefused'
  BY RefuseStep DEF ServerInv
<1> QED
  BY <1>1, <1>2, ServerInvariant, PTL DEF Spec
=============================================================================
