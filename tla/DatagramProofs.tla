---------------------------- MODULE DatagramProofs ----------------------------
(***************************************************************************)
(* Proofs about DatagramDispatcher, for any table, connections, limit and  *)
(* any finite number of frames.                                            *)
(***************************************************************************)
EXTENDS DatagramDispatcher, CommonLemmas

(* A handler is in the table under its own stream-id only.                 *)
TableInv == \A i \in Ids : handlers[i] # NoSession => SessionId[handlers[i]] = i

(* The tasks that wait for a permit are the ones in the queue, each once.  *)
Waiting == {f \in Frames : frame[f] = "waiting"}
QueueInv == Distinct(queue) /\ Elems(queue) = Waiting

DatagramInv == TypeOK /\ TableInv /\ RegisteredReachable /\ QueueInv /\ InFlightBounded

-----------------------------------------------------------------------------
(* The task that is given a permit is one that waits.                      *)
LEMMA QueueHead ==
    ASSUME TypeOK, QueueInv, queue # <<>>
    PROVE  /\ Head(queue) \in Frames /\ frame[Head(queue)] = "waiting"
           /\ Tail(queue) \in Seq(Frames) /\ Distinct(Tail(queue))
           /\ Elems(Tail(queue)) = Waiting \ {Head(queue)}
<1>1. queue \in Seq(Frames)
  BY DEF TypeOK
<1>2. /\ Head(queue) \in Frames /\ Head(queue) \in Elems(queue)
      /\ Tail(queue) \in Seq(Frames) /\ Distinct(Tail(queue))
      /\ Elems(Tail(queue)) = Elems(queue) \ {Head(queue)}
  BY <1>1, Pop DEF QueueInv
<1> QED
  BY <1>2 DEF QueueInv, Waiting

(* The frames that hold a permit are finitely many, and while there is one *)
(* not all permits are free.                                               *)
LEMMA Holders ==
    ASSUME TypeOK, InFlightBounded, NEW f \in InFlight
    PROVE  /\ permits + 1 \in 0..MaxInFlight
           /\ permits + 1 + Cardinality(InFlight \ {f}) = MaxInFlight
<1>1. InFlight \in SUBSET Frames
  BY DEF InFlight
<1>2. /\ Cardinality(InFlight) \in Nat /\ Cardinality(InFlight) > 0
      /\ Cardinality(InFlight \ {f}) = Cardinality(InFlight) - 1
  BY <1>1, GivesBack, DatagramAssumption
<1>3. permits \in Nat /\ MaxInFlight \in Nat /\ permits + Cardinality(InFlight) = MaxInFlight
  BY DatagramAssumption DEF TypeOK, InFlightBounded
<1> HIDE DEF InFlight
<1> QED
  BY <1>2, <1>3

(* A step preserves the types; that a permit which is given back had been  *)
(* taken is what InFlightBounded says.                                     *)
LEMMA TypeStep == TypeOK /\ QueueInv /\ InFlightBounded /\ [Next]_vars => TypeOK'
<1> SUFFICES ASSUME TypeOK, QueueInv, InFlightBounded, [Next]_vars PROVE TypeOK'
  OBVIOUS
<1> USE DatagramAssumption DEF TypeOK, tableVars, connVars, taskVars
<1>1. CASE \E h \in Sessions : register(h)
  BY <1>1 DEF register
<1>2. CASE \E i \in Ids : unregister(i)
  BY <1>2 DEF unregister
<1>3. CASE \E c \in Conns : subscribe_connection(c) \/ read_loop_ends(c) \/ Close(c)
  BY SMTT(30), <1>3 DEF subscribe_connection, read_loop_ends, Close
<1>4. ASSUME NEW f \in Frames, Arrive(f) \/ Lose(f) \/ read_datagram(f) PROVE TypeOK'
  BY <1>4 DEF Arrive, Lose, read_datagram
<1>5. ASSUME NEW f \in Frames, acquire_owned(f) PROVE TypeOK'
  <2>1. Append(queue, f) \in Seq(Frames)
    OBVIOUS
  <2> QED
    BY <1>5, <2>1 DEF acquire_owned
<1>6. ASSUME NEW f \in Frames, dispatch_finds(f) PROVE TypeOK'
  BY <1>6 DEF dispatch_finds, decode_stream_id
<1>7. ASSUME NEW f \in Frames, dispatch_rejects(f) PROVE TypeOK'
  <2>1. permits + 1 \in 0..MaxInFlight
    <3>1. f \in InFlight
      BY <1>7 DEF dispatch_rejects, InFlight
    <3> QED
      BY <3>1, Holders
  <2>2. Rejection(Prefix[f]) \in {"DatagramTooShort", "MalformedFrame",
                                  "DatagramStreamIdUnknown"}
    BY DEF Rejection
  <2> QED
    BY <1>7, <2>1, <2>2 DEF dispatch_rejects
<1>8. ASSUME NEW f \in Frames, handle_returns(f) PROVE TypeOK'
  <2>1. permits + 1 \in 0..MaxInFlight
    <3>1. f \in InFlight
      BY <1>8 DEF handle_returns, InFlight
    <3> QED
      BY <3>1, Holders
  <2> QED
    BY <1>8, <2>1 DEF handle_returns
<1>9. CASE permit_granted
  BY <1>9, QueueHead DEF permit_granted
<1>10. CASE UNCHANGED vars
  BY <1>10 DEF vars
<1> QED
  BY <1>1, <1>2, <1>3, <1>4, <1>5, <1>6, <1>7, <1>8, <1>9, <1>10 DEF Next, dispatch

(* Only register and unregister touch the table.                           *)
LEMMA TableStep ==
    TypeOK /\ TableInv /\ RegisteredReachable /\ [Next]_vars
      => TableInv' /\ RegisteredReachable'
<1> SUFFICES ASSUME TypeOK, TableInv, RegisteredReachable, [Next]_vars
             PROVE  TableInv' /\ RegisteredReachable'
  OBVIOUS
<1> USE DatagramAssumption
<1>1. ASSUME NEW h \in Sessions, register(h) PROVE TableInv' /\ RegisteredReachable'
  <2>1. CASE handlers[SessionId[h]] = NoSession
    <3>1. /\ handlers' = [handlers EXCEPT ![SessionId[h]] = h]
          /\ reg' = [reg EXCEPT ![h] = "ok"]
      BY <1>1, <2>1 DEF register
    <3>2. TableInv'
      BY <3>1 DEF TypeOK, TableInv
    <3>3. ASSUME NEW g \in Sessions PROVE (reg[g] = "ok" <=> handlers[SessionId[g]] = g)'
      <4>1. CASE g = h
        BY <3>1, <4>1 DEF TypeOK
      <4>2. CASE g # h /\ SessionId[g] = SessionId[h]
        BY <3>1, <2>1, <4>2 DEF TypeOK, RegisteredReachable
      <4>3. CASE SessionId[g] # SessionId[h]
        BY <3>1, <4>3 DEF TypeOK, RegisteredReachable
      <4> QED
        BY <4>1, <4>2, <4>3
    <3> QED
      BY <3>2, <3>3 DEF RegisteredReachable
  <2>2. CASE handlers[SessionId[h]] # NoSession
    <3>1. handlers' = handlers /\ reg' = [reg EXCEPT ![h] = "collision"] /\ reg[h] # "ok"
      BY <1>1, <2>2 DEF register
    <3> QED
      BY <3>1 DEF TypeOK, TableInv, RegisteredReachable
  <2> QED
    BY <2>1, <2>2
<1>2. ASSUME NEW i \in Ids, unregister(i) PROVE TableInv' /\ RegisteredReachable'
  <2>1. /\ handlers[i] \in Sessions /\ SessionId[handlers[i]] = i
        /\ handlers' = [handlers EXCEPT ![i] = NoSession]
        /\ reg' = [reg EXCEPT ![handlers[i]] = "removed"]
    BY <1>2 DEF unregister, TypeOK, TableInv
  <2>2. TableInv'
    BY <2>1 DEF TypeOK, TableInv
  <2>3. ASSUME NEW g \in Sessions PROVE (reg[g] = "ok" <=> handlers[SessionId[g]] = g)'
    <3>1. CASE g = handlers[i]
      BY <2>1, <3>1 DEF TypeOK
    <3>2. CASE g # handlers[i] /\ SessionId[g] = i
      BY <2>1, <3>2 DEF TypeOK, RegisteredReachable
    <3>3. CASE SessionId[g] # i
      BY <2>1, <3>3 DEF TypeOK, RegisteredReachable
    <3> QED
      BY <3>1, <3>2, <3>3
  <2> QED
    BY <2>2, <2>3 DEF RegisteredReachable
<1>3. CASE UNCHANGED tableVars
  BY <1>3 DEF tableVars, TableInv, RegisteredReachable
<1>4. CASE \E c \in Conns : subscribe_connection(c) \/ read_loop_ends(c) \/ Close(c)
  BY <1>4, <1>3 DEF subscribe_connection, read_loop_ends, Close
<1>5. CASE \E f \in Frames : \/ Arrive(f) \/ Lose(f) \/ read_datagram(f) \/ acquire_owned(f)
                             \/ dispatch(f) \/ handle_returns(f)
  BY <1>5, <1>3 DEF Arrive, Lose, read_datagram, acquire_owned, dispatch, dispatch_finds,
                    dispatch_rejects, handle_returns
<1>6. CASE permit_granted
  BY <1>6, <1>3 DEF permit_granted
<1>7. CASE UNCHANGED vars
  BY <1>7, <1>3 DEF vars
<1> QED
  BY <1>1, <1>2, <1>4, <1>5, <1>6, <1>7 DEF Next

(* The queue: acquire_owned adds a task, permit_granted takes the first,   *)
(* and nothing else changes who waits.                                     *)
LEMMA QueueStep == TypeOK /\ QueueInv /\ [Next]_vars => QueueInv'
<1> SUFFICES ASSUME TypeOK, QueueInv, [Next]_vars PROVE QueueInv'
  OBVIOUS
<1> USE DatagramAssumption DEF tableVars, connVars, taskVars
<1>1. CASE queue' = queue /\ Waiting' = Waiting
  BY <1>1 DEF QueueInv
<1>2. CASE UNCHANGED <<frame, queue>>
  BY <1>2, <1>1 DEF Waiting
<1>3. CASE \E h \in Sessions : register(h)
  BY <1>3, <1>2 DEF register
<1>4. CASE \E i \in Ids : unregister(i)
  BY <1>4, <1>2 DEF unregister
<1>5. CASE \E c \in Conns : subscribe_connection(c) \/ read_loop_ends(c) \/ Close(c)
  BY <1>5, <1>2 DEF subscribe_connection, read_loop_ends, Close
<1>6. ASSUME NEW f \in Frames,
             Arrive(f) \/ Lose(f) \/ read_datagram(f) \/ dispatch(f) \/ handle_returns(f)
      PROVE  QueueInv'
  <2>1. /\ queue' = queue /\ frame[f] # "waiting"
        /\ \E w \in {"buffered", "lost", "spawned", "handling", "done"} :
              frame' = [frame EXCEPT ![f] = w]
    BY <1>6 DEF Arrive, Lose, read_datagram, dispatch, dispatch_finds, dispatch_rejects,
                handle_returns
  <2>2. Waiting' = Waiting
    BY <2>1 DEF Waiting, TypeOK
  <2> QED
    BY <2>1, <2>2, <1>1
<1>7. ASSUME NEW f \in Frames, acquire_owned(f) PROVE QueueInv'
  <2>1. /\ frame[f] = "spawned" /\ frame' = [frame EXCEPT ![f] = "waiting"]
        /\ queue' = Append(queue, f) /\ queue \in Seq(Frames)
    BY <1>7 DEF acquire_owned, TypeOK
  <2>2. Waiting' = Waiting \cup {f} /\ f \notin Elems(queue)
    BY <2>1 DEF Waiting, TypeOK, QueueInv
  <2>3. Elems(queue') = Elems(queue) \cup {f} /\ Distinct(queue')
    BY <2>1, <2>2, Push DEF QueueInv
  <2> QED
    BY <2>2, <2>3 DEF QueueInv
<1>8. CASE permit_granted
  <2> DEFINE h == Head(queue)
  <2>1. /\ h \in Frames /\ frame' = [frame EXCEPT ![h] = "dispatching"]
        /\ queue' = Tail(queue) /\ Distinct(Tail(queue))
        /\ Elems(Tail(queue)) = Waiting \ {h}
    BY <1>8, QueueHead DEF permit_granted
  <2> HIDE DEF h
  <2>2. Waiting' = Waiting \ {h}
    BY <2>1 DEF Waiting, TypeOK
  <2> QED
    BY <2>1, <2>2 DEF QueueInv
<1>9. CASE UNCHANGED vars
  BY <1>9, <1>2 DEF vars
<1> QED
  BY <1>3, <1>4, <1>5, <1>6, <1>7, <1>8, <1>9 DEF Next

(* The permits: what permit_granted takes, the end of the task gives back, *)
(* on every path through dispatch.                                         *)
LEMMA PermitStep ==
    TypeOK /\ QueueInv /\ InFlightBounded /\ [Next]_vars => InFlightBounded'
<1> SUFFICES ASSUME TypeOK, QueueInv, InFlightBounded, [Next]_vars PROVE InFlightBounded'
  OBVIOUS
<1> USE DatagramAssumption DEF tableVars, connVars, taskVars
<1>1. CASE permits' = permits /\ InFlight' = InFlight
  BY <1>1 DEF InFlightBounded
<1>2. CASE UNCHANGED <<frame, permits>>
  BY <1>2, <1>1 DEF InFlight
<1>3. CASE \E h \in Sessions : register(h)
  BY <1>3, <1>2 DEF register
<1>4. CASE \E i \in Ids : unregister(i)
  BY <1>4, <1>2 DEF unregister
<1>5. CASE \E c \in Conns : subscribe_connection(c) \/ read_loop_ends(c) \/ Close(c)
  BY <1>5, <1>2 DEF subscribe_connection, read_loop_ends, Close
<1>6. ASSUME NEW f \in Frames, Arrive(f) \/ Lose(f) \/ read_datagram(f) \/ acquire_owned(f)
      PROVE  InFlightBounded'
  <2>1. /\ permits' = permits /\ frame[f] \notin {"dispatching", "handling"}
        /\ \E w \in {"buffered", "lost", "spawned", "waiting"} :
              frame' = [frame EXCEPT ![f] = w]
    BY <1>6 DEF Arrive, Lose, read_datagram, acquire_owned
  <2>2. InFlight' = InFlight
    BY <2>1 DEF InFlight, TypeOK
  <2> QED
    BY <2>1, <2>2, <1>1
<1>7. ASSUME NEW f \in Frames, dispatch_finds(f) PROVE InFlightBounded'
  <2>1. /\ permits' = permits /\ frame[f] = "dispatching"
        /\ frame' = [frame EXCEPT ![f] = "handling"]
    BY <1>7 DEF dispatch_finds
  <2>2. InFlight' = InFlight
    BY <2>1 DEF InFlight, TypeOK
  <2> QED
    BY <2>1, <2>2, <1>1
<1>8. ASSUME NEW f \in Frames, dispatch_rejects(f) \/ handle_returns(f)
      PROVE  InFlightBounded'
  <2>1. /\ permits' = permits + 1 /\ frame[f] \in {"dispatching", "handling"}
        /\ frame' = [frame EXCEPT ![f] = "done"]
    BY <1>8 DEF dispatch_rejects, handle_returns
  <2>2. f \in InFlight /\ InFlight' = InFlight \ {f}
    BY <2>1 DEF InFlight, TypeOK
  <2> QED
    BY <2>1, <2>2, Holders DEF InFlightBounded
<1>9. CASE permit_granted
  <2> DEFINE h == Head(queue)
  <2>1. /\ h \in Frames /\ frame[h] = "waiting"
        /\ frame' = [frame EXCEPT ![h] = "dispatching"] /\ permits' = permits - 1
    BY <1>9, QueueHead DEF permit_granted
  <2> HIDE DEF h
  <2>2. h \notin InFlight /\ InFlight' = InFlight \cup {h} /\ InFlight \in SUBSET Frames
    BY <2>1 DEF InFlight, TypeOK
  <2>3. /\ Cardinality(InFlight) \in Nat
        /\ Cardinality(InFlight') = Cardinality(InFlight) + 1
    BY <2>1, <2>2, Takes
  <2>4. permits \in Nat /\ MaxInFlight \in Nat
    BY DEF TypeOK
  <2> QED
    BY <2>1, <2>3, <2>4 DEF InFlightBounded
<1>10. CASE UNCHANGED vars
  BY <1>10, <1>2 DEF vars
<1> QED
  BY <1>3, <1>4, <1>5, <1>6, <1>7, <1>8, <1>9, <1>10 DEF Next, dispatch

-----------------------------------------------------------------------------
(* The inductive invariant: the types, the table, the queue of the tasks   *)
(* that wait and the account of the permits, each of which needs others.   *)
THEOREM DatagramInvariant == Spec => []DatagramInv
<1>1. Init => DatagramInv
  <2> SUFFICES ASSUME Init PROVE DatagramInv
    OBVIOUS
  <2> USE DatagramAssumption DEF Init
  <2>1. TypeOK
    BY DEF TypeOK
  <2>2. TableInv /\ RegisteredReachable
    BY DEF TableInv, RegisteredReachable
  <2>3. QueueInv
    BY EmptyQueue DEF QueueInv, Waiting
  <2>4. InFlight = {}
    BY DEF InFlight
  <2>5. InFlightBounded
    BY <2>4, FS_EmptySet DEF InFlightBounded
  <2> QED
    BY <2>1, <2>2, <2>3, <2>5 DEF DatagramInv
<1>2. DatagramInv /\ [Next]_vars => DatagramInv'
  BY TypeStep, TableStep, QueueStep, PermitStep DEF DatagramInv
<1> QED
  BY <1>1, <1>2, PTL DEF Spec

(* Every variable of the dispatcher keeps its type; in particular the      *)
(* semaphore never has fewer than none or more than MaxInFlight permits.   *)
THEOREM TypeCorrect == Spec => []TypeOK
<1>1. DatagramInv => TypeOK
  BY DEF DatagramInv
<1> QED
  BY <1>1, DatagramInvariant, PTL

(* Free permits and frames in flight add up to with_max_in_flight's bound, *)
(* whether dispatch finds a handler, rejects the frame or the handler      *)
(* panics.                                                                 *)
THEOREM PermitsNeverLost == Spec => []InFlightBounded
<1>1. DatagramInv => InFlightBounded
  BY DEF DatagramInv
<1> QED
  BY <1>1, DatagramInvariant, PTL

(* A session that register has answered with Ok, and only such a one, is   *)
(* what dispatch finds, until it is unregistered.                          *)
THEOREM RegisteredIsFound == Spec => []RegisteredReachable
<1>1. DatagramInv => RegisteredReachable
  BY DEF DatagramInv
<1> QED
  BY <1>1, DatagramInvariant, PTL

(* After unregister, dispatch gives the session no frame that it had not   *)
(* given it before.                                                        *)
THEOREM UnregisteredIsSilent == Spec => UnregisterIsFinal
<1> DEFINE A == \A f \in Frames, h \in Sessions :
                   reg[h] = "removed" /\ frame'[f] = "handling" /\ by'[f] = h
                     => frame[f] = "handling" /\ by[f] = h
<1>1. DatagramInv /\ [Next]_vars => [A]_vars
  <2> SUFFICES ASSUME DatagramInv, Next, NEW f \in Frames, NEW h \in Sessions,
                      reg[h] = "removed", frame'[f] = "handling", by'[f] = h
               PROVE  frame[f] = "handling" /\ by[f] = h
    OBVIOUS
  <2> USE DatagramAssumption DEF DatagramInv, TypeOK, tableVars, connVars, taskVars
  <2>1. CASE UNCHANGED <<frame, by>>
    BY <2>1
  <2>2. CASE \E g \in Sessions : register(g)
    BY <2>2, <2>1 DEF register
  <2>3. CASE \E i \in Ids : unregister(i)
    BY <2>3, <2>1 DEF unregister
  <2>4. CASE \E c \in Conns : subscribe_connection(c) \/ read_loop_ends(c) \/ Close(c)
    BY <2>4, <2>1 DEF subscribe_connection, read_loop_ends, Close
  <2>5. ASSUME NEW g \in Frames,
               \/ Arrive(g) \/ Lose(g) \/ read_datagram(g) \/ acquire_owned(g)
               \/ dispatch_rejects(g) \/ handle_returns(g)
        PROVE  frame[f] = "handling" /\ by[f] = h
    BY <2>5 DEF Arrive, Lose, read_datagram, acquire_owned, dispatch_rejects, handle_returns
  <2>6. ASSUME NEW g \in Frames, dispatch_finds(g)
        PROVE  frame[f] = "handling" /\ by[f] = h
    <3>1. /\ Prefix[g] \in Ids /\ handlers[Prefix[g]] # NoSession
          /\ frame' = [frame EXCEPT ![g] = "handling"]
          /\ by' = [by EXCEPT ![g] = handlers[Prefix[g]]]
      BY <2>6 DEF dispatch_finds, decode_stream_id
    <3>2. CASE f # g
      BY <3>1, <3>2
    <3>3. CASE f = g
      <4>1. handlers[Prefix[g]] = h
        BY <3>1, <3>3
      <4>2. SessionId[h] = Prefix[g]
        BY <3>1, <4>1 DEF TableInv
      <4>3. reg[h] = "ok"
        BY <4>1, <4>2 DEF RegisteredReachable
      <4> QED
        BY <4>3
    <3> QED
      BY <3>2, <3>3
  <2>7. CASE permit_granted
    BY <2>7, QueueHead DEF permit_granted
  <2> QED
    BY <2>2, <2>3, <2>4, <2>5, <2>6, <2>7 DEF Next, dispatch
<1> QED
  BY <1>1, DatagramInvariant, PTL DEF Spec, UnregisterIsFinal
=============================================================================
