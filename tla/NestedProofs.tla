---------------------------- MODULE NestedProofs ----------------------------
(***************************************************************************)
(* Proofs about NestedCalls, for any nodes, any tree of calls and any      *)
(* number of crashes.                                                      *)
(***************************************************************************)
EXTENDS NestedCalls, CommonLemmas

(* The task of a call begins with it.                                      *)
MadeInv ==
    \A k \in Calls : /\ call[k] = "idle" => task[k] = "none"
                     /\ call[k] = "waiting" => task[k] # "none"

(* The queue of a node's semaphore holds the tasks that wait there.        *)
Waiting(n) == {k \in Calls : At[k] = n /\ task[k] = "waiting"}
QueueInv == \A n \in Nodes : Distinct(queue[n]) /\ Elems(queue[n]) = Waiting(n)

(* Every permit of a node is free or held by a task that runs there.       *)
Running(n) == {k \in Calls : At[k] = n /\ task[k] = "running"}
PermitInv == \A n \in Nodes : free[n] + Cardinality(Running(n)) = MaxStreams

(* As long as a call waits, one of the steps that the runtime must take is *)
(* possible somewhere: a call returns or fails, a task is accepted, a      *)
(* handler that awaits nothing returns, or a permit goes to a task that    *)
(* waits for it.                                                           *)
NeverStuck ==
    (\E k \in Calls : call[k] = "waiting") =>
        \/ \E k \in Calls : call[k] = "waiting" /\ task[k] \in {"ended", "lost"}
        \/ \E k \in Calls : task[k] = "opened"
        \/ \E k \in Calls : task[k] = "running" /\ Awaited(k) = {}
        \/ \E n \in Nodes : queue[n] # <<>> /\ free[n] > 0

NestedInv == TypeOK /\ MadeInv /\ QueueInv /\ PermitInv

-----------------------------------------------------------------------------
(* The task that is given a permit is one that waits at the node.          *)
LEMMA QueueHead ==
    ASSUME TypeOK, QueueInv, NEW n \in Nodes, queue[n] # <<>>
    PROVE  LET h == Head(queue[n])
           IN  /\ h \in Calls /\ task[h] = "waiting" /\ At[h] = n
               /\ Tail(queue[n]) \in Seq(Calls) /\ Distinct(Tail(queue[n]))
               /\ Elems(Tail(queue[n])) = Waiting(n) \ {h}
<1> DEFINE h == Head(queue[n])
<1>1. queue[n] \in Seq(Calls) /\ Distinct(queue[n]) /\ Elems(queue[n]) = Waiting(n)
  BY DEF TypeOK, QueueInv
<1>2. /\ h \in Calls /\ h \in Waiting(n)
      /\ Tail(queue[n]) \in Seq(Calls) /\ Distinct(Tail(queue[n]))
      /\ Elems(Tail(queue[n])) = Waiting(n) \ {h}
  BY <1>1, Pop
<1> QED
  BY <1>2 DEF Waiting

(* The tasks that hold a permit are finitely many, and while there is one  *)
(* not all permits are free.                                               *)
LEMMA Holders ==
    ASSUME TypeOK, PermitInv, NEW n \in Nodes
    PROVE  /\ Running(n) \in SUBSET Calls /\ IsFiniteSet(Running(n))
           /\ Cardinality(Running(n)) \in Nat
           /\ \A k \in Running(n) :
                 /\ free[n] + 1 \in 0..MaxStreams
                 /\ free[n] + 1 + Cardinality(Running(n) \ {k}) = MaxStreams
<1>1. Running(n) \in SUBSET Calls
  BY DEF Running
<1>2. IsFiniteSet(Running(n)) /\ Cardinality(Running(n)) \in Nat
  BY <1>1, NestedAssumption, FS_Subset, FS_CardinalityType
<1>3. ASSUME NEW k \in Running(n)
      PROVE  /\ free[n] + 1 \in 0..MaxStreams
             /\ free[n] + 1 + Cardinality(Running(n) \ {k}) = MaxStreams
  <2>1. /\ Cardinality(Running(n)) > 0
        /\ Cardinality(Running(n) \ {k}) = Cardinality(Running(n)) - 1
    BY <1>1, GivesBack, NestedAssumption
  <2>2. free[n] \in Nat /\ MaxStreams \in Nat /\ free[n] + Cardinality(Running(n)) = MaxStreams
    BY NestedAssumption DEF TypeOK, PermitInv
  <2> QED
    BY <1>2, <2>1, <2>2
<1> QED
  BY <1>1, <1>2, <1>3

(* A step preserves the types: a node's free permits stay within its       *)
(* limit because the task that gives one back has taken it.                *)
LEMMA TypeStep == NestedInv /\ [Next]_vars => TypeOK'
<1> SUFFICES ASSUME NestedInv, [Next]_vars PROVE TypeOK'
  OBVIOUS
<1> USE NestedAssumption DEF NestedInv, TypeOK
<1>1. ASSUME NEW k \in Calls,
             \/ call_writes(k) \/ call_unreachable(k) \/ call_returns(k) \/ call_fails(k)
             \/ call_abandoned(k)
      PROVE  TypeOK'
  BY <1>1 DEF call_writes, call_unreachable, call_returns, call_fails, call_abandoned
<1>2. ASSUME NEW k \in Calls, accept_bi(k) PROVE TypeOK'
  <2>1. Append(queue[At[k]], k) \in Seq(Calls)
    OBVIOUS
  <2> QED
    BY <1>2, <2>1 DEF accept_bi
<1>3. ASSUME NEW k \in Calls, handler_returns(k) \/ handler_panics(k) PROVE TypeOK'
  <2>1. k \in Running(At[k])
    BY <1>3 DEF handler_returns, handler_panics, Running
  <2>2. free[At[k]] + 1 \in 0..MaxStreams
    BY <2>1, Holders
  <2>3. free' = [free EXCEPT ![At[k]] = free[At[k]] + 1]
    BY <1>3 DEF handler_returns, handler_panics
  <2>4. free' \in [Nodes -> 0..MaxStreams]
    BY <2>2, <2>3
  <2>5. CASE handler_returns(k)
    BY <2>4, <2>5 DEF handler_returns
  <2>6. CASE handler_panics(k)
    <3>1. call' \in [Calls -> {"idle", "waiting", "over"}]
      BY <2>6 DEF handler_panics
    <3> QED
      BY <2>4, <2>6, <3>1 DEF handler_panics
  <2> QED
    BY <1>3, <2>5, <2>6
<1>4. ASSUME NEW n \in Nodes, acquire_stream_permit(n) PROVE TypeOK'
  <2>1. Head(queue[n]) \in Calls /\ Tail(queue[n]) \in Seq(Calls)
    BY <1>4, QueueHead DEF acquire_stream_permit
  <2> QED
    BY SMTT(30), <1>4, <2>1 DEF acquire_stream_permit
<1>5. ASSUME NEW n \in Nodes, CrashAndRestart(n) PROVE TypeOK'
  <2>1. task' \in [Calls -> {"none", "opened", "waiting", "running", "ended", "lost"}]
    BY <1>5 DEF CrashAndRestart
  <2>2. call' \in [Calls -> {"idle", "waiting", "over"}]
    BY <1>5 DEF CrashAndRestart
  <2>3. free' \in [Nodes -> 0..MaxStreams] /\ queue' \in [Nodes -> Seq(Calls)]
    BY <1>5 DEF CrashAndRestart
  <2>4. crashes' \in 0..MaxCrashes
    BY <1>5 DEF CrashAndRestart
  <2> QED
    BY <2>1, <2>2, <2>3, <2>4
<1>6. CASE UNCHANGED vars
  BY <1>6 DEF vars
<1> QED
  BY <1>1, <1>2, <1>3, <1>4, <1>5, <1>6 DEF Next

(* A call is made once, and its task is never taken back.                  *)
LEMMA MadeStep == NestedInv /\ [Next]_vars => MadeInv'
<1> SUFFICES ASSUME NestedInv, [Next]_vars, NEW k \in Calls
             PROVE  /\ call'[k] = "idle" => task'[k] = "none"
                    /\ call'[k] = "waiting" => task'[k] # "none"
  BY DEF MadeInv
<1> USE NestedAssumption DEF NestedInv, TypeOK, MadeInv
<1>1. CASE \E j \in Calls :
              \/ call_writes(j) \/ call_unreachable(j) \/ call_returns(j) \/ call_fails(j)
              \/ call_abandoned(j) \/ accept_bi(j) \/ handler_returns(j)
  BY <1>1 DEF call_writes, call_unreachable, call_returns, call_fails, call_abandoned,
              accept_bi, handler_returns
<1>2. CASE \E j \in Calls : handler_panics(j)
  <2>1. call'[k] \in {call[k], "over"}
    BY <1>2 DEF handler_panics
  <2> QED
    BY <1>2, <2>1 DEF handler_panics
<1>3. CASE \E n \in Nodes : acquire_stream_permit(n)
  <2> PICK n \in Nodes : acquire_stream_permit(n)
    BY <1>3
  <2>1. Head(queue[n]) \in Calls /\ task[Head(queue[n])] = "waiting"
    BY QueueHead DEF acquire_stream_permit
  <2>2. call' = call /\ task' = [task EXCEPT ![Head(queue[n])] = "running"]
    BY DEF acquire_stream_permit
  <2> QED
    BY <2>1, <2>2
<1>4. CASE \E n \in Nodes : CrashAndRestart(n)
  <2>1. call'[k] \in {call[k], "over"}
    BY <1>4 DEF CrashAndRestart
  <2>2. task'[k] = task[k] \/ (task[k] # "none" /\ task'[k] = "lost")
    BY <1>4 DEF CrashAndRestart
  <2> QED
    BY <2>1, <2>2
<1>5. CASE UNCHANGED vars
  BY <1>5 DEF vars
<1> QED
  BY <1>1, <1>2, <1>3, <1>4, <1>5 DEF Next

(* The queues: accept_bi adds a task at its node, acquire_stream_permit    *)
(* takes the first, a crash empties the queue of its node.                 *)
LEMMA QueueStep == NestedInv /\ [Next]_vars => QueueInv'
<1> SUFFICES ASSUME NestedInv, [Next]_vars PROVE QueueInv'
  OBVIOUS
<1> USE NestedAssumption DEF NestedInv
<1>1. ASSUME queue' = queue, \A n \in Nodes : Waiting(n)' = Waiting(n) PROVE QueueInv'
  BY <1>1 DEF QueueInv
<1>2. CASE UNCHANGED <<queue, task>>
  BY <1>1, <1>2 DEF Waiting
<1>3. ASSUME NEW k \in Calls, call_writes(k) PROVE QueueInv'
  BY <1>1, <1>3 DEF call_writes, Waiting, MadeInv, TypeOK
<1>4. ASSUME NEW k \in Calls,
             call_unreachable(k) \/ call_returns(k) \/ call_fails(k) \/ call_abandoned(k)
      PROVE  QueueInv'
  BY <1>2, <1>4 DEF call_unreachable, call_returns, call_fails, call_abandoned
<1>5. ASSUME NEW k \in Calls, accept_bi(k) PROVE QueueInv'
  <2> DEFINE n == At[k]
  <2>1. /\ n \in Nodes /\ task[k] = "opened" /\ task' = [task EXCEPT ![k] = "waiting"]
        /\ queue' = [queue EXCEPT ![n] = Append(queue[n], k)] /\ queue[n] \in Seq(Calls)
    BY <1>5 DEF accept_bi, TypeOK
  <2>2. /\ k \notin Elems(queue[n]) /\ Waiting(n)' = Waiting(n) \cup {k}
        /\ \A m \in Nodes \ {n} : Waiting(m)' = Waiting(m)
    BY <2>1 DEF Waiting, QueueInv, TypeOK
  <2>3. Elems(Append(queue[n], k)) = Waiting(n)' /\ Distinct(Append(queue[n], k))
    BY <2>1, <2>2, Push DEF QueueInv
  <2>4. queue'[n] = Append(queue[n], k) /\ \A m \in Nodes \ {n} : queue'[m] = queue[m]
    BY <2>1 DEF TypeOK
  <2> HIDE DEF n
  <2> QED
    BY <2>2, <2>3, <2>4 DEF QueueInv
<1>6. ASSUME NEW k \in Calls, handler_returns(k) \/ handler_panics(k) PROVE QueueInv'
  BY <1>1, <1>6 DEF handler_returns, handler_panics, Waiting, TypeOK
<1>7. ASSUME NEW n \in Nodes, acquire_stream_permit(n) PROVE QueueInv'
  <2> DEFINE h == Head(queue[n])
  <2>1. /\ h \in Calls /\ At[h] = n
        /\ Distinct(Tail(queue[n])) /\ Elems(Tail(queue[n])) = Waiting(n) \ {h}
    BY <1>7, QueueHead DEF acquire_stream_permit
  <2>2. /\ task' = [task EXCEPT ![h] = "running"]
        /\ queue'[n] = Tail(queue[n]) /\ \A m \in Nodes \ {n} : queue'[m] = queue[m]
    BY <1>7 DEF acquire_stream_permit, TypeOK
  <2> HIDE DEF h
  <2>3. /\ Waiting(n)' = Waiting(n) \ {h}
        /\ \A m \in Nodes \ {n} : Waiting(m)' = Waiting(m)
    BY <2>1, <2>2 DEF Waiting, TypeOK
  <2> QED
    BY <2>1, <2>2, <2>3 DEF QueueInv
<1>8. ASSUME NEW n \in Nodes, CrashAndRestart(n) PROVE QueueInv'
  <2>1. queue'[n] = <<>> /\ \A m \in Nodes \ {n} : queue'[m] = queue[m]
    BY <1>8 DEF CrashAndRestart, TypeOK
  <2>2. Waiting(n)' = {} /\ \A m \in Nodes \ {n} : Waiting(m)' = Waiting(m)
    BY <1>8 DEF CrashAndRestart, Waiting, TypeOK
  <2> QED
    BY <2>1, <2>2, EmptyQueue DEF QueueInv
<1>9. CASE UNCHANGED vars
  BY <1>2, <1>9 DEF vars
<1> QED
  BY <1>3, <1>4, <1>5, <1>6, <1>7, <1>8, <1>9 DEF Next

(* The permits: what a task takes it gives back, however it ends, and a    *)
(* node that restarts begins with all of them and no task.                 *)
LEMMA PermitStep == NestedInv /\ [Next]_vars => PermitInv'
<1> SUFFICES ASSUME NestedInv, [Next]_vars PROVE PermitInv'
  OBVIOUS
<1> USE NestedAssumption DEF NestedInv
<1>1. ASSUME free' = free, \A n \in Nodes : Running(n)' = Running(n) PROVE PermitInv'
  BY <1>1 DEF PermitInv
<1>2. CASE UNCHANGED <<free, task>>
  BY <1>1, <1>2 DEF Running
<1>3. ASSUME NEW k \in Calls, call_writes(k) \/ accept_bi(k) PROVE PermitInv'
  BY <1>1, <1>3 DEF call_writes, accept_bi, Running, MadeInv, TypeOK
<1>4. ASSUME NEW k \in Calls,
             call_unreachable(k) \/ call_returns(k) \/ call_fails(k) \/ call_abandoned(k)
      PROVE  PermitInv'
  BY <1>2, <1>4 DEF call_unreachable, call_returns, call_fails, call_abandoned
<1>5. ASSUME NEW k \in Calls, handler_returns(k) \/ handler_panics(k) PROVE PermitInv'
  <2> DEFINE n == At[k]
  <2>1. /\ n \in Nodes /\ task[k] = "running" /\ task' = [task EXCEPT ![k] = "ended"]
        /\ free'[n] = free[n] + 1 /\ \A m \in Nodes \ {n} : free'[m] = free[m]
    BY <1>5 DEF handler_returns, handler_panics, TypeOK
  <2>2. /\ k \in Running(n) /\ Running(n)' = Running(n) \ {k}
        /\ \A m \in Nodes \ {n} : Running(m)' = Running(m)
    BY <2>1 DEF Running, TypeOK
  <2> HIDE DEF n
  <2>3. free'[n] + Cardinality(Running(n)') = MaxStreams
    BY <2>1, <2>2, Holders
  <2> QED
    BY <2>1, <2>2, <2>3 DEF PermitInv
<1>6. ASSUME NEW n \in Nodes, acquire_stream_permit(n) PROVE PermitInv'
  <2> DEFINE h == Head(queue[n])
  <2>1. h \in Calls /\ At[h] = n /\ task[h] = "waiting"
    BY <1>6, QueueHead DEF acquire_stream_permit
  <2>2. /\ task' = [task EXCEPT ![h] = "running"] /\ free[n] \in Nat
        /\ free'[n] = free[n] - 1 /\ \A m \in Nodes \ {n} : free'[m] = free[m]
    BY <1>6 DEF acquire_stream_permit, TypeOK
  <2> HIDE DEF h
  <2>3. /\ h \notin Running(n) /\ Running(n)' = Running(n) \cup {h}
        /\ \A m \in Nodes \ {n} : Running(m)' = Running(m)
    BY <2>1, <2>2 DEF Running, TypeOK
  <2>4. Running(n) \in SUBSET Calls
    BY DEF Running
  <2>5. /\ Cardinality(Running(n)) \in Nat
        /\ Cardinality(Running(n)') = Cardinality(Running(n)) + 1
    BY <2>1, <2>3, <2>4, Takes
  <2>6. free'[n] + Cardinality(Running(n)') = MaxStreams
    BY <2>2, <2>5 DEF PermitInv
  <2> QED
    BY <2>2, <2>3, <2>6 DEF PermitInv
<1>7. ASSUME NEW n \in Nodes, CrashAndRestart(n) PROVE PermitInv'
  <2>1. free'[n] = MaxStreams /\ \A m \in Nodes \ {n} : free'[m] = free[m]
    BY <1>7 DEF CrashAndRestart, TypeOK
  <2>2. Running(n)' = {} /\ \A m \in Nodes \ {n} : Running(m)' = Running(m)
    BY <1>7 DEF CrashAndRestart, Running, TypeOK
  <2>3. Cardinality(Running(n)') = 0
    BY <2>2, FS_EmptySet
  <2>4. ASSUME NEW m \in Nodes PROVE (free[m] + Cardinality(Running(m)) = MaxStreams)'
    BY <2>1, <2>2, <2>3 DEF PermitInv
  <2> QED
    BY <2>4 DEF PermitInv
<1>8. CASE UNCHANGED vars
  BY <1>2, <1>8 DEF vars
<1> QED
  BY <1>3, <1>4, <1>5, <1>6, <1>7, <1>8 DEF Next

-----------------------------------------------------------------------------
(* The inductive invariant: the types, that a task begins with its call,   *)
(* the queues and the account of the permits.                              *)
THEOREM NestedInvariant == Spec => []NestedInv
<1>1. Init => NestedInv
  <2> SUFFICES ASSUME Init PROVE NestedInv
    OBVIOUS
  <2> USE NestedAssumption DEF Init
  <2>1. TypeOK /\ MadeInv
    BY DEF TypeOK, MadeInv
  <2>2. QueueInv
    BY EmptyQueue DEF QueueInv, Waiting
  <2>3. \A n \in Nodes : Running(n) = {}
    BY DEF Running
  <2>4. \A n \in Nodes : Cardinality(Running(n)) = 0
    BY <2>3, FS_EmptySet
  <2>5. PermitInv
    BY <2>4 DEF PermitInv
  <2> QED
    BY <2>1, <2>2, <2>5 DEF NestedInv
<1>2. NestedInv /\ [Next]_vars => NestedInv'
  BY TypeStep, MadeStep, QueueStep, PermitStep DEF NestedInv
<1> QED
  BY <1>1, <1>2, PTL DEF Spec

(* Every variable keeps its type; in particular no node hands out more     *)
(* permits than max_concurrent_streams or gets more back, whatever is      *)
(* abandoned, panics or crashes.                                           *)
THEOREM TypeCorrect == Spec => []TypeOK
<1>1. NestedInv => TypeOK
  BY DEF NestedInv
<1> QED
  BY <1>1, NestedInvariant, PTL

(* Calls that wait for permits while they hold some never all wait for     *)
(* each other: the tasks at the lowest node that has any can go on.  This  *)
(* is what the order of the nodes is for.                                  *)
THEOREM NestedNeverStuck == Spec => []NeverStuck
<1>1. NestedInv => NeverStuck
  <2> SUFFICES ASSUME NestedInv, NEW c \in Calls, call[c] = "waiting", ~NeverStuck
               PROVE  FALSE
    BY DEF NeverStuck
  <2> USE NestedAssumption DEF NestedInv
  <2> DEFINE Busy == {k \in Calls : task[k] \in {"waiting", "running"}}
             Ranks == {Rank[At[k]] : k \in Busy}
  <2>1. \A k \in Calls : call[k] = "waiting" => k \in Busy
    BY DEF NeverStuck, MadeInv, TypeOK
  <2>2. Ranks \in SUBSET Nat /\ Ranks # {}
    BY <2>1
  <2>3. PICK r \in Ranks : \A q \in Ranks : r <= q
    BY <2>2, LeastElement
  <2>4. PICK k \in Busy : Rank[At[k]] = r
    BY <2>3
  <2>5. ASSUME NEW h \in Calls, task[h] = "running", Rank[At[h]] = r PROVE FALSE
    <3>1. PICK j \in Calls : Parent[j] = h /\ call[j] = "waiting"
      BY <2>5 DEF NeverStuck, Awaited, Children
    <3>2. Rank[At[j]] \in Ranks
      BY <3>1, <2>1
    <3>3. Rank[At[j]] < Rank[At[h]] /\ Rank[At[j]] \in Nat /\ Rank[At[h]] \in Nat
      BY <3>1
    <3>4. r <= Rank[At[j]]
      BY <2>3, <3>2
    <3> QED
      BY <2>5, <3>3, <3>4
  <2>6. CASE task[k] = "running"
    BY <2>4, <2>5, <2>6
  <2>7. CASE task[k] = "waiting"
    <3> DEFINE n == At[k]
    <3>1. n \in Nodes /\ k \in Waiting(n)
      BY <2>7 DEF Waiting
    <3>2. queue[n] # <<>>
      BY <3>1, EmptyQueue DEF QueueInv
    <3>3. free[n] = 0
      BY <3>1, <3>2 DEF NeverStuck, TypeOK
    <3>4. Cardinality(Running(n)) # 0
      BY <3>1, <3>3, Holders DEF PermitInv
    <3>5. Running(n) # {}
      BY <3>4, FS_EmptySet
    <3>6. PICK h \in Calls : task[h] = "running" /\ At[h] = n
      BY <3>5 DEF Running
    <3> QED
      BY <2>4, <2>5, <3>6
  <2> QED
    BY <2>6, <2>7
<1> QED
  BY <1>1, NestedInvariant, PTL
=============================================================================
