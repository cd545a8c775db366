----------------------------- MODULE NestedCalls -----------------------------
(***************************************************************************)
(* Unary calls between several nodes whose handlers make calls of their    *)
(* own: the composition of RpcServer's stream permits with UnaryCall's     *)
(* client.  A substream's task holds its permit until its handler has      *)
(* returned, and the handler waits in read_to_end, which has no timeout,   *)
(* for a task of another node that needs a permit there.                   *)
(*                                                                         *)
(* A call is one request and the task that serves it.  Connections, their  *)
(* permits and the bytes of the answer are left to the two modules.        *)
(***************************************************************************)
EXTENDS Integers, Sequences, FiniteSets

CONSTANTS
    Nodes,
    Calls,
    NoCall,
    At,          \* the node that serves a call
    Parent,      \* the call whose handler makes it; NoCall for a plain client
    Rank,        \* nested calls go to nodes of a lower rank
    MaxStreams,  \* max_concurrent_streams of every node
    MaxCrashes   \* bound: nodes that crash and restart

(* Nothing in the code orders the nodes: it is the application that must.  *)
ASSUME NestedAssumption ==
    /\ IsFiniteSet(Calls) /\ NoCall \notin Calls
    /\ At \in [Calls -> Nodes]
    /\ Parent \in [Calls -> Calls \cup {NoCall}]
    /\ Rank \in [Nodes -> Nat]
    /\ \A k \in Calls : Parent[k] # NoCall => Rank[At[k]] < Rank[At[Parent[k]]]
    /\ MaxStreams \in Nat \ {0}
    /\ MaxCrashes \in Nat

VARIABLES
    free, queue, \* stream_permits of a node: free permits, tasks that wait
    task,        \* the task of a call's substream at the node that serves it
    call,        \* RpcClient::call at the node that makes it
    crashes

vars == <<free, queue, task, call, crashes>>

Children(k) == {j \in Calls : Parent[j] = k}
Awaited(k)  == {j \in Children(k) : call[j] = "waiting"}
(* The future of the caller is alive.                                      *)
CallerRuns(k) == Parent[k] # NoCall => task[Parent[k]] = "running"

-----------------------------------------------------------------------------
(* client.rs: RpcClient::call.                                             *)

(* call_inner opens the substream and writes the request, ...              *)
call_writes(k) ==
    /\ call[k] = "idle" /\ CallerRuns(k)
    /\ call' = [call EXCEPT ![k] = "waiting"]
    /\ task' = [task EXCEPT ![k] = "opened"]
    /\ UNCHANGED <<free, queue, crashes>>

(* ... or fails to, ...                                                    *)
call_unreachable(k) ==
    /\ call[k] = "idle" /\ CallerRuns(k)
    /\ call' = [call EXCEPT ![k] = "over"]
    /\ UNCHANGED <<free, queue, task, crashes>>

(* ... and reads to the end of the answer, which is there when the task    *)
(* has ended, by a panic too.                                              *)
call_returns(k) ==
    /\ call[k] = "waiting" /\ task[k] = "ended"
    /\ call' = [call EXCEPT ![k] = "over"]
    /\ UNCHANGED <<free, queue, task, crashes>>

(* Mutant: the read does not fail with the connection.                     *)
call_fails_never(k) == call[k] = "waiting" /\ task[k] = "lost" /\ UNCHANGED vars

(* The peer is gone: the read fails when the connection has timed out.     *)
call_fails(k) ==
    /\ call[k] = "waiting" /\ task[k] = "lost"
    /\ call' = [call EXCEPT ![k] = "over"]
    /\ UNCHANGED <<free, queue, task, crashes>>

(* The caller gives up (its future is dropped), or its connection fails    *)
(* although the peer lives.  Nothing tells the task.                       *)
call_abandoned(k) ==
    /\ call[k] = "waiting"
    /\ call' = [call EXCEPT ![k] = "over"]
    /\ UNCHANGED <<free, queue, task, crashes>>

-----------------------------------------------------------------------------
(* server.rs: run_connection_loop and the task of a substream.             *)

accept_bi(k) ==
    /\ task[k] = "opened"
    /\ task' = [task EXCEPT ![k] = "waiting"]
    /\ queue' = [queue EXCEPT ![At[k]] = Append(@, k)]
    /\ UNCHANGED <<free, call, crashes>>

(* Mutant: a task that is polled runs, permit or not.                      *)
acquire_stream_permit_unlimited(n) ==
    /\ queue[n] # <<>>
    /\ task' = [task EXCEPT ![Head(queue[n])] = "running"]
    /\ free' = [free EXCEPT ![n] = @ - 1]
    /\ queue' = [queue EXCEPT ![n] = Tail(@)]
    /\ UNCHANGED <<call, crashes>>

acquire_stream_permit(n) ==
    /\ queue[n] # <<>> /\ free[n] > 0
    /\ task' = [task EXCEPT ![Head(queue[n])] = "running"]
    /\ free' = [free EXCEPT ![n] = @ - 1]
    /\ queue' = [queue EXCEPT ![n] = Tail(@)]
    /\ UNCHANGED <<call, crashes>>

(* The handler has what it waited for: the answer is written - a caller    *)
(* that has gone does not matter -, and the permit is dropped.             *)
handler_returns(k) ==
    /\ task[k] = "running" /\ Awaited(k) = {}
    /\ task' = [task EXCEPT ![k] = "ended"]
    /\ free' = [free EXCEPT ![At[k]] = @ + 1]
    /\ UNCHANGED <<queue, call, crashes>>

(* Mutant: the permit is forgotten when the handler panics.                *)
handler_panics_leaks(k) ==
    /\ task[k] = "running"
    /\ task' = [task EXCEPT ![k] = "ended"]
    /\ call' = [j \in Calls |-> IF j \in Awaited(k) THEN "over" ELSE call[j]]
    /\ UNCHANGED <<free, queue, crashes>>

(* The handler panics, with its own calls in whatever state they are: the  *)
(* unwinding drops their futures and the permit.                           *)
handler_panics(k) ==
    /\ task[k] = "running"
    /\ task' = [task EXCEPT ![k] = "ended"]
    /\ free' = [free EXCEPT ![At[k]] = @ + 1]
    /\ call' = [j \in Calls |-> IF j \in Awaited(k) THEN "over" ELSE call[j]]
    /\ UNCHANGED <<queue, crashes>>

-----------------------------------------------------------------------------
(* A node crashes and serves again, with a new RpcServer.  What it served  *)
(* is lost, and what it called runs on elsewhere.                          *)
CrashAndRestart(n) ==
    LET lost == {k \in Calls : At[k] = n /\ task[k] \in {"opened", "waiting", "running"}}
    IN  /\ crashes < MaxCrashes
        /\ crashes' = crashes + 1
        /\ task' = [k \in Calls |-> IF k \in lost THEN "lost" ELSE task[k]]
        /\ call' = [k \in Calls |-> IF call[k] = "waiting" /\ Parent[k] \in lost
                                    THEN "over" ELSE call[k]]
        /\ free' = [free EXCEPT ![n] = MaxStreams]
        /\ queue' = [queue EXCEPT ![n] = <<>>]

-----------------------------------------------------------------------------
Init ==
    /\ free = [n \in Nodes |-> MaxStreams]
    /\ queue = [n \in Nodes |-> <<>>]
    /\ task = [k \in Calls |-> "none"]
    /\ call = [k \in Calls |-> "idle"]
    /\ crashes = 0

Next ==
    \/ \E k \in Calls :
          \/ call_writes(k) \/ call_unreachable(k) \/ call_returns(k) \/ call_fails(k)
          \/ call_abandoned(k)
          \/ accept_bi(k) \/ handler_returns(k) \/ handler_panics(k)
    \/ \E n \in Nodes : acquire_stream_permit(n) \/ CrashAndRestart(n)

Spec == Init /\ [][Next]_vars

(* The runtimes poll their tasks, connections time out, and a handler      *)
(* returns once the calls that it awaits have.  Nobody has to give up.     *)
Fairness ==
    /\ \A k \in Calls :
          /\ WF_vars(call_returns(k)) /\ WF_vars(call_fails(k))
          /\ WF_vars(accept_bi(k)) /\ WF_vars(handler_returns(k))
    /\ \A n \in Nodes : WF_vars(acquire_stream_permit(n))

FairSpec == Spec /\ Fairness

-----------------------------------------------------------------------------
(* The values every variable ranges over.                                  *)
TypeOK ==
    /\ free \in [Nodes -> 0..MaxStreams]
    /\ queue \in [Nodes -> Seq(Calls)]
    /\ task \in [Calls -> {"none", "opened", "waiting", "running", "ended", "lost"}]
    /\ call \in [Calls -> {"idle", "waiting", "over"}]
    /\ crashes \in 0..MaxCrashes

(* No call waits for ever, although every handler on its way holds a       *)
(* permit while it waits for the next node and no read has a timeout: not  *)
(* behind tasks whose callers have given up, not after a panic, and not    *)
(* when a node further down has crashed with everything it served.         *)
NestedCallsReturn == \A k \in Calls : (call[k] = "waiting") ~> (call[k] = "over")

(* Whatever is abandoned, panics or crashes, every node gets back to its   *)
(* full number of stream permits.                                          *)
BudgetRestored == \A n \in Nodes : []<>(free[n] = MaxStreams)
=============================================================================
