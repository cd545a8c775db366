------------------------------ MODULE StreamPipe ------------------------------
(***************************************************************************)
(* What one direction of a streaming call promises: a FIFO queue that may  *)
(* be cut.  A cut loses a suffix of what is queued, may put one error      *)
(* after what remains, and is final: nothing put later is delivered.       *)
(***************************************************************************)
EXTENDS Integers, Sequences

CONSTANTS Item,   \* what is queued
          Errors  \* the items that report a failure

VARIABLES q,     \* accepted, not yet delivered
          out,   \* delivered
          open   \* not cut

PipeInit == q = <<>> /\ out = <<>> /\ open = TRUE

Put == /\ open /\ UNCHANGED <<out, open>>
       /\ \E x \in Item : q' = Append(q, x)

Get == /\ q # <<>> /\ UNCHANGED open
       /\ out' = Append(out, Head(q)) /\ q' = Tail(q)

(* More of a pipe that is already cut may be lost later, and the error     *)
(* may come later than the cut; there is one error at most.                *)
Cut == /\ open' = FALSE /\ UNCHANGED out
       /\ \E i \in 0..Len(q) :
             \/ q' = SubSeq(q, 1, i)
             \/ /\ \A j \in DOMAIN (out \o SubSeq(q, 1, i)) :
                      (out \o SubSeq(q, 1, i))[j] \notin Errors
                /\ \E x \in Errors : q' = Append(SubSeq(q, 1, i), x)

PipeSpec == PipeInit /\ [][Put \/ Get \/ Cut]_<<q, out, open>>
=============================================================================
