-------------------------- MODULE IndicationFifo --------------------------
(***************************************************************************)
(* What the platform promises the callbacks of the library: the            *)
(* indications taken from the node are handed over one at a time, in the   *)
(* order they were accepted, each exactly once, and the indication a       *)
(* callback is looking at does not change under it.                        *)
(***************************************************************************)
EXTENDS Naturals, Sequences

CONSTANTS Ind,       \* the indications (wpc_frame_t with its timestamp)
          Capacity,  \* how many may wait, the one being handled included
          NoInd      \* no callback is running

VARIABLES fifo,      \* accepted and not yet fully handled, oldest first
          current    \* the content the running callback sees

vars == <<fifo, current>>

Init == /\ fifo = << >>
        /\ current = NoInd

\* The poll thread accepts an indication.
Arrive(x) == /\ Len(fifo) < Capacity
             /\ fifo' = Append(fifo, x)
             /\ UNCHANGED current

\* A callback starts on the oldest indication, which keeps its place.
Begin == /\ current = NoInd
         /\ fifo # << >>
         /\ current' = Head(fifo)
         /\ UNCHANGED fifo

\* The callback has returned: its indication leaves the queue.
End == /\ current # NoInd
       /\ current' = NoInd
       /\ fifo' = Tail(fifo)

Next == \/ \E x \in Ind : Arrive(x)
        \/ Begin
        \/ End

Safety == Init /\ [][Next]_vars

\* Everything accepted is handled, provided callbacks return.
Spec == Safety /\ WF_vars(Begin) /\ WF_vars(End)
===========================================================================
