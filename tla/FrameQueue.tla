----------------------------- MODULE FrameQueue -----------------------------
(***************************************************************************)
(* What the receive path takes the ENC28J60 and receive_packet for: a      *)
(* queue.  Frames leave it in the order they were stored, each of them     *)
(* once; one the chip marks as damaged leaves it without being delivered.  *)
(* EncDriver implements it with a ring of cells and banked registers;      *)
(* RxDispatch builds on it.                                                *)
(***************************************************************************)
EXTENDS Sequences

CONSTANTS
    Frame,       \* the frames the network may deliver
    BadFrame     \* those that are damaged

VARIABLES
    queue,       \* frames stored and not yet received
    delivered    \* the frame received last, if any

vars == <<queue, delivered>>

Init == queue = <<>> /\ delivered \notin Frame

Store(f) == queue' = Append(queue, f) /\ UNCHANGED delivered

Receive ==
    /\ queue # <<>>
    /\ queue' = Tail(queue)
    /\ delivered' = IF Head(queue) \in BadFrame THEN delivered ELSE Head(queue)

Next == (\E f \in Frame : Store(f)) \/ Receive

Spec == Init /\ [][Next]_vars
=============================================================================
