---------------------------- MODULE MCRxDispatch ----------------------------
(***************************************************************************)
(* Instances of RxDispatch for TLC.  Three frames are enough to tell the   *)
(* handlers apart: an ARP reply that the ARP auto-reply and every waiter   *)
(* accept, a frame nobody waits for, and one the chip marks as bad.        *)
(***************************************************************************)
EXTENDS RxDispatch, TLC

CONSTANTS fReply, fOther, fBad

MCFrame == {fReply, fOther, fBad}
MCBadFrame == {fBad}
MCMatch == [f \in MCFrame |-> IF f = fReply THEN Handlers ELSE {}]

(* The waits are interchangeable, and so are the threads that pause.        *)
MCSymmetry == Permutations(Waiters) \cup Permutations(Pausers)

(* Traffic without bad frames, for the runs whose question is another one. *)
MCGoodFrame == {fReply, fOther}
MCNoBadFrame == {}
MCGoodMatch == [f \in MCGoodFrame |-> IF f = fReply THEN Handlers ELSE {}]

=============================================================================
