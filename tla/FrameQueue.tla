------------------------------ MODULE FrameQueue ------------------------------
(***************************************************************************)
(* What the ingestion relies on from its frame journal: the frames not yet *)
(* applied form a FIFO queue.  A frame joins at the end; frames leave from *)
(* the front, in order, once applied; nothing else ever happens to them.   *)
(***************************************************************************)
EXTENDS Naturals, Sequences

CONSTANT Frames

VARIABLE pending

Init == pending = <<>>

Enqueue(frame) == pending' = Append(pending, frame)

Applied(n) == pending' = SubSeq(pending, n + 1, Len(pending))

Next ==
    \/ \E frame \in Frames : Enqueue(frame)
    \/ \E n \in 1 .. Len(pending) : Applied(n)

Spec == Init /\ [][Next]_pending
=============================================================================
