------------------------------ MODULE WrpcJournal ------------------------------
(***************************************************************************)
(* WrpcJournal (src/wrpc.rs): the durable log of wRPC frames of one source *)
(* and its checkpoint.  Every operation is one IMMEDIATE transaction; one  *)
(* that returns Err rolls back and is no step.  prune_applied reads the    *)
(* checkpoint and deletes in two transactions, so what it read may be old. *)
(***************************************************************************)
EXTENDS Naturals, Sequences, FiniteSets

CONSTANTS
    Frames,
    MaxSequence     \* the largest SQLite INTEGER; small in TLC's instances

ASSUME MaxSequenceAssumption == MaxSequence \in Nat

VARIABLES
    frames,         \* table wrpc_frames: sequence -> frame
    checkpoint,     \* table wrpc_checkpoint; 0 when there is no row
    issued          \* ghost: every frame ever inserted, in order

vars == <<frames, checkpoint, issued>>

Sequences1 == 1 .. MaxSequence

TypeOK ==
    /\ DOMAIN frames \subseteq Sequences1
    /\ \A s \in DOMAIN frames : frames[s] \in Frames
    /\ checkpoint \in 0 .. MaxSequence
    /\ issued \in Seq(Frames)

Init == frames = <<>> /\ checkpoint = 0 /\ issued = <<>>

-----------------------------------------------------------------------------
(* MAX(sequence of the frames, checkpoint) + 1: pruning must not free a    *)
(* number, so the checkpoint counts too.                                   *)
IsNext(seq) ==
    /\ seq > checkpoint /\ \A s \in DOMAIN frames : seq > s
    /\ seq = 1 \/ seq = checkpoint + 1 \/ \E s \in DOMAIN frames : seq = s + 1

(* INSERT INTO wrpc_frames.                                                *)
Insert(seq, frame) ==
    /\ seq \in Sequences1
    /\ frames' = [s \in DOMAIN frames \cup {seq} |->
                     IF s = seq THEN frame ELSE frames[s]]
    /\ issued' = Append(issued, frame)

(* A new frame at an explicit number, which must be the next; a number     *)
(* already used for the same frame is accepted and changes nothing.        *)
Record(seq, frame) ==
    /\ seq \notin DOMAIN frames /\ IsNext(seq)
    /\ Insert(seq, frame)
    /\ UNCHANGED checkpoint

AppendFrame(frame) ==
    \E seq \in Sequences1 : Record(seq, frame)

HasPending == \E s \in DOMAIN frames : s > checkpoint

(* A frame with no ledger delta: inserted and checkpointed at once, only   *)
(* when no frame is pending.                                               *)
AppendApplied(frame) ==
    /\ ~HasPending
    /\ Insert(checkpoint + 1, frame)
    /\ checkpoint' = checkpoint + 1

(* At or below the checkpoint both are accepted and change nothing.        *)
MarkApplied(seq) ==
    /\ seq = checkpoint + 1 /\ seq \in DOMAIN frames
    /\ checkpoint' = seq
    /\ UNCHANGED <<frames, issued>>

(* COUNT of the frames in the range: all of them must be there.            *)
MarkAppliedThrough(seq) ==
    /\ seq > checkpoint
    /\ checkpoint + 1 .. seq \subseteq DOMAIN frames
    /\ checkpoint' = seq
    /\ UNCHANGED <<frames, issued>>

(* Mutant: the comparison of DELETE is reversed.                           *)
PruneBeyond(seen, retain) ==
    LET kept == {s \in DOMAIN frames : s <= seen + retain} IN
    /\ frames' = [s \in kept |-> frames[s]]
    /\ UNCHANGED <<checkpoint, issued>>

(* `seen` is the checkpoint when it was read.                              *)
PruneApplied(seen, retain) ==
    LET kept == {s \in DOMAIN frames : s + retain > seen} IN
    /\ frames' = [s \in kept |-> frames[s]]
    /\ UNCHANGED <<checkpoint, issued>>

Next ==
    \/ \E frame \in Frames :
        \/ \E seq \in Sequences1 : Record(seq, frame)
        \/ AppendFrame(frame)
        \/ AppendApplied(frame)
    \/ \E seq \in Sequences1 : MarkApplied(seq) \/ MarkAppliedThrough(seq)
    \/ \E seen \in 0 .. checkpoint, retain \in 0 .. MaxSequence :
        PruneApplied(seen, retain)

Spec == Init /\ [][Next]_vars

-----------------------------------------------------------------------------
(* The table is a window on the log of all frames ever inserted: a number  *)
(* never names two frames, not even after all of them were pruned; numbers *)
(* have no gap; and every frame beyond the checkpoint is still there.      *)
WindowOnLog ==
    /\ \A s \in DOMAIN frames : s <= Len(issued) /\ frames[s] = issued[s]
    /\ checkpoint <= Len(issued)
    /\ checkpoint + 1 .. Len(issued) \subseteq DOMAIN frames

(* frames() beyond checkpoint(), as the replays read them.                 *)
Pending ==
    LET count == Cardinality({s \in DOMAIN frames : s > checkpoint})
    IN  [i \in 1 .. count |-> frames[checkpoint + i]]

Queue == INSTANCE FrameQueue WITH pending <- Pending

(* To whoever replays it the journal is a FIFO queue: frames leave from    *)
(* the front, in the order they came, and never come back; one that came   *)
(* later never leaves before.                                              *)
ImplementsFrameQueue == Queue!Spec
=============================================================================
