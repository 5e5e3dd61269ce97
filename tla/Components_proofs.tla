-------------------------- MODULE Components_proofs --------------------------
(***************************************************************************)
(* Proofs about the components of the bench, for every value of their      *)
(* constants: of each an inductive invariant, and what it gives; then the  *)
(* invariant of the bench.  The journal, which is also used by itself, has *)
(* its theorems first.                                                     *)
(***************************************************************************)
EXTENDS Components, FiniteSetTheorems, SequenceTheorems, WellFoundedInduction, TLAPS

(***************************************************************************)
(* The journal: its window on the log is an inductive invariant, and under *)
(* it the frames beyond the checkpoint are a FIFO queue.                   *)
(***************************************************************************)
Inv == TypeOK /\ WindowOnLog

(* The number of the next frame is one more than the length of the log.    *)
LEMMA NextNumber ==
    ASSUME Inv, NEW seq \in Sequences1, IsNext(seq)
    PROVE  seq = Len(issued) + 1
<1>1. Len(issued) \in Nat
  BY DEF Inv, TypeOK
<1>2. \A s \in DOMAIN frames : s \in Nat /\ s <= Len(issued)
  BY DEF Inv, TypeOK, WindowOnLog, Sequences1
<1>3. seq \in Nat /\ checkpoint \in Nat /\ checkpoint <= Len(issued)
  BY MaxSequenceAssumption DEF Inv, TypeOK, WindowOnLog, Sequences1
<1>4. seq > Len(issued)
  <2>1. CASE checkpoint = Len(issued)
    BY <2>1 DEF IsNext
  <2>2. CASE checkpoint # Len(issued)
    <3>1. Len(issued) \in checkpoint + 1 .. Len(issued)
      BY <1>1, <1>3, <2>2
    <3>2. Len(issued) \in DOMAIN frames
      BY <3>1 DEF Inv, WindowOnLog
    <3> QED  BY <3>2 DEF IsNext
  <2> QED  BY <2>1, <2>2
<1>5. seq <= Len(issued) + 1
  BY <1>1, <1>2, <1>3, <1>4 DEF IsNext
<1> QED  BY <1>1, <1>3, <1>4, <1>5

(* Without pending frames the checkpoint is the end of the log.            *)
LEMMA CheckpointAtEnd ==
    ASSUME Inv, ~HasPending
    PROVE  checkpoint = Len(issued)
<1>1. Len(issued) \in Nat /\ checkpoint \in Nat /\ checkpoint <= Len(issued)
  BY MaxSequenceAssumption DEF Inv, TypeOK, WindowOnLog
<1>2. SUFFICES ASSUME checkpoint # Len(issued)
               PROVE  FALSE
  OBVIOUS
<1>3. Len(issued) \in DOMAIN frames /\ Len(issued) > checkpoint
  BY <1>1, <1>2 DEF Inv, WindowOnLog
<1> QED  BY <1>3 DEF HasPending

(* Inserting at the end of the log keeps the window.                       *)
LEMMA InsertAtEnd ==
    ASSUME Inv, NEW frame \in Frames, NEW seq, seq = Len(issued) + 1,
           Insert(seq, frame), checkpoint' \in {checkpoint, seq}
    PROVE  Inv'
<1>1. Len(issued) \in Nat /\ issued \in Seq(Frames) /\ checkpoint \in Nat
  BY MaxSequenceAssumption DEF Inv, TypeOK
<1>2. /\ issued' \in Seq(Frames) /\ Len(issued') = seq /\ issued'[seq] = frame
      /\ \A i \in 1 .. Len(issued) : issued'[i] = issued[i]
  BY <1>1 DEF Insert
<1>3. seq \in Sequences1 /\ seq \in Nat
  BY <1>1 DEF Insert
<1>4. DOMAIN frames' = DOMAIN frames \cup {seq}
  BY DEF Insert
<1>5. \A s \in DOMAIN frames' : frames'[s] = IF s = seq THEN frame ELSE frames[s]
  BY <1>4 DEF Insert
<1>6. TypeOK'
  BY <1>2, <1>3, <1>4, <1>5 DEF Inv, TypeOK, Sequences1
<1>7. \A s \in DOMAIN frames' : s <= Len(issued') /\ frames'[s] = issued'[s]
  <2> SUFFICES ASSUME NEW s \in DOMAIN frames', s # seq
               PROVE  s <= Len(issued') /\ frames'[s] = issued'[s]
    BY <1>2, <1>3, <1>5
  <2>1. s \in DOMAIN frames /\ s \in Nat /\ s >= 1
    BY <1>4 DEF Inv, TypeOK, Sequences1
  <2>2. s <= Len(issued) /\ frames[s] = issued[s]
    BY <2>1 DEF Inv, WindowOnLog
  <2> QED  BY <1>1, <1>2, <1>5, <2>1, <2>2
<1>8. /\ checkpoint' <= Len(issued')
      /\ checkpoint' + 1 .. Len(issued') \subseteq DOMAIN frames'
  <2>1. CASE checkpoint' = checkpoint
    <3> SUFFICES ASSUME NEW s \in checkpoint + 1 .. seq, s # seq
                 PROVE  s \in DOMAIN frames
      BY <1>1, <1>2, <1>3, <1>4, <2>1 DEF Inv, WindowOnLog
    <3>1. s \in checkpoint + 1 .. Len(issued)
      BY <1>1
    <3> QED  BY <3>1 DEF Inv, WindowOnLog
  <2>2. CASE checkpoint' = seq
    BY <1>2, <1>3, <2>2
  <2> QED  BY <2>1, <2>2
<1> QED  BY <1>6, <1>7, <1>8 DEF Inv, WindowOnLog

LEMMA InvInit == Init => Inv
  BY MaxSequenceAssumption DEF Init, Inv, TypeOK, WindowOnLog, Sequences1

LEMMA InvNext == Inv /\ [Next]_vars => Inv'
<1> SUFFICES ASSUME Inv, [Next]_vars
             PROVE  Inv'
  OBVIOUS
<1>0. checkpoint \in Nat /\ Len(issued) \in Nat
  BY MaxSequenceAssumption DEF Inv, TypeOK
<1>1. ASSUME NEW frame \in Frames, NEW seq \in Sequences1, Record(seq, frame)
      PROVE  Inv'
  <2>1. seq = Len(issued) + 1
    BY <1>1, NextNumber DEF Record
  <2> QED  BY <1>1, <2>1, InsertAtEnd DEF Record
<1>2. ASSUME NEW frame \in Frames, AppendFrame(frame)
      PROVE  Inv'
  BY <1>1, <1>2 DEF AppendFrame
<1>3. ASSUME NEW frame \in Frames, AppendApplied(frame)
      PROVE  Inv'
  <2>1. checkpoint + 1 = Len(issued) + 1
    BY <1>3, CheckpointAtEnd DEF AppendApplied
  <2> QED  BY <1>3, <2>1, InsertAtEnd DEF AppendApplied
<1>4. ASSUME NEW seq \in Sequences1, MarkAppliedThrough(seq)
      PROVE  Inv'
  <2>1. seq \in DOMAIN frames
    BY <1>0, <1>4 DEF MarkAppliedThrough, Sequences1
  <2>2. seq <= Len(issued) /\ seq \in Nat
    BY <2>1 DEF Inv, WindowOnLog, TypeOK, Sequences1
  <2>3. seq + 1 .. Len(issued) \subseteq checkpoint + 1 .. Len(issued)
    BY <1>0, <1>4, <2>2 DEF MarkAppliedThrough
  <2> QED
    BY <1>4, <2>2, <2>3
    DEF MarkAppliedThrough, Inv, TypeOK, WindowOnLog, Sequences1
<1>5. ASSUME NEW seq \in Sequences1, MarkApplied(seq)
      PROVE  Inv'
  <2>1. MarkAppliedThrough(seq)
    BY <1>0, <1>5 DEF MarkApplied, MarkAppliedThrough, Sequences1
  <2> QED  BY <1>4, <2>1
<1>6. ASSUME NEW seen \in 0 .. checkpoint, NEW retain \in 0 .. MaxSequence,
             PruneApplied(seen, retain)
      PROVE  Inv'
  <2>1. /\ DOMAIN frames' = {s \in DOMAIN frames : s + retain > seen}
        /\ \A s \in DOMAIN frames' : frames'[s] = frames[s]
        /\ checkpoint' = checkpoint /\ issued' = issued
    BY <1>6 DEF PruneApplied
  <2>2. checkpoint + 1 .. Len(issued) \subseteq DOMAIN frames'
    BY <1>0, <2>1, MaxSequenceAssumption DEF Inv, WindowOnLog
  <2> QED  BY <2>1, <2>2 DEF Inv, TypeOK, WindowOnLog
<1>7. CASE UNCHANGED vars
  BY <1>7 DEF vars, Inv, TypeOK, WindowOnLog
<1> QED
  BY <1>1, <1>2, <1>3, <1>4, <1>5, <1>6, <1>7 DEF Next

(* The table is a window on the gap-free log of all frames ever inserted.  *)
THEOREM JournalWindow == Spec => []Inv
  BY InvInit, InvNext, PTL DEF Spec

(* Its types, for any frames and any capacity.                             *)
THEOREM TypeCorrect == Spec => []TypeOK
  BY JournalWindow, PTL DEF Inv

(* No number names two frames, no gap, nothing pending is ever pruned.     *)
THEOREM NothingPendingLost == Spec => []WindowOnLog
  BY JournalWindow, PTL DEF Inv

-----------------------------------------------------------------------------
(* What is left of a log after its first n entries.                        *)
RestFrom(queue, log, n) ==
    /\ queue \in Seq(Frames)
    /\ Len(queue) = Len(log) - n
    /\ \A i \in 1 .. Len(queue) : queue[i] = log[n + i]

RestOfLog == RestFrom(Pending, issued, checkpoint)

(* Beyond the checkpoint the table holds the rest of the log.              *)
LEMMA PendingIsRest == Inv => RestOfLog
<1> SUFFICES ASSUME Inv
             PROVE  RestOfLog
  OBVIOUS
<1> DEFINE rest  == checkpoint + 1 .. Len(issued)
           count == Len(issued) - checkpoint
<1>1. /\ Len(issued) \in Nat /\ checkpoint \in Nat /\ count \in Nat
      /\ issued \in Seq(Frames)
  BY MaxSequenceAssumption DEF Inv, TypeOK, WindowOnLog
<1>2. {s \in DOMAIN frames : s > checkpoint} = rest
  <2>1. \A s \in DOMAIN frames : s \in Nat /\ s <= Len(issued)
    BY DEF Inv, TypeOK, WindowOnLog, Sequences1
  <2>2. rest \subseteq DOMAIN frames
    BY DEF Inv, WindowOnLog
  <2> QED  BY <1>1, <2>1, <2>2
<1>3. Cardinality(rest) = count
  <2>0. checkpoint + 1 \in Int /\ Len(issued) \in Int
    BY <1>1
  <2>1. Cardinality(rest) = IF checkpoint + 1 > Len(issued) THEN 0
                            ELSE Len(issued) - (checkpoint + 1) + 1
    BY <2>0, FS_Interval
  <2>2. count = IF checkpoint + 1 > Len(issued) THEN 0
                ELSE Len(issued) - (checkpoint + 1) + 1
    BY <1>1
  <2> QED  BY <2>1, <2>2
<1>4. Pending = [i \in 1 .. count |-> frames[checkpoint + i]]
  BY <1>2, <1>3 DEF Pending
<1>5. \A i \in 1 .. count : /\ frames[checkpoint + i] = issued[checkpoint + i]
                            /\ frames[checkpoint + i] \in Frames
  <2> TAKE i \in 1 .. count
  <2>1. checkpoint + i \in rest
    BY <1>1
  <2> QED  BY <2>1 DEF Inv, WindowOnLog, TypeOK
<1>6. /\ Pending \in Seq(Frames) /\ Len(Pending) = count
      /\ \A i \in 1 .. count : Pending[i] = frames[checkpoint + i]
  <2>1. count = Len(issued) - checkpoint
    OBVIOUS
  <2> HIDE DEF count
  <2>2. \A i \in 1 .. count : frames[checkpoint + i] \in Frames
    BY <1>5
  <2>3. [i \in 1 .. count |-> frames[checkpoint + i]] \in Seq(Frames)
    BY <1>1, <2>2
  <2> QED  BY <1>1, <1>4, <2>3
<1> QED  BY <1>5, <1>6 DEF RestOfLog, RestFrom

(* A frame put at the end of the log, still to be applied, is enqueued.    *)
LEMMA InsertEnqueues ==
    ASSUME Inv, Inv', NEW frame \in Frames, issued' = Append(issued, frame),
           checkpoint' = checkpoint
    PROVE  Queue!Enqueue(frame)
<1>1. /\ issued \in Seq(Frames) /\ Len(issued) \in Nat /\ checkpoint \in Nat
      /\ checkpoint <= Len(issued)
  BY MaxSequenceAssumption DEF Inv, TypeOK, WindowOnLog
<1>2. /\ Pending \in Seq(Frames)
      /\ Len(Pending) = Len(issued) - checkpoint
      /\ \A i \in 1 .. Len(Pending) : Pending[i] = issued[checkpoint + i]
  BY PendingIsRest DEF RestOfLog, RestFrom
<1>3. /\ Pending' \in Seq(Frames)
      /\ Len(Pending') = Len(issued') - checkpoint
      /\ \A i \in 1 .. Len(Pending') : Pending'[i] = issued'[checkpoint + i]
  <2>1. Inv' => RestOfLog'
    BY PendingIsRest, PTL
  <2> QED  BY <2>1 DEF RestOfLog, RestFrom
<1>4. /\ Len(issued') = Len(issued) + 1 /\ issued'[Len(issued) + 1] = frame
      /\ \A i \in 1 .. Len(issued) : issued'[i] = issued[i]
  BY <1>1
<1>5. Append(Pending, frame) \in Seq(Frames)
      /\ Len(Append(Pending, frame)) = Len(Pending)+1
      /\ \A i \in 1.. Len(Pending) : Append(Pending, frame)[i] = Pending[i]
      /\ Append(Pending, frame)[Len(Pending)+1] = frame
  BY <1>2, AppendProperties
<1>6. Len(Pending') = Len(Append(Pending, frame))
  BY <1>1, <1>2, <1>3, <1>4, <1>5
<1>7. \A i \in 1 .. Len(Pending') : Pending'[i] = Append(Pending, frame)[i]
  <2> SUFFICES ASSUME NEW i \in 1 .. Len(Pending')
               PROVE  Pending'[i] = Append(Pending, frame)[i]
    OBVIOUS
  <2>1. Pending'[i] = issued'[checkpoint + i]
    BY <1>3
  <2>2. CASE i \in 1 .. Len(Pending)
    BY <1>1, <1>2, <1>4, <1>5, <2>1, <2>2
  <2>3. CASE i = Len(Pending) + 1
    BY <1>1, <1>2, <1>4, <1>5, <2>1, <2>3
  <2> QED  BY <1>2, <1>5, <1>6, <2>2, <2>3
<1>8. Pending' = Append(Pending, frame)
  BY <1>3, <1>5, <1>6, <1>7, SeqEqual
<1> QED  BY <1>8 DEF Queue!Enqueue

(* Two suffixes of a sequence: the shorter is the end of the longer.       *)
LEMMA SuffixOfSuffix ==
    ASSUME NEW log \in Seq(Frames), NEW a \in Nat, NEW b \in Nat,
           a < b, b <= Len(log),
           NEW old, RestFrom(old, log, a), NEW new, RestFrom(new, log, b)
    PROVE  \E n \in 1 .. Len(old) : new = SubSeq(old, n + 1, Len(old))
<1>0. /\ old \in Seq(Frames) /\ Len(old) = Len(log) - a
      /\ \A i \in 1 .. Len(old) : old[i] = log[a + i]
      /\ new \in Seq(Frames) /\ Len(new) = Len(log) - b
      /\ \A i \in 1 .. Len(new) : new[i] = log[b + i]
  BY DEF RestFrom
<1>1. PICK n \in Nat : n = b - a
  OBVIOUS
<1>2. PICK count \in Nat : count = Len(log)
  OBVIOUS
<1>3. n \in 1 .. Len(old) /\ Len(old) = count - a /\ Len(new) = count - b
  BY <1>0, <1>1, <1>2
<1>4. \A i \in n + 1 .. Len(old) : old[i] \in Frames
  BY <1>0, <1>1, <1>3, ElementOfSeq
<1> DEFINE later == SubSeq(old, n + 1, Len(old))
<1>5. /\ later \in Seq(Frames)
      /\ Len(later) = IF n + 1 <= Len(old) THEN Len(old) - (n + 1) + 1 ELSE 0
      /\ \A i \in 1 .. Len(old) - (n + 1) + 1 : later[i] = old[(n + 1) + i - 1]
  BY <1>1, <1>3, <1>4, SubSeqProperties
<1> HIDE DEF later
<1>6. Len(later) = Len(new)
  <2>1. Len(later) = IF n + 1 <= Len(old) THEN Len(old) - (n + 1) + 1 ELSE 0
    BY <1>5
  <2>2. Len(old) \in Nat /\ Len(old) >= n
    BY <1>0, <1>3
  <2>3. Len(later) = Len(old) - n
    BY <1>1, <2>1, <2>2
  <2> QED  BY <1>1, <1>2, <1>3, <2>3
<1>7. ASSUME NEW i \in 1 .. Len(new)
      PROVE  later[i] = new[i]
  <2>1. i \in 1 .. Len(old) - (n + 1) + 1 /\ (n + 1) + i - 1 = n + i
    BY <1>1, <1>2, <1>3
  <2>2. later[i] = old[n + i]
    BY <1>5, <2>1
  <2>3. n + i \in 1 .. Len(old) /\ a + (n + i) = b + i
    BY <1>1, <1>2, <1>3
  <2> QED  BY <1>0, <2>2, <2>3
<1>8. new = later
  BY <1>0, <1>5, <1>6, <1>7, SeqEqual
<1> QED  BY <1>3, <1>8 DEF later

(* Moving the checkpoint over n frames of an unchanged log takes the first *)
(* n frames off the queue.                                                 *)
LEMMA CheckpointDequeues ==
    ASSUME Inv, Inv', issued' = issued, checkpoint' > checkpoint
    PROVE  Queue!Next
<1>1. issued \in Seq(Frames) /\ checkpoint \in Nat /\ checkpoint <= Len(issued)
  BY MaxSequenceAssumption DEF Inv, TypeOK, WindowOnLog
<1>2. checkpoint' \in Nat /\ checkpoint' <= Len(issued)
  <2>1. checkpoint' \in 0 .. MaxSequence /\ checkpoint' <= Len(issued')
    BY DEF Inv, TypeOK, WindowOnLog
  <2> QED  BY <2>1, MaxSequenceAssumption
<1>3. RestOfLog
  BY PendingIsRest
<1>4. RestOfLog'
  BY PendingIsRest, PTL
<1>5. checkpoint < checkpoint'
  BY <1>1, <1>2
<1>6. RestFrom(Pending', issued, checkpoint')
  BY <1>4 DEF RestOfLog
<1>7. \E n \in 1 .. Len(Pending) : Pending' = SubSeq(Pending, n + 1, Len(Pending))
  BY <1>1, <1>2, <1>3, <1>5, <1>6, SuffixOfSuffix DEF RestOfLog
<1> QED  BY <1>7 DEF Queue!Next, Queue!Applied

(* With both unchanged the queue is unchanged.                             *)
LEMMA SameLogSameQueue ==
    ASSUME Inv, Inv', issued' = issued, checkpoint' = checkpoint
    PROVE  Pending' = Pending
<1>1. /\ Pending \in Seq(Frames)
      /\ Len(Pending) = Len(issued) - checkpoint
      /\ \A i \in 1 .. Len(Pending) : Pending[i] = issued[checkpoint + i]
  BY PendingIsRest DEF RestOfLog, RestFrom
<1>2. /\ Pending' \in Seq(Frames)
      /\ Len(Pending') = Len(issued) - checkpoint
      /\ \A i \in 1 .. Len(Pending') : Pending'[i] = issued[checkpoint + i]
  <2>1. Inv' => RestOfLog'
    BY PendingIsRest, PTL
  <2> QED  BY <2>1 DEF RestOfLog, RestFrom
<1> QED  BY <1>1, <1>2, SeqEqual

(* A frame inserted as applied never shows in the queue.                   *)
LEMMA AppliedAtOnce ==
    ASSUME Inv, Inv', NEW frame \in Frames, AppendApplied(frame)
    PROVE  Pending' = Pending
<1>1. checkpoint = Len(issued) /\ issued \in Seq(Frames) /\ checkpoint \in Nat
  BY CheckpointAtEnd, MaxSequenceAssumption DEF AppendApplied, Inv, TypeOK
<1>2. Len(issued') = checkpoint + 1 /\ checkpoint' = checkpoint + 1
  BY <1>1 DEF AppendApplied, Insert
<1>3. Pending \in Seq(Frames) /\ Len(Pending) = 0
  BY <1>1, PendingIsRest DEF RestOfLog, RestFrom
<1>4. Pending' \in Seq(Frames) /\ Len(Pending') = 0
  <2>1. Inv' => RestOfLog'
    BY PendingIsRest, PTL
  <2> QED  BY <1>1, <1>2, <2>1 DEF RestOfLog, RestFrom
<1> QED  BY <1>3, <1>4, SeqEqual

LEMMA QueueInit == Init => Queue!Init
<1> SUFFICES ASSUME Init
             PROVE  Pending = <<>>
  BY DEF Queue!Init
<1>1. Inv /\ Len(issued) = 0 /\ checkpoint = 0
  BY InvInit DEF Init
<1>2. Pending \in Seq(Frames) /\ Len(Pending) = 0
  BY <1>1, PendingIsRest DEF RestOfLog, RestFrom
<1> QED  BY <1>2

LEMMA QueueNext == Inv /\ Inv' /\ [Next]_vars => [Queue!Next]_Pending
<1> SUFFICES ASSUME Inv, Inv', [Next]_vars
             PROVE  Queue!Next \/ Pending' = Pending
  OBVIOUS
<1>0. checkpoint \in Nat
  BY MaxSequenceAssumption DEF Inv, TypeOK
<1>1. ASSUME NEW frame \in Frames, NEW seq \in Sequences1, Record(seq, frame)
      PROVE  Queue!Next
  <2>1. issued' = Append(issued, frame) /\ checkpoint' = checkpoint
    BY <1>1 DEF Record, Insert
  <2> QED  BY <2>1, InsertEnqueues DEF Queue!Next
<1>2. ASSUME NEW frame \in Frames, AppendFrame(frame)
      PROVE  Queue!Next
  BY <1>1, <1>2 DEF AppendFrame
<1>3. ASSUME NEW frame \in Frames, AppendApplied(frame)
      PROVE  Pending' = Pending
  BY <1>3, AppliedAtOnce
<1>4. ASSUME NEW seq \in Sequences1, MarkApplied(seq) \/ MarkAppliedThrough(seq)
      PROVE  Queue!Next
  <2>1. issued' = issued /\ checkpoint' > checkpoint
    BY <1>0, <1>4 DEF MarkApplied, MarkAppliedThrough, Sequences1
  <2> QED  BY <2>1, CheckpointDequeues
<1>5. ASSUME NEW seen \in 0 .. checkpoint, NEW retain \in 0 .. MaxSequence,
             PruneApplied(seen, retain)
      PROVE  Pending' = Pending
  BY <1>5, SameLogSameQueue DEF PruneApplied
<1>6. CASE UNCHANGED vars
  BY <1>6, SameLogSameQueue DEF vars
<1> QED  BY <1>1, <1>2, <1>3, <1>4, <1>5, <1>6 DEF Next

(* To whoever replays it the journal is a FIFO queue of frames.            *)
THEOREM JournalIsQueue == Spec => ImplementsFrameQueue
<1>1. Init => Queue!Init
  BY QueueInit
<1>2. Inv /\ Inv' /\ [Next]_vars => [Queue!Next]_Pending
  BY QueueNext
<1>3. Spec => []Inv
  BY JournalWindow
<1> QED  BY <1>1, <1>2, <1>3, PTL DEF Spec, ImplementsFrameQueue, Queue!Spec

-----------------------------------------------------------------------------
(* Least elements, for the node that lags least and the check that fails.  *)

(* The order on numbers, as the relation that is well-founded.             *)
LEMMA LessRelated ==
    ASSUME NEW x \in Nat, NEW y \in Nat, x < y
    PROVE  <<x, y>> \in OpToRel(<, Nat)
BY Zenon DEF OpToRel

(* A set of numbers that is not empty has a least one.                     *)
LEMMA LeastExists ==
    ASSUME NEW S, S \subseteq Nat, S # {}
    PROVE  \E x \in S : \A y \in S : x <= y
<1>1. PICK m \in S : \A n \in S : ~ (<<n, m>> \in OpToRel(<, Nat))
  BY NatLessThanWellFounded, WFMin, Zenon
<1>2. \A n \in S : ~ (n < m)
  BY <1>1, LessRelated
<1>3. QED  BY <1>2

-----------------------------------------------------------------------------
(* Sums over finite sets, as the folds of the library define them: there is *)
(* no induction over an operator here, so the sets that have a property are *)
(* collected, and the smallest one that has it not cannot be.               *)

(* One step of a fold: the library takes any term, then the others.         *)
Taken(s) == CHOOSE x \in s : TRUE
StepOf(f, g, s) == IF s = {} THEN 0 ELSE f[Taken(s)] + g[s \ {Taken(s)}]

(* The term a fold takes is one of the set.                                 *)
LEMMA TakenIn == \A s : s # {} => Taken(s) \in s
BY DEF Taken

SmallIn(S, n) == {s \in SUBSET S : Cardinality(s) <= n}
Solves(f, D, g) == g = [s \in D |-> StepOf(f, g, s)]

(* The equations of a fold have a solution on the sets up to a size: by     *)
(* induction on the size.                                                   *)
LEMMA Partial ==
    ASSUME NEW S, IsFiniteSet(S), NEW f, NEW n \in Nat
    PROVE  \E g : Solves(f, SmallIn(S, n), g)
<1> DEFINE Small(k) == SmallIn(S, k)
           Solved(k) == \E g : Solves(f, Small(k), g)
           Bad == {k \in Nat : ~Solved(k)}
<1> USE DEF Solves, SmallIn
<1>1. \A s \in SUBSET S : /\ Cardinality(s) \in Nat
                          /\ s # {} => /\ s \ {Taken(s)} \in SUBSET S
                                       /\ Cardinality(s \ {Taken(s)}) = Cardinality(s) - 1
                          /\ Cardinality(s) = 0 <=> s = {}
  BY TakenIn, FS_Subset, FS_RemoveElement, FS_CardinalityType, FS_EmptySet
<1>2. Solved(0)
  <2> DEFINE g == [s \in Small(0) |-> 0]
  <2>1. ASSUME NEW s \in Small(0) PROVE s = {}
    <3>1. s \in SUBSET S /\ Cardinality(s) <= 0 /\ Cardinality(s) \in Nat
      BY <1>1
    <3>2. Cardinality(s) = 0
      BY <3>1
    <3>3. QED  BY <1>1, <3>1, <3>2
  <2>2. g = [s \in Small(0) |-> StepOf(f, g, s)]
    BY <2>1 DEF StepOf
  <2>3. QED  BY <2>2
<1>3. ASSUME NEW k \in Nat, Solved(k) PROVE Solved(k + 1)
  <2>1. PICK g : g = [s \in Small(k) |-> StepOf(f, g, s)]
    BY <1>3
  <2> DEFINE h == [s \in Small(k + 1) |-> StepOf(f, g, s)]
  <2>2. ASSUME NEW s \in Small(k) PROVE s \in Small(k + 1) /\ h[s] = g[s]
    <3>1. s \in Small(k + 1)
      <4>1. s \in SUBSET S /\ Cardinality(s) \in Nat /\ Cardinality(s) <= k
        BY <1>1
      <4>2. QED  BY <4>1
    <3>2. h[s] = StepOf(f, g, s)
      BY <3>1
    <3>3. g[s] = StepOf(f, g, s)
      BY <2>1
    <3>4. QED  BY <3>1, <3>2, <3>3
  <2>3. \A s \in Small(k + 1) : s # {} => s \ {Taken(s)} \in Small(k)
    BY <1>1
  <2>4. \A s \in Small(k + 1) : StepOf(f, h, s) = StepOf(f, g, s)
    <3> SUFFICES ASSUME NEW s \in Small(k + 1)
                 PROVE  StepOf(f, h, s) = StepOf(f, g, s)
      OBVIOUS
    <3> HIDE DEF h
    <3>1. s # {} => h[s \ {Taken(s)}] = g[s \ {Taken(s)}]
      BY <2>2, <2>3
    <3>2. QED  BY <3>1 DEF StepOf
  <2>5. h = [s \in Small(k + 1) |-> StepOf(f, h, s)]
    BY <2>4
  <2>6. QED  BY <2>5
<1>4. Bad = {}
  <2> SUFFICES ASSUME Bad # {} PROVE FALSE
    OBVIOUS
  <2>1. PICK m \in Bad : \A k \in Bad : m <= k
    BY LeastExists
  <2> HIDE DEF Solved
  <2>2. m # 0
    BY <1>2
  <2>3. m - 1 \in Nat /\ Solved(m - 1)
    BY <2>1, <2>2
  <2>4. Solved((m - 1) + 1)
    BY <1>3, <2>3
  <2>5. QED  BY <2>1, <2>4
<1>5. QED  BY <1>4


(* So a sum is given by a solution of them on all subsets.                  *)
LEMMA SumFolds ==
    ASSUME NEW S, IsFiniteSet(S), NEW f
    PROVE  \E g : Solves(f, SUBSET S, g) /\ SumFunctionOnSet(f, S) = g[S]
<1>1. \E g : g = [s \in SUBSET S |-> StepOf(f, g, s)]
  <2>1. Cardinality(S) \in Nat /\ \A s \in SUBSET S : Cardinality(s) <= Cardinality(S)
    BY FS_Subset, FS_CardinalityType
  <2>2. SmallIn(S, Cardinality(S)) = SUBSET S
    BY <2>1 DEF SmallIn
  <2>3. \E g : Solves(f, SmallIn(S, Cardinality(S)), g)
    BY <2>1, Partial
  <2>4. QED  BY <2>2, <2>3 DEF Solves
<1>2. SumFunctionOnSet(f, S) = (CHOOSE g : g = [s \in SUBSET S |-> StepOf(f, g, s)])[S]
  BY DEF SumFunctionOnSet, FoldFunctionOnSet, MapThenFoldSet, StepOf, Taken
<1>3. QED  BY <1>1, <1>2 DEF Solves

(* Induction on subsets, the property given as the set that has it.        *)
LEMMA BySmaller ==
    ASSUME NEW S, IsFiniteSet(S), NEW Good,
           \A s \in SUBSET S : (\A x \in s : s \ {x} \in Good) => s \in Good
    PROVE  \A s \in SUBSET S : s \in Good
<1> DEFINE Bad == {n \in Nat : \E s \in SUBSET S : Cardinality(s) = n /\ s \notin Good}
<1> SUFFICES ASSUME NEW s \in SUBSET S, s \notin Good PROVE FALSE
  OBVIOUS
<1>1. \A t \in SUBSET S : /\ Cardinality(t) \in Nat
                          /\ \A x \in t : /\ t \ {x} \in SUBSET S
                                          /\ Cardinality(t \ {x}) = Cardinality(t) - 1
  BY FS_Subset, FS_RemoveElement, FS_CardinalityType
<1>2. Bad # {}
  BY <1>1
<1>3. PICK n \in Bad : \A m \in Bad : n <= m
  BY <1>2, LeastExists
<1>4. PICK t \in SUBSET S : Cardinality(t) = n /\ t \notin Good
  BY <1>3
<1>5. PICK x \in t : t \ {x} \notin Good
  BY <1>4
<1>6. t \ {x} \in SUBSET S /\ n - 1 \in Nat /\ Cardinality(t \ {x}) = n - 1
  <2>1. t \ {x} \in SUBSET S /\ Cardinality(t \ {x}) = Cardinality(t) - 1
    BY <1>1
  <2>2. Cardinality(t \ {x}) \in Nat
    BY <1>1, <2>1
  <2>3. QED  BY <1>4, <2>1, <2>2
<1>7. n - 1 \in Bad
  BY <1>5, <1>6
<1>8. QED  BY <1>3, <1>7

(* The same, when it is enough to look at the term a fold takes.            *)
LEMMA BySubsets ==
    ASSUME NEW S, IsFiniteSet(S), NEW Good, {} \in Good,
           \A s \in SUBSET S : s # {} /\ s \ {Taken(s)} \in Good => s \in Good
    PROVE  \A s \in SUBSET S : s \in Good
<1>1. \A s \in SUBSET S : (\A x \in s : s \ {x} \in Good) => s \in Good
  BY TakenIn
<1>2. QED  BY <1>1, BySmaller

(* A sum is its first term and the sum of the rest.                         *)
LEMMA SumStep ==
    ASSUME NEW S, IsFiniteSet(S), NEW f
    PROVE  SumFunctionOnSet(f, S) =
             IF S = {} THEN 0
             ELSE f[Taken(S)] + SumFunctionOnSet(f, S \ {Taken(S)})
<1>1. PICK g : Solves(f, SUBSET S, g) /\ SumFunctionOnSet(f, S) = g[S]
  BY SumFolds
<1>2. CASE S = {}
  BY <1>1, <1>2 DEF Solves, StepOf
<1>3. CASE S # {}
  <2> DEFINE R == S \ {Taken(S)}
             Good == {s \in SUBSET R : TRUE}
  <2>1. IsFiniteSet(R) /\ R \in SUBSET S
    BY FS_Subset
  <2> HIDE DEF R
  <2>2. PICK k : Solves(f, SUBSET R, k) /\ SumFunctionOnSet(f, R) = k[R]
    BY <2>1, SumFolds
  <2> DEFINE Same == {s \in SUBSET R : g[s] = k[s]}
  <2>3. \A s \in SUBSET R : g[s] = StepOf(f, g, s) /\ k[s] = StepOf(f, k, s)
    BY <1>1, <2>1, <2>2 DEF Solves
  <2>4. {} \in Same
    BY <2>3 DEF StepOf
  <2>5. \A s \in SUBSET R : s # {} /\ s \ {Taken(s)} \in Same => s \in Same
    BY <2>3 DEF StepOf
  <2>6. \A s \in SUBSET R : s \in Same
    <3> HIDE DEF Same
    <3>1. QED  BY <2>1, <2>4, <2>5, BySubsets
  <2>7. g[R] = k[R]
    BY <2>6
  <2>8. g[S] = f[Taken(S)] + g[R]
    BY <1>1, <1>3 DEF Solves, StepOf, R
  <2>9. QED  BY <1>1, <1>3, <2>2, <2>7, <2>8 DEF R
<1>4. QED  BY <1>2, <1>3

(* A sum of integers is one.                                                *)
LEMMA SumInt ==
    ASSUME NEW S, IsFiniteSet(S), NEW f, \A x \in S : f[x] \in Int
    PROVE  SumFunctionOnSet(f, S) \in Int
<1> DEFINE Good == {s \in SUBSET S : SumFunctionOnSet(f, s) \in Int}
<1>1. {} \in Good
  BY SumStep, FS_EmptySet
<1>2. \A s \in SUBSET S : s # {} /\ s \ {Taken(s)} \in Good => s \in Good
  <2> SUFFICES ASSUME NEW s \in SUBSET S, s # {}, s \ {Taken(s)} \in Good
               PROVE  s \in Good
    OBVIOUS
  <2>1. IsFiniteSet(s) /\ Taken(s) \in s
    BY FS_Subset, TakenIn
  <2>2. SumFunctionOnSet(f, s) = f[Taken(s)] + SumFunctionOnSet(f, s \ {Taken(s)})
    BY <2>1, SumStep
  <2>3. QED  BY <2>1, <2>2
<1>3. \A s \in SUBSET S : s \in Good
  <2> HIDE DEF Good
  <2>1. QED  BY <1>1, <1>2, BySubsets
<1>4. QED  BY <1>3

(* Any term may be taken first.                                             *)
LEMMA SumRemove ==
    ASSUME NEW S, IsFiniteSet(S), NEW f, \A x \in S : f[x] \in Int, NEW x \in S
    PROVE  SumFunctionOnSet(f, S) = f[x] + SumFunctionOnSet(f, S \ {x})
<1> DEFINE Sum(s) == SumFunctionOnSet(f, s)
           Good == {s \in SUBSET S : \A y \in s : Sum(s) = f[y] + Sum(s \ {y})}
<1>1. \A s \in SUBSET S : /\ IsFiniteSet(s) /\ Sum(s) \in Int
                          /\ s # {} => /\ Taken(s) \in s
                                       /\ Sum(s) = f[Taken(s)] + Sum(s \ {Taken(s)})
  BY FS_Subset, SumInt, SumStep, TakenIn
<1> HIDE DEF Sum
<1>2. \A s \in SUBSET S : (\A y \in s : s \ {y} \in Good) => s \in Good
  <2> SUFFICES ASSUME NEW s \in SUBSET S, \A y \in s : s \ {y} \in Good, NEW y \in s
               PROVE  Sum(s) = f[y] + Sum(s \ {y})
    OBVIOUS
  <2>1. PICK t \in s : t = Taken(s)
    BY <1>1
  <2>2. CASE y = t
    BY <1>1, <2>1, <2>2
  <2>3. CASE y # t
    <3>1. Sum(s) = f[t] + Sum(s \ {t})
      BY <1>1, <2>1
    <3>2. Sum(s \ {t}) = f[y] + Sum((s \ {t}) \ {y})
      BY <2>1, <2>3
    <3>3. Sum(s \ {y}) = f[t] + Sum((s \ {y}) \ {t})
      BY <2>1, <2>3
    <3>4. (s \ {t}) \ {y} = (s \ {y}) \ {t} /\ (s \ {y}) \ {t} \in SUBSET S
      OBVIOUS
    <3>5. f[t] \in Int /\ f[y] \in Int /\ Sum((s \ {y}) \ {t}) \in Int
      BY <1>1, <3>4
    <3>6. QED  BY <3>1, <3>2, <3>3, <3>4, <3>5
  <2>4. QED  BY <2>2, <2>3
<1>3. \A s \in SUBSET S : s \in Good
  <2> HIDE DEF Good
  <2>1. QED  BY <1>2, BySmaller
<1>4. QED  BY <1>3 DEF Sum

(* A sum is of the values of its terms.                                     *)
LEMMA SumSame ==
    ASSUME NEW S, IsFiniteSet(S), NEW f, NEW h, \A x \in S : f[x] = h[x]
    PROVE  SumFunctionOnSet(f, S) = SumFunctionOnSet(h, S)
<1> DEFINE Good == {s \in SUBSET S : SumFunctionOnSet(f, s) = SumFunctionOnSet(h, s)}
<1>1. {} \in Good
  BY SumStep, FS_EmptySet
<1>2. \A s \in SUBSET S : s # {} /\ s \ {Taken(s)} \in Good => s \in Good
  <2> SUFFICES ASSUME NEW s \in SUBSET S, s # {}, s \ {Taken(s)} \in Good
               PROVE  s \in Good
    OBVIOUS
  <2>1. IsFiniteSet(s) /\ Taken(s) \in s
    BY FS_Subset, TakenIn
  <2>2. /\ SumFunctionOnSet(f, s) = f[Taken(s)] + SumFunctionOnSet(f, s \ {Taken(s)})
        /\ SumFunctionOnSet(h, s) = h[Taken(s)] + SumFunctionOnSet(h, s \ {Taken(s)})
    BY <2>1, SumStep
  <2>3. QED  BY <2>1, <2>2
<1>3. \A s \in SUBSET S : s \in Good
  <2> HIDE DEF Good
  <2>1. QED  BY <1>1, <1>2, BySubsets
<1>4. QED  BY <1>3

(* Nothing adds up to nothing.                                              *)
LEMMA SumZero ==
    ASSUME NEW S, IsFiniteSet(S), NEW f, \A x \in S : f[x] = 0
    PROVE  SumFunctionOnSet(f, S) = 0
<1> DEFINE Good == {s \in SUBSET S : SumFunctionOnSet(f, s) = 0}
<1>1. {} \in Good
  BY SumStep, FS_EmptySet
<1>2. \A s \in SUBSET S : s # {} /\ s \ {Taken(s)} \in Good => s \in Good
  <2> SUFFICES ASSUME NEW s \in SUBSET S, s # {}, s \ {Taken(s)} \in Good
               PROVE  s \in Good
    OBVIOUS
  <2>1. IsFiniteSet(s) /\ Taken(s) \in s
    BY FS_Subset, TakenIn
  <2>2. SumFunctionOnSet(f, s) = f[Taken(s)] + SumFunctionOnSet(f, s \ {Taken(s)})
    BY <2>1, SumStep
  <2>3. QED  BY <2>1, <2>2
<1>3. \A s \in SUBSET S : s \in Good
  <2> HIDE DEF Good
  <2>1. QED  BY <1>1, <1>2, BySubsets
<1>4. QED  BY <1>3

(* A sum of amounts is an amount.                                           *)
LEMMA SumNat ==
    ASSUME NEW S, IsFiniteSet(S), NEW f, \A x \in S : f[x] \in Nat
    PROVE  SumFunctionOnSet(f, S) \in Nat
<1> DEFINE Good == {s \in SUBSET S : SumFunctionOnSet(f, s) \in Nat}
<1>1. {} \in Good
  BY SumStep, FS_EmptySet
<1>2. \A s \in SUBSET S : s # {} /\ s \ {Taken(s)} \in Good => s \in Good
  <2> SUFFICES ASSUME NEW s \in SUBSET S, s # {}, s \ {Taken(s)} \in Good
               PROVE  s \in Good
    OBVIOUS
  <2>1. IsFiniteSet(s) /\ Taken(s) \in s
    BY FS_Subset, TakenIn
  <2>2. SumFunctionOnSet(f, s) = f[Taken(s)] + SumFunctionOnSet(f, s \ {Taken(s)})
    BY <2>1, SumStep
  <2>3. QED  BY <2>1, <2>2
<1>3. \A s \in SUBSET S : s \in Good
  <2> HIDE DEF Good
  <2>1. QED  BY <1>1, <1>2, BySubsets
<1>4. QED  BY <1>3

(* No term is more than the sum.                                            *)
LEMMA SumBounds ==
    ASSUME NEW S, IsFiniteSet(S), NEW f, \A y \in S : f[y] \in Nat, NEW x \in S
    PROVE  f[x] <= SumFunctionOnSet(f, S)
<1>1. SumFunctionOnSet(f, S) = f[x] + SumFunctionOnSet(f, S \ {x})
  BY SumRemove
<1>2. SumFunctionOnSet(f, S \ {x}) \in Nat /\ f[x] \in Nat
  BY SumNat, FS_Subset
<1>3. QED  BY <1>1, <1>2

(* What changes in one term changes in the sum.                             *)
LEMMA SumUpdate ==
    ASSUME NEW S, IsFiniteSet(S), NEW f \in [S -> Int], NEW h \in [S -> Int],
           NEW x \in S, \A y \in S : y # x => h[y] = f[y]
    PROVE  SumFunctionOnSet(h, S) = SumFunctionOnSet(f, S) - f[x] + h[x]
<1>1. /\ SumFunctionOnSet(f, S) = f[x] + SumFunctionOnSet(f, S \ {x})
      /\ SumFunctionOnSet(h, S) = h[x] + SumFunctionOnSet(h, S \ {x})
  BY SumRemove
<1>2. IsFiniteSet(S \ {x})
  BY FS_Subset
<1>3. SumFunctionOnSet(h, S \ {x}) = SumFunctionOnSet(f, S \ {x})
  BY <1>2, SumSame
<1>4. SumFunctionOnSet(f, S \ {x}) \in Int
  BY <1>2, SumInt
<1>5. QED  BY <1>1, <1>3, <1>4

(* Two sets with no term in common add up.                                  *)
LEMMA SumDisjoint ==
    ASSUME NEW S, IsFiniteSet(S), NEW T, IsFiniteSet(T), S \cap T = {},
           NEW f, \A x \in S \cup T : f[x] \in Int
    PROVE  SumFunctionOnSet(f, S \cup T) = SumFunctionOnSet(f, S) + SumFunctionOnSet(f, T)
<1> DEFINE Sum(s) == SumFunctionOnSet(f, s)
           Good == {s \in SUBSET T : Sum(S \cup s) = Sum(S) + Sum(s)}
<1>1. {} \in Good
  <2>1. Sum({}) = 0
    BY SumStep, FS_EmptySet
  <2>2. S \cup {} = S /\ Sum(S) \in Int
    BY SumInt
  <2>3. QED  BY <2>1, <2>2
<1>2. \A s \in SUBSET T : s # {} /\ s \ {Taken(s)} \in Good => s \in Good
  <2> SUFFICES ASSUME NEW s \in SUBSET T, s # {}, s \ {Taken(s)} \in Good
               PROVE  s \in Good
    OBVIOUS
  <2>1. PICK t \in s : t = Taken(s)
    BY TakenIn
  <2> DEFINE r == s \ {t}
  <2>2. /\ IsFiniteSet(s) /\ IsFiniteSet(S \cup s) /\ IsFiniteSet(r)
        /\ t \in S \cup s /\ (S \cup s) \ {t} = S \cup r
    BY <2>1, FS_Subset, FS_Union
  <2>3. Sum(s) = f[t] + Sum(r)
    BY <2>1, <2>2, SumRemove
  <2>4. Sum(S \cup s) = f[t] + Sum(S \cup r)
    <3>1. Sum(S \cup s) = f[t] + Sum((S \cup s) \ {t})
      BY <2>2, SumRemove
    <3>2. QED  BY <3>1, <2>2
  <2>5. Sum(S \cup r) = Sum(S) + Sum(r)
    BY <2>1
  <2>6. Sum(S) \in Int /\ Sum(r) \in Int /\ f[t] \in Int
    BY <2>1, <2>2, SumInt
  <2> HIDE DEF Sum, r
  <2>7. QED  BY <2>3, <2>4, <2>5, <2>6
<1>3. \A s \in SUBSET T : s \in Good
  <2> HIDE DEF Good
  <2>1. QED  BY <1>1, <1>2, BySubsets
<1>4. QED  BY <1>3

(* A part is no more than the whole.                                        *)
LEMMA SumPart ==
    ASSUME NEW S, IsFiniteSet(S), NEW T \in SUBSET S, NEW f, \A x \in S : f[x] \in Nat
    PROVE  SumFunctionOnSet(f, T) <= SumFunctionOnSet(f, S)
<1>1. PICK R \in SUBSET S : T \cup R = S /\ T \cap R = {}
  <2>1. T \cup (S \ T) = S /\ T \cap (S \ T) = {}
    OBVIOUS
  <2>2. QED  BY <2>1
<1>2. IsFiniteSet(T) /\ IsFiniteSet(R)
  BY FS_Subset
<1>3. SumFunctionOnSet(f, T \cup R) = SumFunctionOnSet(f, T) + SumFunctionOnSet(f, R)
  BY <1>1, <1>2, SumDisjoint
<1>4. SumFunctionOnSet(f, T) \in Nat /\ SumFunctionOnSet(f, R) \in Nat
  BY <1>2, SumNat
<1>5. SumFunctionOnSet(f, S) = SumFunctionOnSet(f, T) + SumFunctionOnSet(f, R)
  BY <1>1, <1>3
<1>6. QED  BY <1>4, <1>5

(* Sums by group.                                                          *)
GroupSums(f, kind, S, A) ==
    [a \in A |-> SumFunctionOnSet(f, {x \in S : kind[x] = a})]

(* They add up to the whole.                                                *)
LEMMA SumGroups ==
    ASSUME NEW S, IsFiniteSet(S), NEW A, IsFiniteSet(A), NEW kind, NEW f,
           \A x \in S : f[x] \in Int /\ kind[x] \in A
    PROVE  SumFunctionOnSet(f, S) = SumFunctionOnSet(GroupSums(f, kind, S, A), A)
<1> DEFINE h == GroupSums(f, kind, S, A)
<1> USE DEF GroupSums
<1> DEFINE Of(s) == {x \in S : kind[x] \in s}
           Good == {s \in SUBSET A : SumFunctionOnSet(f, Of(s)) = SumFunctionOnSet(h, s)}
<1>0. \A T \in SUBSET S : IsFiniteSet(T) /\ SumFunctionOnSet(f, T) \in Int
  BY FS_Subset, SumInt
<1>1. {} \in Good
  <2>1. Of({}) = {}
    OBVIOUS
  <2>2. QED  BY <2>1, SumStep, FS_EmptySet
<1>2. \A s \in SUBSET A : s # {} /\ s \ {Taken(s)} \in Good => s \in Good
  <2> SUFFICES ASSUME NEW s \in SUBSET A, s # {}, s \ {Taken(s)} \in Good
               PROVE  s \in Good
    OBVIOUS
  <2>1. PICK t \in s : t = Taken(s)
    BY TakenIn
  <2> DEFINE r == s \ {t}
             one == {x \in S : kind[x] = t}
  <2>2. Of(s) = Of(r) \cup one /\ Of(r) \cap one = {}
    BY <2>1
  <2>3. SumFunctionOnSet(f, Of(s)) = SumFunctionOnSet(f, Of(r)) + SumFunctionOnSet(f, one)
    <3>1. IsFiniteSet(Of(r)) /\ IsFiniteSet(one)
      BY <1>0
    <3>2. \A x \in Of(r) \cup one : f[x] \in Int
      OBVIOUS
    <3>3. QED
      <4> HIDE DEF Of, r, one
      <4>1. QED  BY <2>2, <3>1, <3>2, SumDisjoint
  <2>4. SumFunctionOnSet(h, s) = h[t] + SumFunctionOnSet(h, r)
    <3>1. IsFiniteSet(s)
      BY FS_Subset
    <3>2. QED  BY <2>1, <3>1, SumStep
  <2>5. SumFunctionOnSet(f, Of(r)) = SumFunctionOnSet(h, r)
    BY <2>1
  <2>6. h[t] = SumFunctionOnSet(f, one)
    BY <2>1
  <2>7. SumFunctionOnSet(f, Of(r)) \in Int /\ SumFunctionOnSet(f, one) \in Int
    BY <1>0
  <2>8. SumFunctionOnSet(f, Of(s)) = SumFunctionOnSet(h, s)
    <3> HIDE DEF Of, r, one
    <3>1. QED  BY <2>3, <2>4, <2>5, <2>6, <2>7
  <2>9. QED  BY <2>8
<1>3. \A s \in SUBSET A : s \in Good
  <2> HIDE DEF Good
  <2>1. QED  BY <1>1, <1>2, BySubsets
<1>4. SumFunctionOnSet(f, Of(A)) = SumFunctionOnSet(h, A)
  BY <1>3
<1>5. Of(A) = S
  OBVIOUS
<1>6. QED  BY <1>4, <1>5

(* The names of a set.                                                     *)
Named(name, S) == {name[x] : x \in S}

(* A sum under other names.                                                 *)
LEMMA SumRenamed ==
    ASSUME NEW S, IsFiniteSet(S), NEW name, NEW f, NEW h,
           \A x, y \in S : name[x] = name[y] => x = y,
           \A x \in S : h[x] = f[name[x]] /\ h[x] \in Int
    PROVE  SumFunctionOnSet(h, S) = SumFunctionOnSet(f, Named(name, S))
<1> USE DEF Named
<1> DEFINE Of(s) == {name[x] : x \in s}
           Good == {s \in SUBSET S : SumFunctionOnSet(h, s) = SumFunctionOnSet(f, Of(s))}
<1>1. {} \in Good
  <2>1. Of({}) = {}
    OBVIOUS
  <2>2. QED  BY <2>1, SumStep, FS_EmptySet
<1>2. \A s \in SUBSET S : s # {} /\ s \ {Taken(s)} \in Good => s \in Good
  <2> SUFFICES ASSUME NEW s \in SUBSET S, s # {}, s \ {Taken(s)} \in Good
               PROVE  s \in Good
    OBVIOUS
  <2>1. PICK t \in s : t = Taken(s)
    BY TakenIn
  <2> DEFINE r == s \ {t}
  <2>2. name[t] \in Of(s) /\ Of(s) \ {name[t]} = Of(r)
    BY <2>1
  <2>3. \A n \in Of(s) : f[n] \in Int
    OBVIOUS
  <2>4. IsFiniteSet(s) /\ IsFiniteSet(Of(s))
    <3>1. IsFiniteSet(s)
      BY FS_Subset
    <3>2. [x \in s |-> name[x]] \in Surjection(s, Of(s))
      BY DEF Surjection
    <3>3. QED  BY <3>1, <3>2, FS_Surjection
  <2>5. SumFunctionOnSet(h, s) = h[t] + SumFunctionOnSet(h, r)
    BY <2>1, <2>4, SumStep
  <2>6. SumFunctionOnSet(f, Of(s)) = f[name[t]] + SumFunctionOnSet(f, Of(r))
    <3> HIDE DEF Of, r
    <3>1. QED  BY <2>2, <2>3, <2>4, SumRemove
  <2>7. SumFunctionOnSet(h, r) = SumFunctionOnSet(f, Of(r))
    BY <2>1
  <2>8. h[t] = f[name[t]]
    BY <2>1
  <2>9. SumFunctionOnSet(h, s) = SumFunctionOnSet(f, Of(s))
    <3> HIDE DEF Of, r
    <3>1. QED  BY <2>5, <2>6, <2>7, <2>8
  <2>10. QED  BY <2>9
<1>3. \A s \in SUBSET S : s \in Good
  <2> HIDE DEF Good
  <2>1. QED  BY <1>1, <1>2, BySubsets
<1>4. QED  BY <1>3

-----------------------------------------------------------------------------
(* The KRC-20 engine.                                                       *)

(* An id has taken effect if and only if it is remembered.                 *)
SeenMeansApplied ==
    \A txid \in TxIds : v3[txid] = (IF txid \in v2 THEN 1 ELSE 0)

(* A token whose holders have what was minted, within its cap.             *)
Balanced(token) ==
    /\ token \in Krc!TokenState
    /\ SumFunctionOnSet(token.balances, Holders) = token.minted_supply
    /\ token.minted_supply <= token.max_supply

(* The ids remembered are those applied, and every token is balanced.      *)
KrcInv ==
    /\ Krc!TypeOK /\ SeenMeansApplied
    /\ \A ticker \in Krc!Tickers : v1[ticker] # Null => Balanced(v1[ticker])

(* What is assumed of the constants of the KRC-20 engine.                  *)
LEMMA KrcConstants ==
    MaxAmount \in Nat /\ IsFiniteSet(Holders) /\ Null \notin Krc!TokenState
BY ComponentsAssumption
   DEF Krc!AmountAssumption, Krc!AddressAssumption, Krc!IsFiniteSet, IsFiniteSet

(* The total of the model is the sum over all holders.                     *)
LEMMA KrcTotal ==
    ASSUME NEW balances \in [Holders -> Int]
    PROVE  Krc!Total(balances) = SumFunctionOnSet(balances, Holders)
BY DEF Krc!Total, Krc!SumFunction, Krc!SumFunctionOnSet, Krc!FoldFunctionOnSet,
       Krc!MapThenFoldSet, SumFunctionOnSet, FoldFunctionOnSet, MapThenFoldSet

(* The engine starts with nothing remembered.                              *)
LEMMA KrcInit == Krc!Init => KrcInv
BY KrcConstants DEF Krc!Init, KrcInv, SeenMeansApplied, Krc!TypeOK

(* An operation is accepted with an id that is remembered from then on.    *)
LEMMA AcceptOnce ==
    ASSUME KrcInv, NEW txid \in TxIds, NEW op, Krc!Accept(txid, op)
    PROVE  v2' \subseteq TxIds /\ v3' \in [TxIds -> Nat] /\ SeenMeansApplied'
BY DEF KrcInv, Krc!TypeOK, Krc!Accept, SeenMeansApplied

(* Nobody holds more than there is, which fits the type of amounts.        *)
LEMMA BalancesFit ==
    ASSUME NEW balances \in [Holders -> Nat], NEW limit \in Krc!Amounts,
           SumFunctionOnSet(balances, Holders) <= limit
    PROVE  balances \in [Holders -> Krc!Amounts]
<1>1. ASSUME NEW a \in Holders PROVE balances[a] \in Krc!Amounts
  <2>1. balances[a] <= SumFunctionOnSet(balances, Holders)
    BY KrcConstants, SumBounds
  <2>2. SumFunctionOnSet(balances, Holders) \in Nat
    BY KrcConstants, SumNat
  <2>3. QED  BY <2>1, <2>2, KrcConstants DEF Krc!Amounts
<1>2. QED  BY <1>1

(* A new token has no holders.                                             *)
LEMMA DeployBalanced ==
    ASSUME NEW max \in Krc!Amounts, NEW lim \in Krc!Amounts
    PROVE  Balanced([max_supply |-> max, minted_supply |-> 0, limit_per_mint |-> lim,
                     balances |-> [a \in Holders |-> 0]])
<1> DEFINE none == [a \in Holders |-> 0]
<1>1. SumFunctionOnSet(none, Holders) = 0
  BY KrcConstants, SumZero
<1>2. none \in [Holders -> Krc!Amounts] /\ 0 \in Krc!Amounts /\ 0 <= max
  BY KrcConstants DEF Krc!Amounts
<1> HIDE DEF none
<1>3. [max_supply |-> max, minted_supply |-> 0, limit_per_mint |-> lim,
       balances |-> none] \in Krc!TokenState
  BY <1>2 DEF Krc!TokenState
<1>4. QED  BY <1>1, <1>2, <1>3 DEF Balanced, none

(* What a mint adds to the supply it gives to one holder.                  *)
LEMMA MintBalanced ==
    ASSUME NEW token, Balanced(token), NEW sender \in Holders, NEW amount,
           Krc!Mintable(token, amount)
    PROVE  Balanced(Krc!Minted(token, sender, amount))
<1>1. /\ token.max_supply \in Krc!Amounts /\ token.minted_supply \in Krc!Amounts
      /\ token.limit_per_mint \in Krc!Amounts
      /\ token.balances \in [Holders -> Krc!Amounts]
      /\ SumFunctionOnSet(token.balances, Holders) = token.minted_supply
  BY DEF Balanced, Krc!TokenState
<1>2. /\ amount \in Nat
      /\ token.minted_supply + amount \in Krc!Amounts
      /\ token.minted_supply + amount <= token.max_supply
  BY <1>1, KrcConstants DEF Krc!Mintable, Krc!Amounts
<1>3. PICK old, new : /\ old = token.balances
                      /\ new = [token.balances EXCEPT ![sender] = @ + amount]
  OBVIOUS
<1>4. old \in [Holders -> Nat] /\ new \in [Holders -> Nat]
  BY <1>1, <1>2, <1>3 DEF Krc!Amounts
<1>5. SumFunctionOnSet(new, Holders) = SumFunctionOnSet(old, Holders) - old[sender] + new[sender]
  <2>1. old \in [Holders -> Int] /\ new \in [Holders -> Int]
    BY <1>4
  <2>2. \A a \in Holders : a # sender => new[a] = old[a]
    BY <1>3, <1>4
  <2>3. QED  BY <2>1, <2>2, KrcConstants, SumUpdate
<1>6. new[sender] = old[sender] + amount /\ old[sender] \in Nat
  BY <1>1, <1>3, <1>4
<1>7. SumFunctionOnSet(new, Holders) = token.minted_supply + amount
  <2>1. token.minted_supply \in Nat
    BY <1>1 DEF Krc!Amounts
  <2>2. QED  BY <1>1, <1>2, <1>3, <1>5, <1>6, <2>1
<1>8. new \in [Holders -> Krc!Amounts]
  <2>1. token.minted_supply + amount <= token.minted_supply + amount
    BY <1>1, <1>2 DEF Krc!Amounts
  <2>2. QED  BY <1>2, <1>4, <1>7, <2>1, BalancesFit
<1>9. Krc!Minted(token, sender, amount) =
         [max_supply |-> token.max_supply, minted_supply |-> token.minted_supply + amount,
          limit_per_mint |-> token.limit_per_mint, balances |-> new]
  BY <1>3 DEF Krc!Minted
<1>10. QED  BY <1>1, <1>2, <1>7, <1>8, <1>9 DEF Balanced, Krc!TokenState

(* What one holder gives the other gets, who may be the same.              *)
LEMMA TransferBalanced ==
    ASSUME NEW token, Balanced(token), NEW sender \in Holders, NEW to \in Holders,
           NEW amount \in Krc!Amounts, Krc!Covered(token, sender, amount)
    PROVE  Balanced([token EXCEPT !.balances = Krc!Moved(@, sender, to, amount)])
<1>1. /\ token \in Krc!TokenState
      /\ token.minted_supply \in Krc!Amounts
      /\ token.balances \in [Holders -> Krc!Amounts]
      /\ SumFunctionOnSet(token.balances, Holders) = token.minted_supply
      /\ token.minted_supply <= token.max_supply
  BY DEF Balanced, Krc!TokenState
<1>2. PICK old, given, new :
        /\ old = token.balances
        /\ given = [old EXCEPT ![sender] = @ - amount]
        /\ new = [given EXCEPT ![to] = @ + amount]
  OBVIOUS
<1>3. amount \in Nat /\ old[sender] >= amount /\ old \in [Holders -> Nat]
  BY <1>1, <1>2 DEF Krc!Amounts, Krc!Covered
<1>4. given \in [Holders -> Nat] /\ new \in [Holders -> Nat]
  <2>1. old[sender] - amount \in Nat
    BY <1>3
  <2>2. given \in [Holders -> Nat]
    BY <1>2, <1>3, <2>1
  <2>3. given[to] + amount \in Nat
    BY <1>3, <2>2
  <2>4. QED  BY <1>2, <2>2, <2>3
<1>5. SumFunctionOnSet(given, Holders) = SumFunctionOnSet(old, Holders) - amount
  <2>1. old \in [Holders -> Int] /\ given \in [Holders -> Int]
    BY <1>3, <1>4
  <2>2. \A a \in Holders : a # sender => given[a] = old[a]
    BY <1>2, <1>3
  <2>3. SumFunctionOnSet(given, Holders)
          = SumFunctionOnSet(old, Holders) - old[sender] + given[sender]
    BY <2>1, <2>2, KrcConstants, SumUpdate
  <2>4. given[sender] = old[sender] - amount /\ old[sender] \in Int
    BY <1>2, <1>3
  <2>5. SumFunctionOnSet(old, Holders) \in Int
    BY <1>3, KrcConstants, SumNat
  <2>6. QED  BY <1>3, <2>3, <2>4, <2>5
<1>6. SumFunctionOnSet(new, Holders) = SumFunctionOnSet(given, Holders) + amount
  <2>1. given \in [Holders -> Int] /\ new \in [Holders -> Int]
    BY <1>4
  <2>2. \A a \in Holders : a # to => new[a] = given[a]
    BY <1>2, <1>4
  <2>3. SumFunctionOnSet(new, Holders)
          = SumFunctionOnSet(given, Holders) - given[to] + new[to]
    BY <2>1, <2>2, KrcConstants, SumUpdate
  <2>4. new[to] = given[to] + amount /\ given[to] \in Int
    BY <1>2, <1>4
  <2>5. SumFunctionOnSet(given, Holders) \in Int
    BY <1>4, KrcConstants, SumNat
  <2>6. QED  BY <1>3, <2>3, <2>4, <2>5
<1>7. SumFunctionOnSet(new, Holders) = token.minted_supply
  <2>1. token.minted_supply \in Int
    BY <1>1 DEF Krc!Amounts
  <2>2. QED  BY <1>1, <1>2, <1>3, <1>5, <1>6, <2>1
<1>8. new \in [Holders -> Krc!Amounts]
  <2>1. token.minted_supply <= token.minted_supply
    BY <1>1 DEF Krc!Amounts
  <2>2. QED  BY <1>1, <1>4, <1>7, <2>1, BalancesFit
<1>9. [token EXCEPT !.balances = Krc!Moved(@, sender, to, amount)]
        = [token EXCEPT !.balances = new]
  <2>1. Krc!Moved(token.balances, sender, to, amount) = new
    BY <1>2 DEF Krc!Moved
  <2>2. QED  BY <2>1, <1>1 DEF Krc!TokenState
<1>10. Balanced([token EXCEPT !.balances = new])
  BY <1>1, <1>7, <1>8 DEF Balanced, Krc!TokenState
<1>11. QED  BY <1>9, <1>10

(* A payload that is accepted leaves every deployed ticker's terms alone.  *)
LEMMA KrcStep == KrcInv /\ Krc!Next => KrcInv' /\ Krc!DeploymentKept
<1> SUFFICES ASSUME KrcInv, Krc!Next PROVE KrcInv' /\ Krc!DeploymentKept
  OBVIOUS
<1>1. PICK txid \in TxIds, tick \in Spellings :
        \/ \E max, lim \in Krc!Amounts : Krc!Deploy(txid, tick, max, lim)
        \/ \E sender \in Holders, amt \in Krc!Amounts \cup {Null} :
              Krc!Mint(txid, sender, tick, amt)
        \/ \E sender, to \in Holders, amount \in Krc!Amounts :
              Krc!Transfer(txid, sender, tick, amount, to)
  BY DEF Krc!Next
<1>2. PICK ticker \in Krc!Tickers : ticker = Ticker[tick]
  BY DEF Krc!Tickers
<1>3. /\ v1 \in [Krc!Tickers -> Krc!TokenState \cup {Null}]
      /\ \A t \in Krc!Tickers : v1[t] # Null =>
            /\ Balanced(v1[t]) /\ v1[t].minted_supply \in Nat
            /\ v1[t] \in Krc!TokenState
  BY DEF KrcInv, Krc!TypeOK, Balanced, Krc!TokenState, Krc!Amounts
<1>4. ASSUME NEW token, Balanced(token),
             v1' = [v1 EXCEPT ![ticker] = token],
             v1[ticker] # Null =>
                /\ token.max_supply = v1[ticker].max_supply
                /\ token.limit_per_mint = v1[ticker].limit_per_mint
                /\ token.minted_supply >= v1[ticker].minted_supply,
             NEW op, Krc!Accept(txid, op)
      PROVE  KrcInv' /\ Krc!DeploymentKept
  <2>1. token \in Krc!TokenState /\ token # Null
    BY <1>4, KrcConstants DEF Balanced
  <2>2. v1' \in [Krc!Tickers -> Krc!TokenState \cup {Null}]
    BY <1>3, <1>4, <2>1
  <2>3. \A t \in Krc!Tickers : v1'[t] = IF t = ticker THEN token ELSE v1[t]
    BY <1>3, <1>4
  <2>4. \A t \in Krc!Tickers : v1'[t] # Null => Balanced(v1'[t])
    BY <1>3, <1>4, <2>3
  <2>5. KrcInv'
    <3>1. Krc!TypeOK'
      BY <1>4, <2>2, AcceptOnce DEF Krc!TypeOK, Krc!Tickers, Krc!TokenState
    <3>2. \A t \in Krc!Tickers : v1'[t] # Null => Balanced(v1[t])'
      BY <2>4 DEF Balanced, Krc!TokenState
    <3>3. QED  BY <1>4, <3>1, <3>2, AcceptOnce DEF KrcInv, Krc!Tickers
  <2>6. \A t \in Krc!Tickers : v1[t] # Null =>
            /\ v1'[t] # Null
            /\ v1'[t].max_supply = v1[t].max_supply
            /\ v1'[t].limit_per_mint = v1[t].limit_per_mint
            /\ v1'[t].minted_supply >= v1[t].minted_supply
    <3> TAKE t \in Krc!Tickers
    <3>1. CASE t = ticker
      BY <1>4, <2>1, <2>3, <3>1
    <3>2. CASE t # ticker
      BY <1>3, <2>3, <3>2
    <3>3. QED  BY <3>1, <3>2
  <2>7. QED  BY <2>5, <2>6 DEF Krc!DeploymentKept
<1>5. ASSUME NEW max \in Krc!Amounts, NEW lim \in Krc!Amounts,
             Krc!Deploy(txid, tick, max, lim)
      PROVE  KrcInv' /\ Krc!DeploymentKept
  <2>1. PICK token : token = [max_supply |-> max, minted_supply |-> 0,
                              limit_per_mint |-> lim,
                              balances |-> [a \in Holders |-> 0]]
    OBVIOUS
  <2>2. Balanced(token)
    BY <2>1, DeployBalanced
  <2>3. v1[ticker] = Null /\ v1' = [v1 EXCEPT ![ticker] = token] /\ Krc!Accept(txid, "deploy")
    BY <1>2, <1>5, <2>1 DEF Krc!Deploy
  <2>4. QED  BY <1>4, <2>2, <2>3
<1>6. ASSUME NEW sender \in Holders, NEW amt \in Krc!Amounts \cup {Null},
             Krc!Mint(txid, sender, tick, amt)
      PROVE  KrcInv' /\ Krc!DeploymentKept
  <2>1. PICK old, amount, new :
           /\ old = v1[ticker]
           /\ amount = IF amt = Null THEN old.limit_per_mint ELSE amt
           /\ new = Krc!Minted(old, sender, amount)
    OBVIOUS
  <2>2. /\ old # Null /\ Krc!Mintable(old, amount)
        /\ v1' = [v1 EXCEPT ![ticker] = new]
        /\ Krc!Accept(txid, "mint")
    BY <1>2, <1>6, <2>1 DEF Krc!Mint
  <2>3. /\ Balanced(old) /\ old.minted_supply \in Nat
        /\ old.limit_per_mint \in Nat
    BY <1>3, <2>1, <2>2 DEF Krc!TokenState, Krc!Amounts
  <2>4. amount \in Nat
    BY <2>2, <2>3 DEF Krc!Mintable
  <2>5. /\ new.max_supply = old.max_supply
        /\ new.limit_per_mint = old.limit_per_mint
        /\ new.minted_supply >= old.minted_supply
    BY <2>1, <2>3, <2>4 DEF Krc!Minted
  <2>6. Balanced(new)
    BY <2>1, <2>2, <2>3, MintBalanced
  <2>7. QED  BY <1>4, <2>1, <2>2, <2>5, <2>6
<1>7. ASSUME NEW sender \in Holders, NEW to \in Holders, NEW amount \in Krc!Amounts,
             Krc!Transfer(txid, sender, tick, amount, to)
      PROVE  KrcInv' /\ Krc!DeploymentKept
  <2>1. PICK old, new :
           /\ old = v1[ticker]
           /\ new = [old EXCEPT !.balances = Krc!Moved(@, sender, to, amount)]
    OBVIOUS
  <2>2. /\ old # Null /\ Krc!Covered(old, sender, amount)
        /\ v1' = [v1 EXCEPT ![ticker] = new]
        /\ Krc!Accept(txid, "transfer")
    BY <1>2, <1>7, <2>1 DEF Krc!Transfer
  <2>3. Balanced(old) /\ old.minted_supply \in Nat /\ old \in Krc!TokenState
    BY <1>3, <2>1, <2>2
  <2>4. /\ new.max_supply = old.max_supply
        /\ new.limit_per_mint = old.limit_per_mint
        /\ new.minted_supply >= old.minted_supply
    BY <2>1, <2>3 DEF Krc!TokenState
  <2>5. Balanced(new)
    BY <2>1, <2>2, <2>3, TransferBalanced
  <2>6. QED  BY <1>4, <2>1, <2>2, <2>4, <2>5
<1>8. QED  BY <1>1, <1>5, <1>6, <1>7

(* The engine's properties are in its invariant.                           *)
LEMMA KrcSound == KrcInv => Krc!TypeOK /\ Krc!Conservation /\ Krc!AppliedOnce
<1> SUFFICES ASSUME KrcInv PROVE Krc!TypeOK /\ Krc!Conservation /\ Krc!AppliedOnce
  OBVIOUS
<1>1. Krc!AppliedOnce
  BY DEF KrcInv, SeenMeansApplied, Krc!AppliedOnce
<1>2. Krc!Conservation
  <2>1. ASSUME NEW t \in Krc!Tickers, v1[t] # Null
        PROVE  /\ Krc!Total(v1[t].balances) = v1[t].minted_supply
               /\ v1[t].minted_supply <= v1[t].max_supply
    <3>1. Balanced(v1[t])
      BY <2>1 DEF KrcInv
    <3>2. v1[t].balances \in [Holders -> Int]
      BY <3>1 DEF Balanced, Krc!TokenState, Krc!Amounts
    <3>3. QED  BY <3>1, <3>2, KrcTotal DEF Balanced
  <2>2. QED  BY <2>1 DEF Krc!Conservation
<1>3. QED  BY <1>1, <1>2 DEF KrcInv

(* The other components leave the engine alone.                            *)
LEMMA KrcStutter == KrcInv /\ UNCHANGED all => KrcInv'
<1> SUFFICES ASSUME KrcInv, UNCHANGED all PROVE KrcInv'
  OBVIOUS
<1>1. v1' = v1 /\ v2' = v2 /\ v3' = v3
  BY DEF all, None
<1>2. QED
  BY <1>1 DEF KrcInv, Krc!TypeOK, SeenMeansApplied, Krc!Tickers, Krc!TokenState, Balanced

-----------------------------------------------------------------------------
(* The balances and the spend guard of an exchange.                         *)

(* Inductive as it stands; what the balances promise follows from the types.*)
CexInv == Cex!TypeOK /\ Cex!InputsExclusive

(* What is assumed of the constants of the exchange.                       *)
LEMMA CexConstants ==
    /\ IsFiniteSet(Addresses) /\ Amount \in [Outpoints -> Nat] /\ Scores \subseteq Nat
    /\ MaxRows \in Nat /\ DepositConfirmations \in Nat /\ CoinbaseMaturity \in Nat
BY ComponentsAssumption DEF Cex!CexAssumption, Cex!IsFiniteSet, IsFiniteSet

-----------------------------------------------------------------------------
(* The amounts of the rows, by their places.                               *)
RowAmounts == [i \in DOMAIN v2 |-> Amount[v2[i].op]]

MatureOf(a)   == {i \in Cex!RowsOf(a) : Cex!Mature(v2[i])}
ImmatureOf(a) == Cex!RowsOf(a) \ MatureOf(a)

(* What the types say of the rows of an answer.                            *)
LEMMA RowTypes ==
    ASSUME Cex!TypeOK
    PROVE  /\ IsFiniteSet(DOMAIN v2) /\ v1 \in Nat
           /\ \A i \in DOMAIN v2 : /\ v2[i].op \in Outpoints /\ v2[i].daa \in Nat
                                   /\ RowAmounts[i] \in Nat
<1>1. v1 \in Nat
  BY CexConstants DEF Cex!TypeOK
<1>2. Len(v2) \in Nat /\ DOMAIN v2 = 1 .. Len(v2)
  BY DEF Cex!TypeOK
<1>3. IsFiniteSet(DOMAIN v2)
  BY <1>2, FS_Interval
<1>4. ASSUME NEW i \in DOMAIN v2
      PROVE  v2[i].op \in Outpoints /\ v2[i].daa \in Nat /\ RowAmounts[i] \in Nat
  <2>1. v2[i] \in Cex!Rows
    BY <1>2, <1>4, ElementOfSeq DEF Cex!TypeOK
  <2>2. v2[i].op \in Outpoints /\ v2[i].daa \in Nat
    BY <2>1, CexConstants DEF Cex!Rows
  <2>3. QED  BY <2>2, CexConstants DEF RowAmounts
<1>5. QED  BY <1>1, <1>3, <1>4

(* A sum of rows is one of their amounts.                                  *)
LEMMA SompiSums ==
    ASSUME NEW rows
    PROVE  Cex!Sompi(rows) = SumFunctionOnSet(RowAmounts, rows)
BY DEF Cex!Sompi, Cex!SumFunctionOnSet, Cex!FoldFunctionOnSet, Cex!MapThenFoldSet,
       SumFunctionOnSet, FoldFunctionOnSet, MapThenFoldSet, RowAmounts

(* The fields of a snapshot.                                               *)
LEMMA SnapshotFields ==
    ASSUME NEW a
    PROVE  LET s == Cex!Snapshot(a) IN
           /\ s.confirmed_sompi = SumFunctionOnSet(RowAmounts, MatureOf(a))
           /\ s.pending_sompi = SumFunctionOnSet(RowAmounts, ImmatureOf(a))
           /\ s.immature_coinbase_sompi
                = SumFunctionOnSet(RowAmounts, {i \in ImmatureOf(a) : v2[i].op \in Coinbase})
           /\ s.spendable = {v2[i].op : i \in MatureOf(a)}
BY SompiSums DEF Cex!Snapshot, MatureOf, ImmatureOf

(* The rows of an address are some of the answer's, mature or not.         *)
LEMMA RowsSplit ==
    ASSUME NEW a
    PROVE  /\ Cex!RowsOf(a) = {i \in DOMAIN v2 : v2[i].address = a}
           /\ MatureOf(a) \cup ImmatureOf(a) = Cex!RowsOf(a)
           /\ MatureOf(a) \cap ImmatureOf(a) = {}
           /\ MatureOf(a) \in SUBSET DOMAIN v2 /\ ImmatureOf(a) \in SUBSET DOMAIN v2
BY DEF MatureOf, ImmatureOf, Cex!RowsOf

(* What a snapshot has of an address is the sum of its rows.               *)
LEMMA SnapshotTotal ==
    ASSUME Cex!TypeOK, NEW a
    PROVE  Cex!Snapshot(a).confirmed_sompi + Cex!Snapshot(a).pending_sompi
             = SumFunctionOnSet(RowAmounts, {i \in DOMAIN v2 : v2[i].address = a})
<1>1. IsFiniteSet(MatureOf(a)) /\ IsFiniteSet(ImmatureOf(a))
  BY RowTypes, RowsSplit, FS_Subset
<1>2. \A i \in MatureOf(a) \cup ImmatureOf(a) : RowAmounts[i] \in Int
  BY RowTypes, RowsSplit
<1>3. SumFunctionOnSet(RowAmounts, MatureOf(a) \cup ImmatureOf(a))
        = SumFunctionOnSet(RowAmounts, MatureOf(a))
            + SumFunctionOnSet(RowAmounts, ImmatureOf(a))
  BY <1>1, <1>2, RowsSplit, SumDisjoint
<1>4. MatureOf(a) \cup ImmatureOf(a) = {i \in DOMAIN v2 : v2[i].address = a}
  BY RowsSplit
<1>5. /\ Cex!Snapshot(a).confirmed_sompi = SumFunctionOnSet(RowAmounts, MatureOf(a))
      /\ Cex!Snapshot(a).pending_sompi = SumFunctionOnSet(RowAmounts, ImmatureOf(a))
  BY SnapshotFields
<1>6. QED  BY <1>3, <1>4, <1>5

(* All rows are in some snapshot, each in one.                             *)
LEMMA SnapshotsAddUp ==
    ASSUME Cex!TypeOK, Cex!Valid(v2)
    PROVE  Cex!Sompi(DOMAIN v2) = Cex!SumFunction(
              [a \in Addresses |-> Cex!Snapshot(a).confirmed_sompi
                                     + Cex!Snapshot(a).pending_sompi])
<1> DEFINE total == [a \in Addresses |-> Cex!Snapshot(a).confirmed_sompi
                                           + Cex!Snapshot(a).pending_sompi]
           owner == [i \in DOMAIN v2 |-> v2[i].address]
<1>1. Cex!SumFunction(total) = SumFunctionOnSet(total, Addresses)
  BY DEF Cex!SumFunction, Cex!SumFunctionOnSet, Cex!FoldFunctionOnSet, Cex!MapThenFoldSet,
         SumFunctionOnSet, FoldFunctionOnSet, MapThenFoldSet
<1>2. \A i \in DOMAIN v2 : RowAmounts[i] \in Int /\ owner[i] \in Addresses
  BY RowTypes DEF Cex!Valid
<1>3. GroupSums(RowAmounts, owner, DOMAIN v2, Addresses) = total
  <2>1. ASSUME NEW a \in Addresses
        PROVE  SumFunctionOnSet(RowAmounts, {i \in DOMAIN v2 : owner[i] = a}) = total[a]
    <3>1. {i \in DOMAIN v2 : owner[i] = a} = {i \in DOMAIN v2 : v2[i].address = a}
      OBVIOUS
    <3>2. QED  BY <3>1, SnapshotTotal
  <2>2. QED  BY <2>1 DEF GroupSums
<1>4. SumFunctionOnSet(RowAmounts, DOMAIN v2) = SumFunctionOnSet(total, Addresses)
  <2> HIDE DEF total, owner
  <2>1. QED  BY <1>2, <1>3, RowTypes, CexConstants, SumGroups
<1>5. QED  BY <1>1, <1>4, SompiSums

(* A mature row has the depth its kind needs.                              *)
LEMMA MatureDeep ==
    ASSUME Cex!TypeOK, NEW i \in DOMAIN v2, Cex!Mature(v2[i])
    PROVE  /\ v2[i].daa < v1
           /\ v2[i].op \in Coinbase => v2[i].daa + CoinbaseMaturity <= v1
BY RowTypes, CexConstants
   DEF Cex!Mature, Cex!Confirmations, Cex!RequiredDepth, Cex!Maximum

(* A balance that is confirmed is spendable.                               *)
LEMMA ConfirmedSpendable ==
    ASSUME Cex!TypeOK, Cex!Valid(v2), NEW a
    PROVE  LET s == Cex!Snapshot(a) IN
           /\ s.confirmed_sompi = Cex!SumFunctionOnSet(Amount, s.spendable)
           /\ s.immature_coinbase_sompi <= s.pending_sompi
<1> DEFINE name == [i \in DOMAIN v2 |-> v2[i].op]
           coinbases == {i \in ImmatureOf(a) : v2[i].op \in Coinbase}
<1>1. /\ IsFiniteSet(MatureOf(a)) /\ IsFiniteSet(ImmatureOf(a))
      /\ MatureOf(a) \in SUBSET DOMAIN v2 /\ ImmatureOf(a) \in SUBSET DOMAIN v2
  BY RowTypes, RowsSplit, FS_Subset
<1>2. \A i, j \in MatureOf(a) : name[i] = name[j] => i = j
  BY <1>1 DEF Cex!Valid
<1>3. \A i \in MatureOf(a) : RowAmounts[i] = Amount[name[i]] /\ RowAmounts[i] \in Int
  BY <1>1, RowTypes DEF RowAmounts
<1>4. SumFunctionOnSet(RowAmounts, MatureOf(a))
        = SumFunctionOnSet(Amount, Named(name, MatureOf(a)))
  <2> HIDE DEF name
  <2>1. QED  BY <1>1, <1>2, <1>3, SumRenamed
<1>5. Named(name, MatureOf(a)) = {v2[i].op : i \in MatureOf(a)}
  BY <1>1 DEF Named
<1>6. \A S : Cex!SumFunctionOnSet(Amount, S) = SumFunctionOnSet(Amount, S)
  BY DEF Cex!SumFunctionOnSet, Cex!FoldFunctionOnSet, Cex!MapThenFoldSet,
         SumFunctionOnSet, FoldFunctionOnSet, MapThenFoldSet
<1>7. SumFunctionOnSet(RowAmounts, coinbases) <= SumFunctionOnSet(RowAmounts, ImmatureOf(a))
  <2>1. coinbases \in SUBSET ImmatureOf(a)
    OBVIOUS
  <2>2. \A i \in ImmatureOf(a) : RowAmounts[i] \in Nat
    BY <1>1, RowTypes
  <2> HIDE DEF coinbases
  <2>3. QED  BY <1>1, <2>1, <2>2, SumPart
<1>8. QED  BY <1>4, <1>5, <1>6, <1>7, SnapshotFields

(* What the answers say is split, none of it is counted twice.             *)
LEMMA CexBalances == Cex!TypeOK => Cex!BalancesSound
<1> SUFFICES ASSUME Cex!TypeOK, Cex!Valid(v2)
             PROVE  Cex!BalancesSound
  BY DEF Cex!BalancesSound, Cex!Accepted
<1>1. ASSUME NEW i \in DOMAIN v2, NEW a, v2[i].op \in Cex!Snapshot(a).spendable
      PROVE  i \in MatureOf(a)
  <2>1. PICK j \in MatureOf(a) : v2[j].op = v2[i].op
    <3>1. Cex!Snapshot(a).spendable = {v2[j].op : j \in MatureOf(a)}
      BY SnapshotFields
    <3>2. QED  BY <1>1, <3>1
  <2>2. j \in DOMAIN v2
    BY <2>1, RowsSplit
  <2>3. i = j
    BY <2>1, <2>2 DEF Cex!Valid
  <2>4. QED  BY <2>1, <2>3
<1>2. ASSUME NEW a \in Addresses, NEW b \in Addresses, a # b
      PROVE  Cex!Snapshot(a).spendable \cap Cex!Snapshot(b).spendable = {}
  <2> SUFFICES ASSUME NEW op, op \in Cex!Snapshot(a).spendable,
                      op \in Cex!Snapshot(b).spendable
               PROVE  FALSE
    OBVIOUS
  <2>1. PICK i \in MatureOf(a) : v2[i].op = op
    <3>1. Cex!Snapshot(a).spendable = {v2[i].op : i \in MatureOf(a)}
      BY SnapshotFields
    <3>2. QED  BY <3>1
  <2>2. i \in DOMAIN v2
    BY RowsSplit
  <2>3. i \in MatureOf(b)
    BY <1>1, <2>1, <2>2
  <2>4. QED  BY <1>2, <2>1, <2>3 DEF MatureOf, Cex!RowsOf
<1>3. ASSUME NEW i \in DOMAIN v2, v2[i].op \in Cex!Spendable
      PROVE  Cex!Mature(v2[i])
  <2>1. PICK a \in Addresses : v2[i].op \in Cex!Snapshot(a).spendable
    BY <1>3 DEF Cex!Spendable
  <2>2. QED  BY <1>1, <2>1 DEF MatureOf
<1>4. QED
  BY <1>2, <1>3, SnapshotsAddUp, ConfirmedSpendable, MatureDeep DEF Cex!BalancesSound

(* The guard starts with nothing spent.                                    *)
LEMMA CexInit == Cex!Init => CexInv
<1> SUFFICES ASSUME Cex!Init PROVE CexInv
  OBVIOUS
<1>1. v2 = <<>> /\ v2 \in Seq(Cex!Rows) /\ Len(v2) <= MaxRows
  BY CexConstants DEF Cex!Init
<1>2. Cex!TypeOK
  BY <1>1 DEF Cex!Init, Cex!TypeOK
<1>3. Cex!InputsExclusive
  BY DEF Cex!Init, Cex!InputsExclusive
<1>4. QED  BY <1>2, <1>3 DEF CexInv

(* What is spendable are outpoints.                                        *)
LEMMA SpendableTypes == Cex!TypeOK => Cex!Spendable \subseteq Outpoints
<1> SUFFICES ASSUME Cex!TypeOK, NEW op \in Cex!Spendable PROVE op \in Outpoints
  OBVIOUS
<1>1. PICK a \in Addresses : op \in Cex!Snapshot(a).spendable
  BY DEF Cex!Spendable
<1>2. Cex!Snapshot(a).spendable = {v2[i].op : i \in MatureOf(a)}
  BY SnapshotFields
<1>3. PICK i \in MatureOf(a) : v2[i].op = op
  BY <1>1, <1>2
<1>4. i \in DOMAIN v2
  BY RowsSplit
<1>5. QED  BY <1>3, <1>4, RowTypes

(* A payment is built of outpoints that no payment holds.                  *)
LEMMA CexStep == CexInv /\ Cex!Next => CexInv'
<1> SUFFICES ASSUME CexInv, Cex!Next PROVE CexInv'
  OBVIOUS
<1>0. /\ v1 \in Scores /\ v2 \in Seq(Cex!Rows) /\ Len(v2) <= MaxRows
      /\ v3 \subseteq Outpoints /\ v4 \in [Payments -> SUBSET Outpoints]
  BY DEF CexInv, Cex!TypeOK
<1>1. CASE Cex!Drop \/ \E daa \in Scores, n \in 0 .. MaxRows :
                          \E rows \in [1 .. n -> Cex!Rows] : Cex!Fetch(daa, rows)
  <2>1. \A n \in 0 .. MaxRows : \A rows \in [1 .. n -> Cex!Rows] :
           rows \in Seq(Cex!Rows) /\ Len(rows) <= MaxRows
    <3> TAKE n \in 0 .. MaxRows
    <3> TAKE rows \in [1 .. n -> Cex!Rows]
    <3>1. n \in Nat /\ n <= MaxRows
      BY CexConstants
    <3>2. QED  BY <3>1, SeqDef
  <2>2. <<>> \in Seq(Cex!Rows) /\ Len(<<>>) <= MaxRows
    BY CexConstants
  <2>3. /\ v1' \in Scores /\ v2' \in Seq(Cex!Rows) /\ Len(v2') <= MaxRows
        /\ v3' = v3 /\ v4' = v4
    BY <1>0, <1>1, <2>1, <2>2 DEF Cex!Drop, Cex!Fetch, Cex!guard
  <2>4. QED  BY <1>0, <2>3 DEF CexInv, Cex!TypeOK, Cex!Rows, Cex!InputsExclusive
<1>2. ASSUME NEW p \in Payments, NEW inputs \in SUBSET Outpoints,
             Cex!Reserve(p, inputs)
      PROVE  CexInv'
  <2>1. /\ inputs \cap v3 = {} /\ v3' = v3 \cup inputs
        /\ DOMAIN v4' = Payments /\ v4'[p] = v4[p] \cup inputs
        /\ \A q \in Payments : q # p => v4'[q] = v4[q]
    BY <1>0, <1>2 DEF Cex!Reserve
  <2>2. /\ \A q, r \in Payments : q # r => v4[q] \cap v4[r] = {}
        /\ \A op : op \in v3 <=> \E q \in Payments : op \in v4[q]
    BY DEF CexInv, Cex!InputsExclusive
  <2>3. \A q, r \in Payments : q # r => v4'[q] \cap v4'[r] = {}
    <3> SUFFICES ASSUME NEW q \in Payments, NEW r \in Payments, q # r,
                        NEW op, op \in v4'[q], op \in v4'[r]
                 PROVE  FALSE
      OBVIOUS
    <3>1. CASE op \in inputs
      <4>1. \A t \in Payments : op \notin v4[t]
        BY <2>1, <2>2, <3>1
      <4>2. QED  BY <2>1, <4>1
    <3>2. CASE op \notin inputs
      BY <2>1, <2>2, <3>2
    <3>3. QED  BY <3>1, <3>2
  <2>4. \A op : op \in v3' <=> \E q \in Payments : op \in v4'[q]
    <3> TAKE op
    <3>1. CASE op \in inputs
      BY <2>1, <3>1
    <3>2. CASE op \notin inputs
      BY <2>1, <2>2, <3>2
    <3>3. QED  BY <3>1, <3>2
  <2>5. v3' = UNION {v4'[q] : q \in Payments}
    BY <2>4
  <2>6. Cex!TypeOK'
    BY <1>0, <1>2 DEF Cex!Reserve, Cex!TypeOK, Cex!Rows
  <2>7. QED  BY <2>3, <2>5, <2>6 DEF CexInv, Cex!InputsExclusive
<1>3. ASSUME NEW inputs \in SUBSET Outpoints, Cex!Release(inputs)
      PROVE  CexInv'
  <2>1. /\ v3' = v3 \ inputs
        /\ DOMAIN v4' = Payments
        /\ \A q \in Payments : v4'[q] = v4[q] \ inputs
    BY <1>0, <1>3 DEF Cex!Release
  <2>2. /\ \A q, r \in Payments : q # r => v4[q] \cap v4[r] = {}
        /\ \A op : op \in v3 <=> \E q \in Payments : op \in v4[q]
    BY DEF CexInv, Cex!InputsExclusive
  <2>3. \A q, r \in Payments : q # r => v4'[q] \cap v4'[r] = {}
    BY <2>1, <2>2
  <2>4. \A op : op \in v3' <=> \E q \in Payments : op \in v4'[q]
    <3> TAKE op
    <3>1. CASE op \in inputs
      BY <2>1, <3>1
    <3>2. CASE op \notin inputs
      BY <2>1, <2>2, <3>2
    <3>3. QED  BY <3>1, <3>2
  <2>5. v3' = UNION {v4'[q] : q \in Payments}
    BY <2>4
  <2>6. Cex!TypeOK'
    BY <1>0, <1>3 DEF Cex!Release, Cex!TypeOK, Cex!Rows
  <2>7. QED  BY <2>3, <2>5, <2>6 DEF CexInv, Cex!InputsExclusive
<1>4. QED
  <2>1. ASSUME NEW p \in Payments, NEW inputs \in SUBSET Cex!Spendable,
               Cex!Reserve(p, inputs)
        PROVE  CexInv'
    BY <1>2, <2>1, SpendableTypes DEF CexInv
  <2>2. QED  BY <1>1, <1>3, <2>1 DEF Cex!Next

(* The other components leave the guard alone.                             *)
LEMMA CexStutter == CexInv /\ UNCHANGED all => CexInv'
<1> SUFFICES ASSUME CexInv, UNCHANGED all PROVE CexInv'
  OBVIOUS
<1>1. v1' = v1 /\ v2' = v2 /\ v3' = v3 /\ v4' = v4
  BY DEF all, None
<1>2. QED  BY <1>1 DEF CexInv, Cex!TypeOK, Cex!Rows, Cex!InputsExclusive

-----------------------------------------------------------------------------
(* Covenants.                                                              *)

(* Inductive as it stands.                                                 *)
CovenantInv == Covenant!TypeOK /\ Covenant!PaidOnce

(* What is assumed of the bounds.                                          *)
LEMMA CovenantBounds == MaxDaa \in Nat /\ MaxFunds \in Nat
BY ComponentsAssumption DEF Covenant!CovenantAssumption

(* Nothing is registered to begin with.                                    *)
LEMMA CovenantInit == Covenant!Init => CovenantInv
<1> SUFFICES ASSUME Covenant!Init PROVE CovenantInv
  OBVIOUS
<1>1. Covenant!TypeOK
  BY CovenantBounds DEF Covenant!Init, Covenant!TypeOK, Covenant!Daa
<1>2. Covenant!PaidOnce
  BY DEF Covenant!Init, Covenant!PaidOnce, Covenant!Live
<1>3. QED  BY <1>1, <1>2 DEF CovenantInv

(* Whatever way out is taken, the record was in the map and unsettled.     *)
LEMMA OnlyLiveSettles ==
    ASSUME Covenant!TypeOK, NEW u \in Ids, NEW a, NEW b,
           \/ Covenant!CanRelease(u, a, b) \/ Covenant!CanRefundBuyer(u, a, b)
           \/ Covenant!CanTimeout(u) \/ Covenant!CanRefund(u)
           \/ Covenant!CanClaim(u, a) \/ Covenant!CanSpend(u, a, b)
    PROVE  Covenant!Live(v3[u])
<1>1. CASE Covenant!CanSpend(u, a, b)
  <2>1. v1 = "native" /\ v3[u] # Null
    BY <1>1 DEF Covenant!CanSpend
  <2>2. v3[u] \in Covenant!Native
    BY <2>1 DEF Covenant!TypeOK, Covenant!Utxos
  <2>3. QED  BY <2>1, <2>2 DEF Covenant!Live, Covenant!Native
<1>2. QED
  BY <1>1 DEF Covenant!CanRelease, Covenant!CanRefundBuyer, Covenant!CanTimeout,
              Covenant!CanClaim, Covenant!CanRefund

(* A settlement takes the record it pays for.                              *)
LEMMA SettleInv ==
    ASSUME CovenantInv, NEW u \in Ids, Covenant!Live(v3[u]), Covenant!Settle(u)
    PROVE  CovenantInv'
<1>1. /\ v3' = [v3 EXCEPT ![u] = Null]
      /\ v5' = [v5 EXCEPT ![u] = @ + 1]
      /\ v1' = v1 /\ v2' = v2 /\ v4' = v4
  BY DEF Covenant!Settle
<1>2. /\ v3 \in [Ids -> Covenant!Utxos \cup {Null}]
      /\ v4 \in [Ids -> 0 .. MaxFunds] /\ v5 \in [Ids -> 0 .. MaxFunds]
  BY DEF CovenantInv, Covenant!TypeOK
<1>3. v5[u] + 1 <= v4[u]
  BY DEF CovenantInv, Covenant!PaidOnce
<1>4. v5'[u] \in 0 .. MaxFunds /\ v5'[u] <= v4'[u]
  BY <1>1, <1>2, <1>3, CovenantBounds
<1>5. v5' \in [Ids -> 0 .. MaxFunds]
  BY <1>1, <1>2, <1>4
<1>6. Covenant!Utxos' = Covenant!Utxos
  BY <1>1 DEF Covenant!Utxos
<1>7. Covenant!TypeOK'
  BY <1>1, <1>2, <1>5, <1>6 DEF CovenantInv, Covenant!TypeOK
<1>8. ASSUME NEW w \in Ids
      PROVE  v5'[w] + (IF Covenant!Live(v3[w])' THEN 1 ELSE 0) <= v4'[w]
  <2>1. CASE w = u
    BY <1>1, <1>2, <1>4, <2>1, CovenantBounds DEF Covenant!Live
  <2>2. CASE w # u
    BY <1>1, <1>2, <2>2 DEF CovenantInv, Covenant!PaidOnce, Covenant!Live
  <2>3. QED  BY <2>1, <2>2
<1>9. QED  BY <1>7, <1>8 DEF CovenantInv, Covenant!PaidOnce

(* A registration is paid for when its record is unspent.                  *)
LEMMA RegisterInv ==
    ASSUME CovenantInv, NEW u \in Ids, NEW utxo \in Covenant!Utxos,
           Covenant!Register(u, utxo)
    PROVE  CovenantInv'
<1>1. /\ v4[u] < MaxFunds
      /\ v3' = [v3 EXCEPT ![u] = utxo]
      /\ v4' = [v4 EXCEPT ![u] = IF utxo.status = 0 THEN @ + 1 ELSE @]
      /\ v1' = v1 /\ v2' = v2 /\ v5' = v5
  BY DEF Covenant!Register
<1>2. /\ v3 \in [Ids -> Covenant!Utxos \cup {Null}]
      /\ v4 \in [Ids -> 0 .. MaxFunds] /\ v5 \in [Ids -> 0 .. MaxFunds]
  BY DEF CovenantInv, Covenant!TypeOK
<1>3. \A w \in Ids : v5[w] + (IF Covenant!Live(v3[w]) THEN 1 ELSE 0) <= v4[w]
  BY DEF CovenantInv, Covenant!PaidOnce
<1>4. v4' \in [Ids -> 0 .. MaxFunds]
  BY <1>1, <1>2, CovenantBounds
<1>5. Covenant!Utxos' = Covenant!Utxos
  BY <1>1 DEF Covenant!Utxos
<1>6. Covenant!TypeOK'
  BY <1>1, <1>2, <1>4, <1>5 DEF CovenantInv, Covenant!TypeOK
<1>7. ASSUME NEW w \in Ids
      PROVE  v5'[w] + (IF Covenant!Live(v3[w])' THEN 1 ELSE 0) <= v4'[w]
  <2>1. CASE w = u
    <3>1. v5[u] <= v4[u] /\ v5'[u] = v5[u] /\ v3'[u] = utxo
      BY <1>1, <1>2, <1>3, CovenantBounds
    <3>2. CASE utxo.status = 0
      BY <1>1, <1>2, <2>1, <3>1, <3>2, CovenantBounds
    <3>3. CASE utxo.status # 0
      <4>1. ~Covenant!Live(v3[u])'
        BY <3>1, <3>3 DEF Covenant!Live
      <4>2. v4'[u] = v4[u]
        BY <1>1, <1>2, <3>3
      <4>3. QED  BY <1>2, <2>1, <3>1, <4>1, <4>2, CovenantBounds
    <3>4. QED  BY <3>2, <3>3
  <2>2. CASE w # u
    BY <1>1, <1>2, <1>3, <2>2 DEF Covenant!Live
  <2>3. QED  BY <2>1, <2>2
<1>8. QED  BY <1>6, <1>7 DEF CovenantInv, Covenant!PaidOnce

(* The score may move on.                                                  *)
LEMMA CovenantStutter ==
    ASSUME CovenantInv, UNCHANGED <<v1, v3, v4, v5>>, v2' \in Covenant!Daa
    PROVE  CovenantInv'
<1>1. Covenant!Utxos' = Covenant!Utxos
  BY DEF Covenant!Utxos
<1>2. QED
  BY <1>1 DEF CovenantInv, Covenant!TypeOK, Covenant!PaidOnce, Covenant!Live, Covenant!Daa

(* Every operation keeps the engine and what it paid in balance.           *)
LEMMA CovenantStep == CovenantInv /\ Covenant!Next => CovenantInv'
<1> SUFFICES ASSUME CovenantInv, Covenant!Next PROVE CovenantInv'
  OBVIOUS
<1>1. CASE Covenant!AdvanceDaa
  <2>1. v2' \in Covenant!Daa /\ UNCHANGED <<v1, v3, v4, v5>>
    BY <1>1, CovenantBounds DEF Covenant!AdvanceDaa, CovenantInv, Covenant!TypeOK, Covenant!Daa
  <2>2. QED  BY <2>1, CovenantStutter
<1>2. CASE \E u \in Ids : \E utxo \in Covenant!Utxos : Covenant!Register(u, utxo)
  BY <1>2, RegisterInv
<1>3. ASSUME NEW u \in Ids, NEW a, NEW b,
             \/ Covenant!ReleaseToSeller(u, a, b) \/ Covenant!RefundToBuyer(u, a, b)
             \/ Covenant!TimeoutToBuyer(u) \/ Covenant!Claim(u, a)
             \/ Covenant!Refund(u) \/ Covenant!VerifyAndSpend(u, a, b)
      PROVE  CovenantInv'
  <2>1. Covenant!Settle(u)
    BY <1>3 DEF Covenant!ReleaseToSeller, Covenant!RefundToBuyer,
          Covenant!TimeoutToBuyer, Covenant!Claim, Covenant!Refund, Covenant!VerifyAndSpend
  <2>2. Covenant!Live(v3[u])
    BY <1>3, OnlyLiveSettles DEF CovenantInv, Covenant!ReleaseToSeller,
          Covenant!RefundToBuyer, Covenant!TimeoutToBuyer, Covenant!Claim,
          Covenant!Refund, Covenant!VerifyAndSpend
  <2>3. QED  BY <2>1, <2>2, SettleInv
<1>4. QED  BY <1>1, <1>2, <1>3 DEF Covenant!Next

(* The refund score divides the scores in two.                             *)
LEMMA Windows == Covenant!TypeOK => Covenant!OneWindowOpen
<1> SUFFICES ASSUME Covenant!TypeOK, NEW u \in Ids, Covenant!Live(v3[u])
             PROVE  /\ v1 = "escrow" =>
                          (\E a, b \in Parties : Covenant!CanRelease(u, a, b))
                             # Covenant!CanTimeout(u)
                    /\ v1 = "htlc" =>
                          (\E hash \in Parties : Covenant!CanClaim(u, hash))
                             # Covenant!CanRefund(u)
  BY DEF Covenant!OneWindowOpen
<1>1. v3[u] \in Covenant!Utxos /\ v2 \in Nat
  BY CovenantBounds DEF Covenant!TypeOK, Covenant!Live, Covenant!Daa
<1>2. CASE v1 = "escrow"
  <2>1. v3[u].seller \in Parties /\ v3[u].arbiter \in Parties /\ v3[u].refund_daa \in Nat
    BY <1>1, <1>2, CovenantBounds DEF Covenant!Utxos, Covenant!Escrow, Covenant!Daa
  <2>2. (\E a, b \in Parties : Covenant!CanRelease(u, a, b)) <=> v2 < v3[u].refund_daa
    BY <1>2, <2>1 DEF Covenant!CanRelease, Covenant!ClaimOpen, Covenant!PairOk
  <2>3. Covenant!CanTimeout(u) <=> v2 >= v3[u].refund_daa
    BY <1>2 DEF Covenant!CanTimeout, Covenant!TimeoutOpen
  <2>4. v2 < v3[u].refund_daa <=> ~(v2 >= v3[u].refund_daa)
    BY <1>1, <2>1
  <2>5. QED  BY <1>2, <2>2, <2>3, <2>4
<1>3. CASE v1 = "htlc"
  <2>1. v3[u].payment_hash \in Parties /\ v3[u].refund_daa \in Nat
    BY <1>1, <1>3, CovenantBounds DEF Covenant!Utxos, Covenant!Htlc, Covenant!Daa
  <2>2. (\E hash \in Parties : Covenant!CanClaim(u, hash)) <=> v2 < v3[u].refund_daa
    BY <1>3, <2>1 DEF Covenant!CanClaim, Covenant!ClaimOpen
  <2>3. Covenant!CanRefund(u) <=> v2 >= v3[u].refund_daa
    BY <1>3 DEF Covenant!CanRefund, Covenant!TimeoutOpen
  <2>4. v2 < v3[u].refund_daa <=> ~(v2 >= v3[u].refund_daa)
    BY <1>1, <2>1
  <2>5. QED  BY <1>3, <2>2, <2>3, <2>4
<1>4. QED  BY <1>2, <1>3

(* Who can settle an escrow alone: nobody.                                 *)
LEMMA Pairs == Covenant!TwoOfThree
BY DEF Covenant!TwoOfThree, Covenant!CanRelease, Covenant!CanRefundBuyer, Covenant!PairOk

-----------------------------------------------------------------------------
(* Owned nodes.                                                            *)

(* What is assumed of the bounds.                                          *)
LEMMA NodeBounds ==
    /\ {MaxScore, MaxBlocks, MaxPeers, MaxDaaLag, MaxGap, MaxDelta} \subseteq Nat
    /\ MaxDaaLag > 0
BY ComponentsAssumption DEF Node!OwnedNodeAssumption

(* A node that has answered nothing.                                       *)
LEMMA NodeInit == Node!Init => Node!TypeOK
<1> SUFFICES ASSUME Node!Init PROVE Node!TypeOK
  OBVIOUS
<1>1. v1 \in 0 .. MaxScore + MaxDaaLag
  <2>1. v1 \in 1 .. MaxScore + MaxDaaLag
    BY DEF Node!Init
  <2>2. MaxScore \in Nat /\ MaxDaaLag \in Nat
    BY NodeBounds
  <2>3. QED  BY <2>1, <2>2
<1>2. QED  BY <1>1 DEF Node!Init, Node!TypeOK

(* Probes answer within the bounds.                                        *)
LEMMA NodeStep == Node!TypeOK /\ Node!Next => Node!TypeOK'
<1> SUFFICES ASSUME Node!TypeOK, Node!Next PROVE Node!TypeOK'
  OBVIOUS
<1>1. CASE Node!ServerAnswer
  BY <1>1 DEF Node!TypeOK, Node!ServerAnswer
<1>2. CASE Node!DagAnswer
  BY <1>2 DEF Node!TypeOK, Node!DagAnswer
<1>3. CASE Node!PeersAnswer
  BY <1>3 DEF Node!TypeOK, Node!PeersAnswer
<1>4. CASE Node!ProbeFails
  BY <1>4 DEF Node!TypeOK, Node!ProbeFails, Node!answers
<1>5. QED  BY <1>1, <1>2, <1>3, <1>4 DEF Node!Next

(* The check First names fails, and none before it does.                   *)
LEMMA FirstFailing ==
    ASSUME NEW checks, DOMAIN checks \subseteq Nat
    PROVE  \/ /\ Node!First(checks) = "healthy"
              /\ \A i \in DOMAIN checks : ~checks[i][2]
           \/ \E i \in DOMAIN checks :
                /\ checks[i][2]
                /\ Node!First(checks) = checks[i][1]
                /\ \A j \in DOMAIN checks : j < i => ~checks[j][2]
<1>1. PICK failing : failing = {i \in DOMAIN checks : checks[i][2]}
  OBVIOUS
<1>2. CASE failing = {}
  BY <1>1, <1>2 DEF Node!First
<1>3. CASE failing # {}
  <2>1. PICK i : i = Node!Min(failing)
    OBVIOUS
  <2>2. i \in failing /\ \A j \in failing : i <= j
    BY <1>1, <1>3, <2>1, LeastExists DEF Node!Min
  <2>3. Node!First(checks) = checks[i][1]
    BY <1>1, <1>3, <2>1 DEF Node!First
  <2>4. \A j \in DOMAIN checks : j < i => ~checks[j][2]
    BY <1>1, <2>2
  <2>5. QED  BY <1>1, <2>2, <2>3, <2>4
<1>4. QED  BY <1>2, <1>3

(* Seven checks of the assessment are those of the stage, in their order.  *)
LEMMA SharedChecks ==
    /\ DOMAIN Node!StageChecks = 1 .. 7 /\ DOMAIN Node!AssessChecks = 1 .. 11
    /\ \A i \in 1 .. 7 : Node!AssessChecks[i + 1] = Node!StageChecks[i]
    /\ \A i \in 1 .. 11 : Node!AssessChecks[i][1] # "healthy"
    /\ Node!AssessChecks[1][1] = "network"
    /\ \A i \in 9 .. 11 : Node!AssessChecks[i][1] \in {"version", "disagreement", "lag"}
<1>1. DOMAIN Node!StageChecks = 1 .. 7 /\ DOMAIN Node!AssessChecks = 1 .. 11
  BY DEF Node!StageChecks, Node!AssessChecks
<1>2. /\ Node!AssessChecks[2] = Node!StageChecks[1]
      /\ Node!AssessChecks[3] = Node!StageChecks[2]
      /\ Node!AssessChecks[4] = Node!StageChecks[3]
      /\ Node!AssessChecks[5] = Node!StageChecks[4]
      /\ Node!AssessChecks[6] = Node!StageChecks[5]
      /\ Node!AssessChecks[7] = Node!StageChecks[6]
      /\ Node!AssessChecks[8] = Node!StageChecks[7]
  BY DEF Node!StageChecks, Node!AssessChecks
<1>3. \A i \in 1 .. 7 : Node!AssessChecks[i + 1] = Node!StageChecks[i]
  <2> TAKE i \in 1 .. 7
  <2>1. i \in {1, 2, 3, 4, 5, 6, 7}
    OBVIOUS
  <2>2. QED  BY <1>2, <2>1
<1>4. /\ Node!AssessChecks[1][1] = "network"
      /\ Node!AssessChecks[2][1] = "missing_utxoindex"
      /\ Node!AssessChecks[3][1] = "utxo_commit"
      /\ Node!AssessChecks[4][1] = "dag_incomplete"
      /\ Node!AssessChecks[5][1] = "body_sync"
      /\ Node!AssessChecks[6][1] = "ibd_peers"
      /\ Node!AssessChecks[7][1] = "no_peers"
      /\ Node!AssessChecks[8][1] = "finishing_sync"
      /\ Node!AssessChecks[9][1] = "version"
      /\ Node!AssessChecks[10][1] = "disagreement"
      /\ Node!AssessChecks[11][1] = "lag"
  BY DEF Node!AssessChecks
<1>5. \A i \in 1 .. 11 : i \in {1, 2, 3, 4, 5, 6, 7, 8, 9, 10, 11}
  OBVIOUS
<1>6. \A i \in 9 .. 11 : i \in {9, 10, 11}
  OBVIOUS
<1>7. QED  BY <1>1, <1>3, <1>4, <1>5, <1>6

(* The stage is the fault of the assessment wherever both look at it.      *)
LEMMA StageAgrees == Node!StageExplainsAssessment
<1> SUFFICES ASSUME Node!owned_node_stage # Node!assess_owned_node
             PROVE  \/ Node!assess_owned_node = "network"
                    \/ /\ Node!assess_owned_node \in {"version", "disagreement", "lag"}
                       /\ Node!owned_node_stage = "healthy"
  BY DEF Node!StageExplainsAssessment
<1>1. PICK assess, stage : assess = Node!AssessChecks /\ stage = Node!StageChecks
  OBVIOUS
<1>2. /\ DOMAIN stage = 1 .. 7 /\ DOMAIN assess = 1 .. 11
      /\ \A i \in 1 .. 7 : assess[i + 1] = stage[i]
      /\ assess[1][1] = "network"
      /\ \A i \in 9 .. 11 : assess[i][1] \in {"version", "disagreement", "lag"}
      /\ Node!assess_owned_node = Node!First(assess)
      /\ Node!owned_node_stage = Node!First(stage)
  BY <1>1, SharedChecks DEF Node!assess_owned_node, Node!owned_node_stage
<1>3. \/ /\ Node!First(stage) = "healthy"
         /\ \A i \in 1 .. 7 : ~stage[i][2]
      \/ \E i \in 1 .. 7 :
            /\ stage[i][2] /\ Node!First(stage) = stage[i][1]
            /\ \A j \in 1 .. 7 : j < i => ~stage[j][2]
  BY <1>2, FirstFailing
<1>4. \/ /\ Node!First(assess) = "healthy"
         /\ \A i \in 1 .. 11 : ~assess[i][2]
      \/ \E i \in 1 .. 11 :
            /\ assess[i][2] /\ Node!First(assess) = assess[i][1]
            /\ \A j \in 1 .. 11 : j < i => ~assess[j][2]
  BY <1>2, FirstFailing
<1>5. CASE \A i \in 1 .. 11 : ~assess[i][2]
  <2>1. \A i \in 1 .. 7 : ~stage[i][2]
    <3> TAKE i \in 1 .. 7
    <3>1. i + 1 \in 1 .. 11 /\ assess[i + 1] = stage[i]
      BY <1>2
    <3>2. QED  BY <1>5, <3>1
  <2>2. QED  BY <1>2, <1>3, <1>4, <1>5, <2>1
<1>6. ASSUME NEW i \in 1 .. 11, assess[i][2], Node!First(assess) = assess[i][1],
             \A j \in 1 .. 11 : j < i => ~assess[j][2]
      PROVE  \/ Node!First(assess) = "network"
             \/ Node!First(stage) = Node!First(assess)
             \/ /\ Node!First(assess) \in {"version", "disagreement", "lag"}
                /\ Node!First(stage) = "healthy"
  <2>1. CASE i = 1
    BY <1>2, <1>6, <2>1
  <2>2. CASE i \in 2 .. 8
    <3>1. i - 1 \in 1 .. 7 /\ stage[i - 1] = assess[i]
      <4>1. PICK k \in 1 .. 7 : i = k + 1
        BY <2>2
      <4>2. QED  BY <1>2, <4>1
    <3>2. \A j \in 1 .. 7 : j < i - 1 => ~stage[j][2]
      <4> SUFFICES ASSUME NEW j \in 1 .. 7, j < i - 1 PROVE ~stage[j][2]
        OBVIOUS
      <4>1. j + 1 \in 1 .. 11 /\ j + 1 < i /\ assess[j + 1] = stage[j]
        BY <1>2
      <4>2. QED  BY <1>6, <4>1
    <3>3. PICK k \in 1 .. 7 : /\ stage[k][2] /\ Node!First(stage) = stage[k][1]
                              /\ \A j \in 1 .. 7 : j < k => ~stage[j][2]
      BY <1>3, <1>6, <3>1
    <3>4. k = i - 1
      <4>1. ~(k < i - 1)
        BY <3>2, <3>3
      <4>2. ~(i - 1 < k)
        BY <1>6, <3>1, <3>3
      <4>3. QED  BY <4>1, <4>2
    <3>5. QED  BY <1>6, <3>1, <3>3, <3>4
  <2>3. CASE i \in 9 .. 11
    <3>1. \A j \in 1 .. 7 : ~stage[j][2]
      <4> TAKE j \in 1 .. 7
      <4>1. j + 1 \in 1 .. 11 /\ j + 1 < i /\ assess[j + 1] = stage[j]
        BY <1>2, <2>3
      <4>2. QED  BY <1>6, <4>1
    <3>2. Node!First(stage) = "healthy"
      BY <1>3, <3>1
    <3>3. QED  BY <1>2, <1>6, <2>3, <3>2
  <2>4. i = 1 \/ i \in 2 .. 8 \/ i \in 9 .. 11
    OBVIOUS
  <2>5. QED  BY <2>1, <2>2, <2>3, <2>4
<1>7. QED  BY <1>2, <1>4, <1>5, <1>6

(* The score of a healthy node, by either view, is near the public one.    *)
LEMMA LagInBounds == Node!TypeOK => Node!LagBounded
<1> SUFFICES ASSUME Node!TypeOK, Node!Healthy,
                    NEW daa \in {v2.daa, v3.daa}
             PROVE  Node!Above(v1, daa) <= MaxDaaLag + MaxDelta
  BY DEF Node!LagBounded
<1>1. v2 \in Node!ServerInfos /\ v3 \in Node!DagInfos
  BY DEF Node!TypeOK, Node!Healthy, Node!Answered
<1>2. v1 \in Nat /\ v2.daa \in Nat /\ v3.daa \in Nat
  BY <1>1, NodeBounds DEF Node!TypeOK, Node!ServerInfos, Node!DagInfos
<1>3. PICK assess : assess = Node!AssessChecks
  OBVIOUS
<1>4. \A i \in 1 .. 11 : ~assess[i][2]
  <2>1. /\ DOMAIN assess = 1 .. 11 /\ \A i \in 1 .. 11 : assess[i][1] # "healthy"
        /\ Node!First(assess) = "healthy"
    BY <1>3, SharedChecks DEF Node!Healthy, Node!assess_owned_node
  <2>2. DOMAIN assess \subseteq Nat
    BY <2>1
  <2>3. QED  BY <2>1, <2>2, FirstFailing
<1>5. /\ ~assess[10][2] /\ ~assess[11][2]
  BY <1>4
<1>6. /\ ~(Node!Apart(v2.daa, v3.daa) > MaxDelta)
      /\ ~(Node!Above(v1, Node!LocalDaa) > MaxDaaLag)
  BY <1>3, <1>5 DEF Node!AssessChecks
<1>7. /\ Node!LocalDaa \in {v2.daa, v3.daa}
      /\ Node!LocalDaa >= v2.daa /\ Node!LocalDaa >= v3.daa
  BY <1>2 DEF Node!LocalDaa, Node!Max
<1>8. QED  BY <1>2, <1>6, <1>7, NodeBounds DEF Node!Apart, Node!Above

(* The other components leave the node alone.                              *)
LEMMA NodeStutter == Node!TypeOK /\ UNCHANGED all => Node!TypeOK'
BY DEF all, None, Node!TypeOK

-----------------------------------------------------------------------------
(* The pool of owned nodes.                                                *)

(* A program that has not given up has options that were checked.          *)
PoolInv ==
    /\ Pool!TypeOK
    /\ v3 # "exited" => Pool!ValidOptions(v1, v2)

(* What is assumed of the urls.                                            *)
LEMMA PoolBounds ==
    /\ MaxUrls \in Nat /\ MaxUrls > 0 /\ MaxLag \in Nat /\ Null \notin Nat
    /\ Loopback \subseteq Urls /\ DefaultUrl \in Loopback
    /\ DualUrls \in Pool!Lists(Loopback)
BY ComponentsAssumption DEF Pool!OwnedNodeFailoverAssumption

(* Options are resolved before they are checked.                           *)
LEMMA PoolInit == Pool!Init => PoolInv
<1> SUFFICES ASSUME Pool!Init PROVE PoolInv
  OBVIOUS
<1> USE DEF Pool!Lists
<1>1. PICK flags \in Pool!UrlLists, dual \in BOOLEAN, flag \in 0 .. MaxUrls,
           min \in 0 .. MaxUrls :
        /\ \E env \in IF flags = <<>> THEN Pool!UrlLists ELSE {<<>>, <<DefaultUrl>>} :
              v1 = Pool!ResolveUrls(flags, env, dual)
        /\ v2 = Pool!ResolveMin(flag, min)
  BY DEF Pool!Init
<1>2. <<DefaultUrl>> \in Pool!UrlLists /\ <<>> \in Pool!UrlLists /\ DualUrls \in Pool!UrlLists
  <2>1. <<DefaultUrl>> \in [1 .. 1 -> Urls] /\ 1 \in 0 .. MaxUrls
    BY PoolBounds
  <2>2. <<>> \in [1 .. 0 -> Urls] /\ 0 \in 0 .. MaxUrls
    BY PoolBounds
  <2>3. PICK m \in 0 .. MaxUrls : DualUrls \in [1 .. m -> Loopback]
    BY PoolBounds
  <2>4. DualUrls \in [1 .. m -> Urls]
    BY <2>3, PoolBounds
  <2>5. QED  BY <2>1, <2>2, <2>4 DEF Pool!UrlLists
<1>3. PICK env \in Pool!UrlLists : v1 = Pool!ResolveUrls(flags, env, dual)
  BY <1>1, <1>2
<1>4. v1 \in Pool!Lists(Urls)
  <2>1. CASE dual
    BY <1>2, <1>3, <2>1 DEF Pool!ResolveUrls, Pool!UrlLists
  <2>2. CASE ~dual /\ flags # <<>>
    BY <1>3, <2>2 DEF Pool!ResolveUrls, Pool!UrlLists
  <2>3. CASE ~dual /\ flags = <<>>
    BY <1>2, <1>3, <2>3 DEF Pool!ResolveUrls, Pool!UrlLists
  <2>4. QED  BY <2>1, <2>2, <2>3
<1>5. v2 \in 0 .. MaxUrls
  BY <1>1 DEF Pool!ResolveMin
<1>6. Pool!TypeOK
  BY <1>4, <1>5 DEF Pool!Init, Pool!TypeOK
<1>7. QED  BY <1>6 DEF Pool!Init, PoolInv

(* The selection is of a healthy node, none of which lags less.            *)
LEMMA Primary ==
    ASSUME Pool!TypeOK, NEW lags \in [Pool!Nodes -> 0 .. MaxLag \cup {Null}],
           Pool!HealthyIn(lags) # {}
    PROVE  /\ Pool!select_primary(lags) \in Pool!HealthyIn(lags)
           /\ \A n \in Pool!HealthyIn(lags) : lags[Pool!select_primary(lags)] <= lags[n]
<1>1. PICK healthy : healthy = Pool!HealthyIn(lags)
  OBVIOUS
<1>2. healthy \subseteq Nat
  BY <1>1 DEF Pool!HealthyIn, Pool!Nodes, Pool!TypeOK, Pool!Lists
<1>3. PICK all_lags : all_lags = {lags[n] : n \in healthy}
  OBVIOUS
<1>4. all_lags \subseteq Nat /\ all_lags # {}
  BY <1>1, <1>3, PoolBounds DEF Pool!HealthyIn
<1>5. PICK least : least = Pool!Min(all_lags)
  OBVIOUS
<1>6. least \in all_lags /\ \A lag \in all_lags : least <= lag
  BY <1>4, <1>5, LeastExists DEF Pool!Min
<1>7. PICK best : best = {n \in healthy : lags[n] = least}
  OBVIOUS
<1>8. best \subseteq Nat /\ best # {}
  BY <1>2, <1>3, <1>6, <1>7
<1>9. Pool!Min(best) \in best
  BY <1>8, LeastExists DEF Pool!Min
<1>10. Pool!select_primary(lags) = Pool!Min(best)
  BY <1>1, <1>3, <1>5, <1>7 DEF Pool!select_primary
<1>11. QED  BY <1>1, <1>3, <1>6, <1>7, <1>9, <1>10

(* A node chosen is told from none.                                        *)
LEMMA Lags == Pool!TypeOK => Null \notin Pool!Nodes
BY PoolBounds DEF Pool!TypeOK, Pool!Nodes, Pool!Lists

(* What an evaluation may find: a lag for each node, or none.              *)
AnyLags == [Pool!Nodes -> 0 .. MaxLag \cup {Null}]

(* What is kept by every step: the options, and so the nodes.              *)
LEMMA PoolKept ==
    ASSUME PoolInv, UNCHANGED <<v1, v2>>,
           v3' \in {"startup", "gate", "select", "connect", "connected", "failed",
                    "resnapshot", "exited"},
           v3 # "exited",
           v4' \in AnyLags, v5' \in Pool!Nodes \cup {Null}, v6' \in BOOLEAN
    PROVE  PoolInv'
<1>1. Pool!Nodes' = Pool!Nodes /\ AnyLags' = AnyLags
  BY DEF Pool!Nodes, AnyLags
<1>2. Pool!TypeOK'
  BY <1>1 DEF PoolInv, Pool!TypeOK, AnyLags
<1>3. Pool!ValidOptions(v1, v2)'
  BY DEF PoolInv, Pool!ValidOptions
<1>4. QED  BY <1>2, <1>3 DEF PoolInv

(* A failover is to the best node other than the failed one.               *)
LEMMA FailoverStep ==
    ASSUME PoolInv, Pool!NextOwnedNode
    PROVE  PoolInv' /\ Pool!BestChosen /\ Pool!LeftUnlessLast
<1>1. /\ v3 = "failed" /\ v3' = "resnapshot" /\ UNCHANGED <<v1, v2>>
  BY DEF Pool!NextOwnedNode, Pool!options, Pool!Goto
<1>2. /\ v4 \in AnyLags /\ v5 \in Pool!Nodes \cup {Null} /\ v6 \in BOOLEAN
      /\ Pool!TypeOK /\ Null \notin Pool!Nodes
  BY Lags DEF PoolInv, Pool!TypeOK, AnyLags
<1>3. CASE v6' = FALSE /\ UNCHANGED <<v4, v5>>
  <2>1. PoolInv'
    BY <1>1, <1>2, <1>3, PoolKept
  <2>2. Pool!BestChosen /\ Pool!LeftUnlessLast
    BY <1>3 DEF Pool!BestChosen, Pool!LeftUnlessLast
  <2>3. QED  BY <2>1, <2>2
<1>4. ASSUME NEW lags \in AnyLags,
             Pool!Evaluate(lags),
             v6' = (Pool!HealthyIn(Pool!SkipFailed(lags)) # {}),
             v5' = IF Pool!HealthyIn(Pool!SkipFailed(lags)) # {}
                   THEN Pool!select_primary(Pool!SkipFailed(lags)) ELSE v5
      PROVE  PoolInv' /\ Pool!BestChosen /\ Pool!LeftUnlessLast
  <2>1. PICK rest : rest = Pool!SkipFailed(lags)
    OBVIOUS
  <2>2. /\ rest \in AnyLags
        /\ \A n \in Pool!Nodes : rest[n] = IF n = v5 THEN Null ELSE lags[n]
    BY <2>1 DEF Pool!SkipFailed, AnyLags
  <2>3. v4' = lags
    BY <1>4 DEF Pool!Evaluate
  <2>4. CASE Pool!HealthyIn(rest) = {}
    <3>1. v6' = FALSE /\ v5' = v5
      BY <1>4, <2>1, <2>4
    <3>2. \A n \in Pool!Nodes \ {v5} : lags[n] = Null
      BY <2>2, <2>4 DEF Pool!HealthyIn
    <3>3. PoolInv'
      BY <1>1, <1>2, <2>3, <3>1, PoolKept
    <3>4. Pool!BestChosen /\ Pool!LeftUnlessLast
      BY <2>3, <3>1, <3>2 DEF Pool!BestChosen, Pool!LeftUnlessLast
    <3>5. QED  BY <3>3, <3>4
  <2>5. CASE Pool!HealthyIn(rest) # {}
    <3>1. v6' = TRUE /\ v5' = Pool!select_primary(rest)
      BY <1>4, <2>1, <2>5
    <3>2. /\ v5' \in Pool!HealthyIn(rest)
          /\ \A n \in Pool!HealthyIn(rest) : rest[v5'] <= rest[n]
      BY <1>2, <2>2, <2>5, <3>1, Primary DEF AnyLags
    <3>3. v5' \in Pool!Nodes /\ v5' # v5 /\ lags[v5'] # Null
      BY <1>2, <2>2, <3>2 DEF Pool!HealthyIn
    <3>4. \A n \in Pool!Nodes \ {v5, v5'} : lags[n] # Null => lags[v5'] <= lags[n]
      BY <2>2, <3>2, <3>3 DEF Pool!HealthyIn
    <3>5. PoolInv'
      BY <1>1, <1>2, <2>3, <3>1, <3>3, PoolKept
    <3>6. Pool!BestChosen
      BY <2>3, <3>3, <3>4 DEF Pool!BestChosen
    <3>7. Pool!LeftUnlessLast
      BY <3>3 DEF Pool!LeftUnlessLast
    <3>8. QED  BY <3>5, <3>6, <3>7
  <2>6. QED  BY <2>4, <2>5
<1>5. QED  BY <1>3, <1>4 DEF Pool!NextOwnedNode, AnyLags

(* The first selection is of the best node.                                *)
LEMMA SelectStep ==
    ASSUME PoolInv, Pool!Select
    PROVE  PoolInv' /\ Pool!BestChosen /\ Pool!LeftUnlessLast
<1>1. PICK lags \in AnyLags :
        /\ Pool!Evaluate(lags)
        /\ v5' = Pool!select_primary(lags)
        /\ v6' = (Pool!HealthyIn(lags) # {})
        /\ Pool!Goto(IF Pool!HealthyIn(lags) # {} THEN "connect" ELSE "select")
  BY DEF Pool!Select, AnyLags
<1>2. /\ v3 = "select" /\ v3' \in {"connect", "select"} /\ UNCHANGED <<v1, v2>>
      /\ v4' = lags /\ v6' \in BOOLEAN
  BY <1>1 DEF Pool!Select, Pool!options, Pool!Goto, Pool!Evaluate
<1>3. Pool!TypeOK /\ Null \notin Pool!Nodes
  BY Lags DEF PoolInv
<1>4. Pool!LeftUnlessLast
  BY <1>2 DEF Pool!LeftUnlessLast
<1>5. CASE Pool!HealthyIn(lags) = {}
  <2>1. v5' = Null /\ v6' = FALSE
    BY <1>1, <1>5 DEF Pool!select_primary
  <2>2. PoolInv'
    BY <1>2, <2>1, PoolKept
  <2>3. Pool!BestChosen
    BY <2>1 DEF Pool!BestChosen
  <2>4. QED  BY <1>4, <2>2, <2>3
<1>6. CASE Pool!HealthyIn(lags) # {}
  <2>1. /\ v5' \in Pool!HealthyIn(lags)
        /\ \A n \in Pool!HealthyIn(lags) : lags[v5'] <= lags[n]
    BY <1>1, <1>3, <1>6, Primary DEF AnyLags
  <2>2. v5' \in Pool!Nodes
    BY <2>1 DEF Pool!HealthyIn
  <2>3. PoolInv'
    BY <1>2, <2>2, PoolKept
  <2>4. Pool!BestChosen
    BY <1>2, <2>1 DEF Pool!BestChosen, Pool!HealthyIn
  <2>5. QED  BY <1>4, <2>3, <2>4
<1>7. QED  BY <1>5, <1>6

(* Every step keeps the options and chooses the best.                      *)
LEMMA PoolStep ==
    PoolInv /\ Pool!Next => PoolInv' /\ Pool!BestChosen /\ Pool!LeftUnlessLast
<1> SUFFICES ASSUME PoolInv, Pool!Next
             PROVE  PoolInv' /\ Pool!BestChosen /\ Pool!LeftUnlessLast
  OBVIOUS
<1>1. CASE Pool!Select
  BY <1>1, SelectStep
<1>2. CASE Pool!NextOwnedNode
  BY <1>2, FailoverStep
<1>3. CASE \/ Pool!Startup \/ Pool!Gate \/ Pool!Connect \/ Pool!Disconnect
           \/ Pool!Resnapshot
  <2>1. /\ v3 \in {"startup", "gate", "connect", "connected", "resnapshot"}
        /\ v3' \in {"gate", "select", "connect", "connected", "failed", "exited"}
    BY <1>3 DEF Pool!Startup, Pool!Gate, Pool!Connect, Pool!Disconnect,
                Pool!Resnapshot, Pool!Goto
  <2>2. UNCHANGED <<v1, v2, v5, v6>>
    BY <1>3 DEF Pool!Startup, Pool!Gate, Pool!Connect, Pool!Disconnect,
                Pool!Resnapshot, Pool!options
  <2>3. v4 \in AnyLags /\ v5 \in Pool!Nodes \cup {Null} /\ v6 \in BOOLEAN
    BY DEF PoolInv, Pool!TypeOK, AnyLags
  <2>4. v4' \in AnyLags
    <3>1. CASE Pool!Gate
      BY <2>3, <3>1 DEF Pool!Gate, Pool!Evaluate, AnyLags
    <3>2. QED
      BY <1>3, <2>3, <3>1 DEF Pool!Startup, Pool!Connect, Pool!Disconnect, Pool!Resnapshot
  <2>5. PoolInv'
    BY <2>1, <2>2, <2>3, <2>4, PoolKept
  <2>6. Pool!BestChosen /\ Pool!LeftUnlessLast
    BY <2>1 DEF Pool!BestChosen, Pool!LeftUnlessLast
  <2>7. QED  BY <2>5, <2>6
<1>4. QED  BY <1>1, <1>2, <1>3 DEF Pool!Next, Pool!Step

(* Distinct urls: there are as many nodes as urls.                         *)
LEMMA DistinctUrls ==
    ASSUME Pool!TypeOK, Pool!IsInjective(v1)
    PROVE  Cardinality(Pool!Range(v1)) = Len(v1)
<1>1. PICK m \in 0 .. MaxUrls : v1 \in [1 .. m -> Urls]
  BY DEF Pool!TypeOK, Pool!Lists
<1>2. m \in Nat /\ Len(v1) = m
  BY <1>1, PoolBounds
<1>3. v1 \in Bijection(1 .. m, Pool!Range(v1))
  BY <1>1 DEF Pool!IsInjective, Pool!Range, Bijection, Injection, Surjection,
                IsInjective
<1>4. IsFiniteSet(1 .. m) /\ Cardinality(1 .. m) = m
  BY <1>2, FS_Interval
<1>5. QED
  BY <1>2, <1>3, <1>4, FS_Bijection DEF ExistsBijection

(* A set has the same size in the instance.                                *)
LEMMA SameCardinality == \A S : Pool!Cardinality(S) = Cardinality(S)
BY DEF Pool!Cardinality, Cardinality

(* Checked options name as many nodes as the gate waits for.               *)
LEMMA PoolGate == PoolInv => Pool!GateReachable
<1> SUFFICES ASSUME PoolInv, v3 # "exited" PROVE v2 <= Cardinality(Pool!Range(v1))
  BY SameCardinality DEF Pool!GateReachable
<1>1. Pool!IsInjective(v1) /\ v2 <= Len(v1)
  BY DEF PoolInv, Pool!ValidOptions
<1>2. QED  BY <1>1, DistinctUrls DEF PoolInv

(* The other components leave the pool alone.                              *)
LEMMA PoolStutter == PoolInv /\ UNCHANGED all => PoolInv'
BY DEF all, None, PoolInv, Pool!TypeOK, Pool!Nodes, Pool!ValidOptions

-----------------------------------------------------------------------------
(* The webhook receiver.                                                   *)

(* A file is of one program or of none, and whoever creates tables has     *)
(* found its own version or no table.                                      *)
ReceiverPlaces ==
    /\ v1 = 1 <=> v2 = "ours"
    /\ v1 = 2 => v2 = "foreign"
    /\ \A r \in Receivers :
        /\ v4[r] = "creating" => v1 = 1 \/ v2 = "none"
        /\ v4[r] = "serving" => v1 = 1

(* The last answer is to a request with a key.                             *)
ReceiverAnswered == v5 # Null => v5.delivery.event_key \in Receiver!Keys

(* The inductive invariant of the receiver.                                *)
ReceiverInv ==
    /\ Receiver!TypeOK /\ ReceiverPlaces /\ ReceiverAnswered
    /\ Receiver!AnswerTrue /\ Receiver!KeyNamesFacts

(* An empty row is neither a status nor facts.                             *)
LEMMA ReceiverNulls == Null \notin Nat /\ Null \notin Receiver!Facts
BY ComponentsAssumption DEF Receiver!ReceiverAssumption

(* The inbox starts empty.                                                 *)
LEMMA ReceiverInit == Receiver!Init => ReceiverInv
<1> SUFFICES ASSUME Receiver!Init PROVE ReceiverInv
  OBVIOUS
<1>1. Receiver!TypeOK
  BY ComponentsAssumption DEF Receiver!Init, Receiver!TypeOK, Receiver!ReceiverAssumption
<1>2. ReceiverPlaces /\ ReceiverAnswered
  BY DEF Receiver!Init, ReceiverPlaces, ReceiverAnswered
<1>3. Receiver!AnswerTrue /\ Receiver!KeyNamesFacts
  BY DEF Receiver!Init, Receiver!AnswerTrue, Receiver!KeyNamesFacts
<1>4. QED  BY <1>1, <1>2, <1>3 DEF ReceiverInv

(* Whatever else is wrong with a request, it names a key and an outpoint.  *)
LEMMA DeliveryShape ==
    ASSUME NEW d \in Receiver!Deliveries
    PROVE  d.event_key \in Receiver!Keys /\ d.outpoint \in Events
<1>1. CASE d \in Receiver!Wellformed
  BY <1>1 DEF Receiver!Wellformed
<1>2. CASE d \notin Receiver!Wellformed
  <2>1. PICK w \in Receiver!Wellformed :
           d \in {[w EXCEPT !.schema_version = 2], [w EXCEPT !.id = 0],
                  [w EXCEPT !.kind = "test"], [w EXCEPT !.address = "other"],
                  [w EXCEPT !.amount = 0], [w EXCEPT !.amount = MaxInteger + 1]}
    BY <1>2 DEF Receiver!Deliveries
  <2>2. w.event_key \in Receiver!Keys /\ w.outpoint \in Events
    BY DEF Receiver!Wellformed
  <2>3. d.event_key = w.event_key /\ d.outpoint = w.outpoint
    BY <2>1 DEF Receiver!Wellformed
  <2>4. QED  BY <2>2, <2>3
<1>3. QED  BY <1>1, <1>2

(* What a step does to the rows: nothing, or it fills an empty one with    *)
(* facts that its key names.                                               *)
LEMMA ReceiverStore ==
    ASSUME ReceiverInv, NEW header, NEW d \in Receiver!Deliveries,
           Receiver!Valid(header, d), Receiver!Store(d)
    PROVE  LET key == d.event_key IN
           /\ Receiver!FactsOf(d) \in Receiver!Facts
           /\ key = <<Receiver!FactsOf(d).kind, Receiver!FactsOf(d).outpoint>>
           /\ v3' \in [Receiver!Keys -> Receiver!Facts \cup {Null}]
           /\ \A k \in Receiver!Keys : v3[k] # Null => v3'[k] = v3[k]
           /\ \A k \in Receiver!Keys : k # key => v3'[k] = v3[k]
           /\ v3'[key] = IF v3[key] = Null THEN Receiver!FactsOf(d) ELSE v3[key]
<1>1. d.event_key \in Receiver!Keys /\ d.outpoint \in Events
  BY DeliveryShape
<1>2. /\ Receiver!FactsOf(d) \in Receiver!Facts
      /\ d.event_key = <<Receiver!FactsOf(d).kind, Receiver!FactsOf(d).outpoint>>
  BY <1>1 DEF Receiver!Valid, Receiver!FactsOf, Receiver!Facts
<1>3. v3 \in [Receiver!Keys -> Receiver!Facts \cup {Null}]
  BY DEF ReceiverInv, Receiver!TypeOK
<1>4. v3' = IF v3[d.event_key] = Null
            THEN [v3 EXCEPT ![d.event_key] = Receiver!FactsOf(d)] ELSE v3
  BY DEF Receiver!Store
<1>5. QED  BY <1>1, <1>2, <1>3, <1>4

(* A delivery is stored under its own key before it is answered.           *)
LEMMA ReceiverStep ==
    ReceiverInv /\ Receiver!Next => ReceiverInv' /\ Receiver!RowsKept
<1> SUFFICES ASSUME ReceiverInv, Receiver!Next PROVE ReceiverInv' /\ Receiver!RowsKept
  OBVIOUS
<1>1. PICK r \in Receivers :
        \/ Receiver!CheckVersion(r) \/ Receiver!CheckTable(r)
        \/ Receiver!CreateTables(r) \/ Receiver!Kill(r)
        \/ \E d \in Receiver!Deliveries : \E header \in {d.event_key, Null} :
              Receiver!Receive(r, header, d)
  BY DEF Receiver!Next
<1>2. CASE \/ Receiver!CheckVersion(r) \/ Receiver!CheckTable(r)
           \/ Receiver!CreateTables(r) \/ Receiver!Kill(r)
  <2>1. UNCHANGED <<v3, v5>>
    BY <1>2 DEF Receiver!CheckVersion, Receiver!CheckTable, Receiver!CreateTables,
                Receiver!Kill, Receiver!database
  <2>2. Receiver!AnswerTrue' /\ Receiver!KeyNamesFacts' /\ ReceiverAnswered'
    BY <2>1 DEF ReceiverInv, Receiver!AnswerTrue, Receiver!KeyNamesFacts, ReceiverAnswered
  <2>3. Receiver!RowsKept
    BY <2>1 DEF Receiver!RowsKept
  <2>4. Receiver!TypeOK'
    <3>1. v4' \in [Receivers -> {"off", "unversioned", "creating", "serving"}]
      BY <1>2 DEF ReceiverInv, Receiver!TypeOK, Receiver!CheckVersion,
            Receiver!CheckTable, Receiver!CreateTables, Receiver!Kill, Receiver!Goto
    <3>2. v1' \in {1, 2, Null} /\ v2' \in {"ours", "foreign", "none"}
      BY <1>2 DEF ReceiverInv, Receiver!TypeOK, Receiver!CheckVersion,
            Receiver!CheckTable, Receiver!CreateTables, Receiver!Kill, Receiver!database
    <3>3. v6' \in 0 .. MaxCrashes
      <4>1. v6' = v6 \/ (v6 < MaxCrashes /\ v6' = v6 + 1)
        BY <1>2 DEF Receiver!CheckVersion, Receiver!CheckTable,
                    Receiver!CreateTables, Receiver!Kill, Receiver!database
      <4>2. v6 \in 0 .. MaxCrashes /\ MaxCrashes \in Nat
        BY ComponentsAssumption DEF ReceiverInv, Receiver!TypeOK, Receiver!ReceiverAssumption
      <4>3. QED  BY <4>1, <4>2
    <3>4. QED  BY <2>1, <3>1, <3>2, <3>3 DEF ReceiverInv, Receiver!TypeOK
  <2>5. ReceiverPlaces'
    BY <1>2, ReceiverNulls DEF ReceiverInv, ReceiverPlaces, Receiver!TypeOK,
          Receiver!CheckVersion, Receiver!CheckTable, Receiver!CreateTables,
          Receiver!Kill, Receiver!database, Receiver!Goto
  <2>6. QED  BY <2>2, <2>3, <2>4, <2>5 DEF ReceiverInv
<1>3. CASE \E d \in Receiver!Deliveries : \E header \in {d.event_key, Null} :
              Receiver!Receive(r, header, d)
  <2>0. PICK d \in Receiver!Deliveries : \E header : Receiver!Receive(r, header, d)
    BY <1>3
  <2>1. PICK header : Receiver!Receive(r, header, d)
    BY <2>0
  <2>2. UNCHANGED <<v1, v2, v4, v6>>
    BY <2>1 DEF Receiver!Receive
  <2>3. ReceiverPlaces'
    BY <2>2 DEF ReceiverInv, ReceiverPlaces
  <2>4. CASE Receiver!Valid(header, d)
    <3>1. /\ v5' = [delivery |-> d, status |-> Receiver!Outcome(d)]
          /\ Receiver!Store(d)
      BY <2>1, <2>4 DEF Receiver!Receive
    <3>2. d.event_key \in Receiver!Keys
      BY DeliveryShape
    <3>3. ReceiverAnswered'
      BY <3>1, <3>2 DEF ReceiverAnswered
    <3>4. Receiver!TypeOK'
      BY <2>2, <2>4, <3>1, ReceiverStore DEF ReceiverInv, Receiver!TypeOK
    <3>5. Receiver!RowsKept
      BY <2>4, <3>1, ReceiverStore DEF Receiver!RowsKept
    <3>6. Receiver!KeyNamesFacts'
      BY <2>4, <3>1, ReceiverStore DEF ReceiverInv, Receiver!KeyNamesFacts
    <3>7. Receiver!AnswerTrue'
      <4>1. /\ v5'.delivery = d
            /\ v5'.status = Receiver!Outcome(d)
        BY <3>1
      <4>2. v3'[d.event_key] = IF v3[d.event_key] = Null
                               THEN Receiver!FactsOf(d) ELSE v3[d.event_key]
        BY <2>4, <3>1, ReceiverStore
      <4>3. QED  BY <4>1, <4>2 DEF Receiver!AnswerTrue, Receiver!Outcome
    <3>8. QED  BY <2>3, <3>3, <3>4, <3>5, <3>6, <3>7 DEF ReceiverInv
  <2>5. CASE ~Receiver!Valid(header, d)
    <3>1. v5' = [delivery |-> d, status |-> "bad request"] /\ UNCHANGED v3
      BY <2>1, <2>5 DEF Receiver!Receive
    <3>2. ReceiverAnswered' /\ Receiver!AnswerTrue'
      BY <3>1, DeliveryShape DEF ReceiverAnswered, Receiver!AnswerTrue
    <3>3. Receiver!TypeOK' /\ Receiver!RowsKept /\ Receiver!KeyNamesFacts'
      BY <2>2, <3>1 DEF ReceiverInv, Receiver!TypeOK, Receiver!RowsKept,
                        Receiver!KeyNamesFacts
    <3>4. QED  BY <2>3, <3>2, <3>3 DEF ReceiverInv
  <2>6. QED  BY <2>4, <2>5
<1>4. QED  BY <1>1, <1>2, <1>3

(* A stutter of the registers, and of the component.                       *)
LEMMA ReceiverStutter ==
    ReceiverInv /\ UNCHANGED all => ReceiverInv' /\ Receiver!RowsKept
BY DEF all, None, ReceiverInv, ReceiverPlaces, ReceiverAnswered, Receiver!TypeOK,
       Receiver!AnswerTrue, Receiver!KeyNamesFacts, Receiver!RowsKept

-----------------------------------------------------------------------------
(* The ledger file.                                                        *)

(* The schemas before the current one.                                     *)
V1 == SchemaOf!Schema(1, TRUE, FALSE, FALSE)
V2 == SchemaOf!Schema(2, TRUE, TRUE, FALSE)

(* A migration that is about to run was right when the version was read,   *)
(* and since then the file can only have moved on.                         *)
MigrationsAhead ==
    \A p \in Programs :
        /\ v2[p] = "v1" => v1 \in {V1, V2, SchemaOf!Current}
        /\ v2[p] = "v2" => v1 \in {V2, SchemaOf!Current}

(* The inductive invariant of the ledger file.                             *)
SchemaInv == SchemaOf!TypeOK /\ SchemaOf!VersionTrue /\ MigrationsAhead

(* What is assumed of the bounds.                                          *)
LEMMA SchemaBounds == MaxKills \in Nat /\ Null \notin Nat
BY ComponentsAssumption DEF SchemaOf!LedgerSchemaAssumption

(* Schemas are records of a version and of what it has.                    *)
LEMMA SchemasTyped ==
    SchemaOf!Schemas \subseteq
        [version : 1 .. SchemaOf!SCHEMA_VERSION + 1 \cup {Null}, tables : BOOLEAN,
         leases : BOOLEAN, retries : BOOLEAN]
BY DEF SchemaOf!Schemas, SchemaOf!Schema, SchemaOf!Current, SchemaOf!SCHEMA_VERSION

(* A file that one of the versions left.                                   *)
LEMMA SchemaInit == SchemaOf!Init => SchemaInv
<1> SUFFICES ASSUME SchemaOf!Init PROVE SchemaInv
  OBVIOUS
<1>1. SchemaOf!TypeOK
  BY SchemasTyped, SchemaBounds DEF SchemaOf!Init, SchemaOf!TypeOK
<1>2. SchemaOf!VersionTrue /\ MigrationsAhead
  BY DEF SchemaOf!Init, SchemaOf!VersionTrue, MigrationsAhead
<1>3. QED  BY <1>1, <1>2 DEF SchemaInv

(* Where the file goes: an empty one is filled, an older one is migrated   *)
(* by one version at a time, and others stay.                              *)
LEMMA SchemaMoves ==
    ASSUME SchemaInv, SchemaOf!Next
    PROVE  \/ v1' = v1
           \/ ~v1.tables /\ v1' \in {V1, V2, SchemaOf!Current}
           \/ v1 = V1 /\ v1' = V2
           \/ v1 = V2 /\ v1' = SchemaOf!Current
<1> USE SchemaBounds DEF V1, V2, SchemaOf!Schema, SchemaOf!Current, SchemaOf!SCHEMA_VERSION
<1>1. v1 \in SchemaOf!Schemas
  BY DEF SchemaInv, SchemaOf!VersionTrue
<1>2. CASE SchemaOf!OldProgram
  BY <1>2 DEF SchemaOf!OldProgram
<1>3. ASSUME NEW p \in Programs, SchemaOf!Open(p) \/ SchemaOf!Kill(p)
      PROVE  \/ v1' = v1
             \/ ~v1.tables /\ v1' \in {V1, V2, SchemaOf!Current}
             \/ v1 = V1 /\ v1' = V2
             \/ v1 = V2 /\ v1' = SchemaOf!Current
  <2>1. CASE SchemaOf!migrate_v1_to_v2(p)
    <3>1. v1 \in {V1, V2, SchemaOf!Current}
      BY <2>1 DEF SchemaOf!migrate_v1_to_v2, SchemaInv, MigrationsAhead
    <3>2. QED  BY <2>1, <3>1 DEF SchemaOf!migrate_v1_to_v2
  <2>2. CASE SchemaOf!migrate_v2_to_v3(p)
    <3>1. v1 \in {V2, SchemaOf!Current}
      BY <2>2 DEF SchemaOf!migrate_v2_to_v3, SchemaInv, MigrationsAhead
    <3>2. QED  BY <2>2, <3>1 DEF SchemaOf!migrate_v2_to_v3
  <2>3. CASE SchemaOf!Create(p)
    <3>1. CASE v1.tables
      <4>1. v1' = v1 \/ (v1.retries /\ v1' = [v1 EXCEPT !.version = SchemaOf!Stamp(@)])
        BY <2>3, <3>1 DEF SchemaOf!Create
      <4>2. v1.retries => v1.version \in Nat
        BY <1>1, <3>1 DEF SchemaOf!Schemas
      <4>3. v1.version \in Nat => [v1 EXCEPT !.version = SchemaOf!Stamp(@)] = v1
        BY <1>1, SchemasTyped DEF SchemaOf!Stamp
      <4>4. QED  BY <4>1, <4>2, <4>3
    <3>2. CASE ~v1.tables
      BY <1>1, <2>3, <3>2 DEF SchemaOf!Create, SchemaOf!Schemas, SchemaOf!Stamp
    <3>3. QED  BY <3>1, <3>2
  <2>4. QED
    BY <1>3, <2>1, <2>2, <2>3 DEF SchemaOf!Open, SchemaOf!ReadVersion,
          SchemaOf!CheckTables, SchemaOf!Verify, SchemaOf!Again, SchemaOf!Kill
<1>4. QED  BY <1>2, <1>3 DEF SchemaOf!Next

(* Where the programs go.                                                  *)
LEMMA SchemaPlaces ==
    ASSUME SchemaInv, SchemaOf!Next
    PROVE  /\ v2' \in [Programs -> {"start", "unversioned", "v1", "v2", "create",
                                    "verify", "open", "error"}]
           /\ v3' \in 0 .. MaxKills
           /\ \A q \in Programs :
                /\ v2'[q] = "v1" => v2[q] = "v1" \/ (v1.version = 1 /\ v1' = v1)
                /\ v2'[q] = "v2" => \/ v2[q] = "v2"
                                    \/ v1.version = 2 /\ v1' = v1
                                    \/ v1' = V2
<1>1. /\ v2 \in [Programs -> {"start", "unversioned", "v1", "v2", "create",
                              "verify", "open", "error"}]
      /\ v3 \in 0 .. MaxKills
  BY DEF SchemaInv, SchemaOf!TypeOK
<1>2. CASE SchemaOf!OldProgram
  BY <1>1, <1>2 DEF SchemaOf!OldProgram
<1>3. ASSUME NEW p \in Programs, SchemaOf!Open(p)
      PROVE  /\ \E place \in {"start", "unversioned", "v1", "v2", "create",
                              "verify", "open", "error"} :
                   /\ v2' = [v2 EXCEPT ![p] = place]
                   /\ place = "v1" => v1.version = 1 /\ v1' = v1
                   /\ place = "v2" => \/ v1.version = 2 /\ v1' = v1
                                      \/ v1' = V2
             /\ v3' = v3
  <2>1. CASE SchemaOf!ReadVersion(p)
    BY <2>1 DEF SchemaOf!ReadVersion, SchemaOf!Goto
  <2>2. CASE SchemaOf!migrate_v1_to_v2(p)
    <3>1. v1 \in {V1, V2, SchemaOf!Current}
      BY <2>2 DEF SchemaOf!migrate_v1_to_v2, SchemaInv, MigrationsAhead
    <3>2. QED
      BY <2>2, <3>1 DEF SchemaOf!migrate_v1_to_v2, SchemaOf!Goto, V1, V2,
                        SchemaOf!Schema, SchemaOf!Current
  <2>3. QED
    BY <1>3, <2>1, <2>2 DEF SchemaOf!Open, SchemaOf!CheckTables,
          SchemaOf!migrate_v2_to_v3, SchemaOf!Create, SchemaOf!Verify, SchemaOf!Again,
          SchemaOf!Goto
<1>4. ASSUME NEW p \in Programs, SchemaOf!Kill(p)
      PROVE  v2' = [v2 EXCEPT ![p] = "start"] /\ v3' \in 0 .. MaxKills
  BY <1>1, <1>4, SchemaBounds DEF SchemaOf!Kill
<1>5. CASE \E p \in Programs : SchemaOf!Open(p)
  <2>1. PICK p \in Programs : SchemaOf!Open(p)
    BY <1>5
  <2>2. PICK place \in {"start", "unversioned", "v1", "v2", "create",
                        "verify", "open", "error"} :
           /\ v2' = [v2 EXCEPT ![p] = place]
           /\ place = "v1" => v1.version = 1 /\ v1' = v1
           /\ place = "v2" => \/ v1.version = 2 /\ v1' = v1
                              \/ v1' = V2
    BY <2>1, <1>3
  <2>3. v3' = v3
    BY <2>1, <1>3
  <2>4. QED  BY <1>1, <2>2, <2>3
<1>6. CASE \E p \in Programs : SchemaOf!Kill(p)
  BY <1>1, <1>4, <1>6
<1>7. QED  BY <1>2, <1>5, <1>6 DEF SchemaOf!Next

(* A program that opens the file moves it by whole versions.               *)
LEMMA SchemaStep == SchemaInv /\ SchemaOf!Next => SchemaInv'
<1> SUFFICES ASSUME SchemaInv, SchemaOf!Next PROVE SchemaInv'
  OBVIOUS
<1>1. v1 \in SchemaOf!Schemas
  BY DEF SchemaInv, SchemaOf!VersionTrue
<1>2. /\ {V1, V2, SchemaOf!Current} \subseteq SchemaOf!Schemas
      /\ v1.version = 1 => v1 = V1
      /\ v1.version = 2 => v1 = V2
      /\ ~V1.leases /\ V2.leases /\ ~V2.retries /\ SchemaOf!Current.retries
      /\ V1.tables /\ V2.tables /\ SchemaOf!Current.tables
  BY <1>1, SchemaBounds DEF V1, V2, SchemaOf!Schemas, SchemaOf!Schema,
        SchemaOf!Current, SchemaOf!SCHEMA_VERSION
<1>3. \/ v1' = v1
      \/ ~v1.tables /\ v1' \in {V1, V2, SchemaOf!Current}
      \/ v1 = V1 /\ v1' = V2
      \/ v1 = V2 /\ v1' = SchemaOf!Current
  BY SchemaMoves
<1>4. SchemaOf!VersionTrue'
  BY <1>1, <1>2, <1>3 DEF SchemaOf!VersionTrue, SchemaOf!Schemas, SchemaOf!Schema,
        SchemaOf!Current
<1>5. SchemaOf!TypeOK'
  BY <1>4, SchemasTyped, SchemaPlaces DEF SchemaOf!TypeOK, SchemaOf!VersionTrue
<1>6. MigrationsAhead'
  <2> SUFFICES ASSUME NEW p \in Programs
               PROVE  /\ v2'[p] = "v1" => v1' \in {V1, V2, SchemaOf!Current}
                      /\ v2'[p] = "v2" => v1' \in {V2, SchemaOf!Current}
    BY DEF MigrationsAhead, V1, V2, SchemaOf!Schema, SchemaOf!Current
  <2>1. /\ v2[p] = "v1" => v1 \in {V1, V2, SchemaOf!Current}
        /\ v2[p] = "v2" => v1 \in {V2, SchemaOf!Current}
    BY DEF SchemaInv, MigrationsAhead
  <2>2. /\ v2'[p] = "v1" => v2[p] = "v1" \/ (v1.version = 1 /\ v1' = v1)
        /\ v2'[p] = "v2" => \/ v2[p] = "v2"
                            \/ v1.version = 2 /\ v1' = v1
                            \/ v1' = V2
    BY SchemaPlaces
  <2>3. QED  BY <1>2, <1>3, <2>1, <2>2
<1>7. QED  BY <1>4, <1>5, <1>6 DEF SchemaInv

(* The other components leave the file alone.                              *)
LEMMA SchemaStutter == SchemaInv /\ UNCHANGED all => SchemaInv'
BY DEF all, None, SchemaInv, SchemaOf!TypeOK, SchemaOf!VersionTrue, MigrationsAhead

-----------------------------------------------------------------------------
(* The HTTP API.                                                           *)

(* What a request in progress is.                                          *)
Requests == [pc : {"idle", "authorized", "admitted", "started", "truncated"},
             route : Api!Routes, list : Bodies \cup {Null}]

(* Whoever is not idle while the gate is green has seen it green.          *)
GreenSeen ==
    v2 = "green" =>
        /\ v1.urls >= v1.min
        /\ \A c \in Clients : v6[c].pc # "idle" => c \in v10

(* A write in progress is of a checked list to a file that is there;       *)
(* undisturbed it is the only one, and has the file it emptied to itself.  *)
WritesApart ==
    \A c \in Clients : v6[c].pc = "truncated" =>
        /\ v6[c].list \in Api!Lists /\ v5 \in Api!Texts
        /\ ~v12 => /\ v5 = [text |-> Null, length |-> 0]
                   /\ \A d \in Clients : v6[d].pc = "truncated" => d = c

(* A request that passed its key has no answer yet.                        *)
NotYetAnswered ==
    \A c \in Clients : v6[c].pc = "authorized" => v7[c] = Null

(* The inductive invariant of the API.                                     *)
ApiInv ==
    /\ Api!TypeOK /\ v11 \in [Events -> Nat] /\ DOMAIN v7 = Clients
    /\ GreenSeen /\ Api!FailClosed
    /\ Api!AcknowledgedOnce
    /\ WritesApart /\ Api!QuietFileWhole
    /\ NotYetAnswered

(* What is assumed of the constants of the API.                            *)
LEMMA ApiConstants ==
    /\ MaxRequests \in Nat /\ Null \notin Bodies /\ Null \notin Api!Lists
    /\ "pending" \notin Clients /\ "acknowledged" \notin Clients
BY ComponentsAssumption DEF Api!IntegratorApiAssumption, Api!Lists

(* The types that the invariant gives.                                     *)
LEMMA ApiTypes ==
    ASSUME ApiInv
    PROVE  /\ v6 \in [Clients -> Requests]
           /\ v3 \in [Events -> {"pending", "acknowledged"} \cup Clients]
           /\ v8 \in [Clients -> {"none", "started"} \cup Events]
           /\ v11 \in [Events -> Nat] /\ DOMAIN v7 = Clients
           /\ v9 \in 0 .. MaxRequests /\ v10 \subseteq Clients
           /\ v4 \in BOOLEAN /\ v12 \in BOOLEAN
           /\ v5 \in Api!Texts \cup {Null}
           /\ v2 \in {"green", "red", "unknown"}
BY DEF ApiInv, Api!TypeOK, Requests

(* The API starts idle.                                                    *)
LEMMA ApiInit == Api!Init => ApiInv
<1> SUFFICES ASSUME Api!Init PROVE ApiInv
  OBVIOUS
<1>1. Api!Idle \in Requests
  BY DEF Api!Idle, Requests, Api!Routes, Api!Custody
<1>2. v6 \in [Clients -> Requests] /\ \A c \in Clients : v6[c].pc = "idle"
  BY <1>1 DEF Api!Init, Api!Idle
<1>3. v2 \in {"green", "red", "unknown"} /\ (v2 = "green" => v1.urls >= v1.min)
  BY DEF Api!Init, Api!Findings
<1>4. Api!TypeOK
  <2>1. v3 \in [Events -> {"pending", "acknowledged"} \cup Clients]
    BY DEF Api!Init
  <2>2. v8 \in [Clients -> {"none", "started"} \cup Events]
    BY DEF Api!Init
  <2>3. v4 \in BOOLEAN /\ v5 \in Api!Texts \cup {Null} /\ v12 \in BOOLEAN
    BY DEF Api!Init
  <2>4. v9 \in 0 .. MaxRequests /\ v10 \subseteq Clients
    BY ApiConstants DEF Api!Init
  <2>5. QED  BY <1>2, <1>3, <2>1, <2>2, <2>3, <2>4 DEF Api!TypeOK, Requests
<1>5. GreenSeen /\ Api!FailClosed /\ WritesApart /\ NotYetAnswered
  BY <1>2, <1>3 DEF GreenSeen, Api!FailClosed, WritesApart, NotYetAnswered
<1>6. Api!AcknowledgedOnce /\ v11 \in [Events -> Nat] /\ DOMAIN v7 = Clients
  BY DEF Api!Init, Api!AcknowledgedOnce
<1>7. Api!QuietFileWhole
  BY DEF Api!Init, Api!QuietFileWhole
<1>8. QED  BY <1>4, <1>5, <1>6, <1>7 DEF ApiInv

-----------------------------------------------------------------------------
(* What events, acknowledgements and processes may become.                 *)
EventsKept ==
    /\ v3' \in [Events -> {"pending", "acknowledged"} \cup Clients]
    /\ v8' \in [Clients -> {"none", "started"} \cup Events]
    /\ v11' \in [Events -> Nat]
    /\ Api!AcknowledgedOnce'

(* Steps of the watchlist leave the events alone.                          *)
LEMMA EventsUntouched ==
    ASSUME ApiInv, UNCHANGED <<v3, v8, v11>> PROVE EventsKept
BY ApiTypes DEF EventsKept, ApiInv, Api!AcknowledgedOnce

(* A step that touches events and processes only.                          *)
LEMMA ProcessStep ==
    ASSUME ApiInv, EventsKept, UNCHANGED <<v1, v2, v4, v5, v6, v7, v9, v10, v12>>
    PROVE  ApiInv' /\ Api!ServesLists
<1>1. Api!TypeOK'
  BY DEF ApiInv, Api!TypeOK, EventsKept, Requests, Api!Texts, Api!Lists
<1>2. /\ GreenSeen' /\ Api!FailClosed' /\ WritesApart' /\ Api!QuietFileWhole'
      /\ NotYetAnswered'
  BY DEF ApiInv, GreenSeen, Api!FailClosed, WritesApart, Api!QuietFileWhole, NotYetAnswered
<1>3. Api!ServesLists
  BY DEF ApiInv, NotYetAnswered, Api!ServesLists
<1>4. QED  BY <1>1, <1>2, <1>3 DEF ApiInv, EventsKept

(* A request that is not in the middle of a write is answered.             *)
LEMMA ReplyStep ==
    ASSUME ApiInv, EventsKept, NEW c \in Clients, NEW status, NEW body,
           Api!Reply(c, status, body),
           v6[c].pc # "truncated", v4' \in BOOLEAN,
           UNCHANGED <<v1, v2, v5, v9, v10, v12>>,
           v6[c].pc = "authorized" /\ status = 200 /\ v6[c].route \in {"get", "summary"}
             => body \in Api!Lists \/ v5 = Null
    PROVE  ApiInv' /\ Api!ServesLists
<1>1. /\ v6' \in [Clients -> Requests] /\ DOMAIN v7' = Clients
      /\ v6'[c].pc = "idle"
      /\ v7'[c] = [status |-> status, body |-> body, route |-> v6[c].route]
      /\ \A d \in Clients : d # c => v6'[d] = v6[d] /\ v7'[d] = v7[d]
  BY ApiTypes DEF Api!Reply, Api!Idle, Requests, Api!Routes, Api!Custody
<1>2. Api!TypeOK'
  BY <1>1, ApiTypes DEF Api!TypeOK, EventsKept, Requests, Api!Texts, Api!Lists
<1>3. GreenSeen' /\ Api!FailClosed'
  BY <1>1 DEF ApiInv, GreenSeen, Api!FailClosed
<1>4. WritesApart'
  BY <1>1 DEF ApiInv, WritesApart
<1>5. Api!QuietFileWhole'
  BY <1>1 DEF ApiInv, Api!QuietFileWhole
<1>6. NotYetAnswered'
  BY <1>1 DEF ApiInv, NotYetAnswered
<1>7. Api!ServesLists
  <2> SUFFICES ASSUME NEW d \in Clients, v6[d].pc = "authorized", v7'[d] # Null,
                      v7'[d].status = 200, v7'[d].route \in {"get", "summary"}
               PROVE  v7'[d].body \in Api!Lists \/ v5 = Null
    BY DEF Api!ServesLists
  <2>1. d = c
    BY <1>1 DEF ApiInv, NotYetAnswered
  <2>2. QED  BY <1>1, <2>1
<1>8. QED  BY <1>1, <1>2, <1>3, <1>4, <1>5, <1>6, <1>7 DEF ApiInv, EventsKept

(* A request passes the gate, or starts a process.                         *)
LEMMA GotoStep ==
    ASSUME ApiInv, EventsKept, NEW c \in Clients, NEW where \in {"admitted", "started"},
           Api!Goto(c, where),
           v6[c].pc \in {"authorized", "admitted"},
           v1.require => c \in v10 /\ v1.urls >= v1.min,
           UNCHANGED <<v1, v2, v4, v5, v7, v9, v10, v12>>
    PROVE  ApiInv' /\ Api!ServesLists
<1>1. /\ v6' \in [Clients -> Requests]
      /\ v6'[c].pc = where
      /\ \A d \in Clients : d # c => v6'[d] = v6[d]
  BY ApiTypes DEF Api!Goto, Requests
<1>2. Api!TypeOK'
  BY <1>1, ApiTypes DEF Api!TypeOK, EventsKept, Requests, Api!Texts, Api!Lists
<1>3. GreenSeen' /\ Api!FailClosed'
  BY <1>1 DEF ApiInv, GreenSeen, Api!FailClosed
<1>4. WritesApart'
  BY <1>1 DEF ApiInv, WritesApart
<1>5. Api!QuietFileWhole'
  BY <1>1 DEF ApiInv, Api!QuietFileWhole
<1>6. NotYetAnswered' /\ Api!ServesLists
  BY <1>1 DEF ApiInv, NotYetAnswered, Api!ServesLists
<1>7. QED  BY <1>1, <1>2, <1>3, <1>4, <1>5, <1>6 DEF ApiInv, EventsKept

-----------------------------------------------------------------------------
(* A request arrives, with a key or without.                               *)
LEMMA ApiArrive ==
    ASSUME ApiInv, NEW c \in Clients, Api!Arrive(c) PROVE ApiInv' /\ Api!ServesLists
<1> USE DEF Api!Arrive, Api!stores, Api!ghosts
<1>1. EventsKept
  BY EventsUntouched
<1>2. v9' \in 0 .. MaxRequests
  BY ApiTypes, ApiConstants
<1>3. PICK route \in Api!Routes :
        \/ \E list \in Bodies \cup {Null} :
              /\ v6' = [v6 EXCEPT ![c] = [pc |-> "authorized", route |-> route,
                                          list |-> list]]
              /\ v10' = (IF v2 = "green" THEN v10 \cup {c} ELSE v10 \ {c})
              /\ v7' = [v7 EXCEPT ![c] = Null]
        \/ /\ v7' = [v7 EXCEPT ![c] = [status |-> 401, body |-> Null, route |-> route]]
           /\ UNCHANGED <<v6, v10>>
  OBVIOUS
<1>4. CASE /\ v7' = [v7 EXCEPT ![c] = [status |-> 401, body |-> Null, route |-> route]]
           /\ UNCHANGED <<v6, v10>>
  <2>1. DOMAIN v7' = Clients /\ v6' = v6 /\ v10' = v10 /\ v6[c].pc = "idle"
        /\ \A d \in Clients : d # c => v7'[d] = v7[d]
    BY <1>4, ApiTypes
  <2>2. Api!TypeOK'
    BY <2>1, <1>1, <1>2, ApiTypes DEF Api!TypeOK, EventsKept, Requests, Api!Texts, Api!Lists
  <2>3. GreenSeen' /\ Api!FailClosed' /\ WritesApart' /\ Api!QuietFileWhole'
    BY <2>1 DEF ApiInv, GreenSeen, Api!FailClosed, WritesApart, Api!QuietFileWhole
  <2>4. NotYetAnswered' /\ Api!ServesLists
    BY <2>1 DEF ApiInv, NotYetAnswered, Api!ServesLists
  <2>5. QED  BY <1>1, <2>1, <2>2, <2>3, <2>4 DEF ApiInv, EventsKept
<1>5. CASE \E list \in Bodies \cup {Null} :
              /\ v6' = [v6 EXCEPT ![c] = [pc |-> "authorized", route |-> route,
                                          list |-> list]]
              /\ v10' = (IF v2 = "green" THEN v10 \cup {c} ELSE v10 \ {c})
              /\ v7' = [v7 EXCEPT ![c] = Null]
  <2>1. /\ v6' \in [Clients -> Requests] /\ DOMAIN v7' = Clients
        /\ v6[c].pc = "idle" /\ v6'[c].pc = "authorized" /\ v7'[c] = Null
        /\ \A d \in Clients : d # c => v6'[d] = v6[d] /\ v7'[d] = v7[d]
        /\ v10' \subseteq Clients
        /\ v2 = "green" => c \in v10'
        /\ \A d \in Clients : d # c => (d \in v10' <=> d \in v10)
    BY <1>5, ApiTypes DEF Requests
  <2>2. Api!TypeOK'
    BY <2>1, <1>1, <1>2, ApiTypes DEF Api!TypeOK, EventsKept, Requests, Api!Texts, Api!Lists
  <2>3. GreenSeen' /\ Api!FailClosed'
    BY <2>1 DEF ApiInv, GreenSeen, Api!FailClosed
  <2>4. WritesApart'
    BY <2>1 DEF ApiInv, WritesApart
  <2>5. Api!QuietFileWhole'
    BY <2>1 DEF ApiInv, Api!QuietFileWhole
  <2>6. NotYetAnswered' /\ Api!ServesLists
    BY <2>1 DEF ApiInv, NotYetAnswered, Api!ServesLists
  <2>7. QED  BY <1>1, <2>1, <2>2, <2>3, <2>4, <2>5, <2>6 DEF ApiInv, EventsKept
<1>6. QED  BY <1>3, <1>4, <1>5

(* The gate turns green only with enough nodes configured.                 *)
LEMMA ApiGateChanges ==
    ASSUME ApiInv, Api!GateChanges PROVE ApiInv' /\ Api!ServesLists
<1> USE DEF Api!GateChanges, Api!stores, Api!ghosts
<1>1. EventsKept
  BY EventsUntouched
<1>2. /\ v2' \in {"green", "red", "unknown"}
      /\ v2' = "green" => v1.urls >= v1.min
      /\ v10' \subseteq Clients /\ v10 \subseteq v10'
      /\ v2' = "green" => \A c \in Clients : v6[c].pc # "idle" => c \in v10'
  BY ApiTypes DEF Api!Findings
<1>3. Api!TypeOK'
  BY <1>1, <1>2, ApiTypes DEF Api!TypeOK, EventsKept, Requests, Api!Texts, Api!Lists
<1>4. GreenSeen' /\ Api!FailClosed'
  BY <1>2 DEF ApiInv, GreenSeen, Api!FailClosed
<1>5. WritesApart' /\ Api!QuietFileWhole' /\ NotYetAnswered'
  BY DEF ApiInv, WritesApart, Api!QuietFileWhole, NotYetAnswered
<1>6. Api!ServesLists
  BY DEF ApiInv, NotYetAnswered, Api!ServesLists
<1>7. QED  BY <1>1, <1>3, <1>4, <1>5, <1>6 DEF ApiInv, EventsKept

(* A restart interrupts a write at most.                                   *)
LEMMA ApiRestart ==
    ASSUME ApiInv, Api!Restart PROVE ApiInv' /\ Api!ServesLists
<1> USE DEF Api!Restart, Api!stores, Api!ghosts
<1>1. EventsKept
  BY EventsUntouched
<1>2. v6' \in [Clients -> Requests] /\ \A c \in Clients : v6'[c].pc = "idle"
  BY DEF Api!Idle, Requests, Api!Routes, Api!Custody
<1>3. v12' \in BOOLEAN
  BY ApiTypes
<1>4. Api!TypeOK'
  BY <1>1, <1>2, <1>3, ApiTypes DEF Api!TypeOK, EventsKept, Requests, Api!Texts, Api!Lists
<1>5. GreenSeen' /\ Api!FailClosed' /\ WritesApart' /\ NotYetAnswered'
  BY <1>2 DEF ApiInv, GreenSeen, Api!FailClosed, WritesApart, NotYetAnswered
<1>6. Api!QuietFileWhole'
  BY DEF ApiInv, Api!QuietFileWhole
<1>7. Api!ServesLists
  BY DEF ApiInv, NotYetAnswered, Api!ServesLists
<1>8. QED  BY <1>1, <1>4, <1>5, <1>6, <1>7 DEF ApiInv, EventsKept

(* A write begins.                                                         *)
LEMMA ApiTruncate ==
    ASSUME ApiInv, NEW c \in Clients, Api!Truncate(c) PROVE ApiInv' /\ Api!ServesLists
<1> USE DEF Api!Truncate, Api!Goto, Api!stores, Api!ghosts
<1>1. EventsKept
  BY EventsUntouched
<1>2. /\ v6' \in [Clients -> Requests]
      /\ v6[c].pc = "authorized" /\ v6[c].list \in Api!Lists
      /\ v6'[c].pc = "truncated" /\ v6'[c].list = v6[c].list
      /\ \A d \in Clients : d # c => v6'[d] = v6[d]
  BY ApiTypes DEF Requests
<1>3. v12' \in BOOLEAN /\ v5' = [text |-> Null, length |-> 0] /\ v5' \in Api!Texts
  BY ApiTypes DEF Api!Texts
<1>4. Api!TypeOK'
  BY <1>1, <1>2, <1>3, ApiTypes DEF Api!TypeOK, EventsKept, Requests, Api!Texts, Api!Lists
<1>5. GreenSeen' /\ Api!FailClosed'
  BY <1>2 DEF ApiInv, GreenSeen, Api!FailClosed
<1>6. WritesApart'
  <2>1. ~v12' => \A d \in Clients : v6[d].pc # "truncated"
    OBVIOUS
  <2>2. \A d \in Clients : v6'[d].pc = "truncated" => v6'[d].list \in Api!Lists'
    BY <1>2 DEF ApiInv, WritesApart, Api!Lists
  <2>3. QED  BY <1>2, <1>3, <2>1, <2>2 DEF WritesApart, Api!Texts, Api!Lists
<1>7. Api!QuietFileWhole'
  BY <1>2 DEF Api!QuietFileWhole
<1>8. NotYetAnswered' /\ Api!ServesLists
  BY <1>2 DEF ApiInv, NotYetAnswered, Api!ServesLists
<1>9. QED  BY <1>1, <1>4, <1>5, <1>6, <1>7, <1>8 DEF ApiInv, EventsKept

(* A write ends.                                                           *)
LEMMA ApiWrite ==
    ASSUME ApiInv, NEW c \in Clients, Api!Write(c) PROVE ApiInv' /\ Api!ServesLists
<1> DEFINE list == v6[c].list
<1> USE DEF Api!Write, Api!stores, Api!ghosts
<1>1. EventsKept
  BY EventsUntouched
<1>2. /\ v6' \in [Clients -> Requests] /\ DOMAIN v7' = Clients
      /\ v6[c].pc = "truncated" /\ v6'[c].pc = "idle"
      /\ \A d \in Clients : d # c => v6'[d] = v6[d] /\ v7'[d] = v7[d]
  BY ApiTypes DEF Api!Reply, Api!Idle, Requests, Api!Routes, Api!Custody
<1>3. list \in Api!Lists /\ Len(list) \in 1 .. 100 /\ list # Null
  BY <1>2, ApiConstants DEF ApiInv, WritesApart, Api!Lists
<1>4. ~v12 => /\ v5 = [text |-> Null, length |-> 0]
              /\ \A d \in Clients : v6[d].pc = "truncated" => d = c
  BY <1>2 DEF ApiInv, WritesApart
<1>5. v5' \in Api!Texts
  <2>1. v5.length > Len(list) => v5.length \in 0 .. 100
    BY <1>2 DEF ApiInv, WritesApart, Api!Texts
  <2>2. QED  BY <1>3, <2>1 DEF Api!WrittenOver, Api!Texts
<1>6. Api!TypeOK'
  BY <1>1, <1>2, <1>5, ApiTypes DEF Api!TypeOK, EventsKept, Requests, Api!Texts, Api!Lists
<1>7. GreenSeen' /\ Api!FailClosed'
  BY <1>2 DEF ApiInv, GreenSeen, Api!FailClosed
<1>8. WritesApart'
  <2>1. \A d \in Clients : v6'[d].pc = "truncated" =>
            d # c /\ v6[d].pc = "truncated" /\ v6'[d].list = v6[d].list
    BY <1>2
  <2>2. \A d \in Clients : v6'[d].pc = "truncated" =>
            v12 /\ v6[d].list \in Api!Lists
    BY <1>4, <2>1 DEF ApiInv, WritesApart
  <2>3. QED  BY <1>5, <2>1, <2>2 DEF WritesApart, Api!Texts, Api!Lists
<1>9. Api!QuietFileWhole'
  BY <1>3, <1>4 DEF Api!QuietFileWhole, Api!WrittenOver
<1>10. NotYetAnswered' /\ Api!ServesLists
  BY <1>2 DEF ApiInv, NotYetAnswered, Api!ServesLists
<1>11. QED  BY <1>1, <1>2, <1>6, <1>7, <1>8, <1>9, <1>10 DEF ApiInv, EventsKept

(* The handlers of a request that is neither new nor writing the file.     *)
Handler(c) ==
    \/ Api!Gate(c) \/ Api!ReadLedger(c) \/ Api!ReadWithdrawals(c) \/ Api!Ack(c)
    \/ Api!StartOutbox(c) \/ Api!OutboxExits(c)
    \/ Api!GateStatus(c) \/ Api!PilotSummary(c) \/ Api!PilotSelftest(c)
    \/ Api!GetWatchlist(c) \/ Api!RefuseList(c)

(* An outbox process takes an event, or lets go of it.                     *)
LEMMA ApiProcess ==
    ASSUME ApiInv, NEW c \in Clients, Api!OutboxClaims(c) \/ Api!OutboxSettles(c)
    PROVE  ApiInv' /\ Api!ServesLists
<1> USE DEF Api!stores, Api!ghosts
<1>1. CASE Api!OutboxClaims(c)
  <2> USE <1>1 DEF Api!OutboxClaims
  <2>1. PICK id \in Events :
          /\ v3[id] \in {"pending"} \cup Clients
          /\ v3' = [v3 EXCEPT ![id] = c] /\ v8' = [v8 EXCEPT ![c] = id]
    OBVIOUS
  <2>2. v3[id] # "acknowledged" /\ c # "acknowledged"
    BY <2>1, ApiConstants
  <2>3. EventsKept
    BY <2>1, <2>2, ApiTypes DEF ApiInv, EventsKept, Api!AcknowledgedOnce
  <2>4. QED  BY <2>3, ProcessStep
<1>2. CASE Api!OutboxSettles(c)
  <2> DEFINE id == v8[c]
  <2> USE <1>2 DEF Api!OutboxSettles
  <2>1. id \in Events
    OBVIOUS
  <2>2. CASE /\ Api!HeldByMe(c) /\ Api!Acknowledged(id)
             /\ v3' = [v3 EXCEPT ![id] = "acknowledged"]
    <3>1. v3[id] # "acknowledged"
      BY <2>2, ApiConstants DEF Api!HeldByMe
    <3>2. /\ v8' \in [Clients -> {"none", "started"} \cup Events]
          /\ v3' \in [Events -> {"pending", "acknowledged"} \cup Clients]
          /\ v3'[id] = "acknowledged" /\ \A e \in Events : e # id => v3'[e] = v3[e]
          /\ v11' \in [Events -> Nat]
          /\ v11'[id] = v11[id] + 1 /\ \A e \in Events : e # id => v11'[e] = v11[e]
      BY <2>1, <2>2, ApiTypes DEF Api!Acknowledged
    <3>3. Api!AcknowledgedOnce'
      BY <2>1, <3>1, <3>2 DEF ApiInv, Api!AcknowledgedOnce
    <3>4. EventsKept
      BY <3>2, <3>3 DEF EventsKept
    <3>5. QED  BY <3>4, ProcessStep
  <2>3. CASE /\ Api!HeldByMe(c) /\ v3' = [v3 EXCEPT ![id] = "pending"]
             /\ UNCHANGED v11
    <3>1. v3[id] # "acknowledged"
      BY <2>3, ApiConstants DEF Api!HeldByMe
    <3>2. EventsKept
      BY <2>1, <2>3, <3>1, ApiTypes DEF ApiInv, EventsKept, Api!AcknowledgedOnce
    <3>3. QED  BY <3>2, ProcessStep
  <2>4. CASE ~Api!HeldByMe(c) /\ UNCHANGED <<v3, v11>>
    <3>1. EventsKept
      BY <2>4, ApiTypes DEF ApiInv, EventsKept, Api!AcknowledgedOnce
    <3>2. QED  BY <3>1, ProcessStep
  <2>5. QED  BY <2>2, <2>3, <2>4
<1>3. QED  BY <1>1, <1>2

(* A handler answers, or lets the request go on.                           *)
LEMMA ApiHandler ==
    ASSUME ApiInv, NEW c \in Clients, Handler(c) PROVE ApiInv' /\ Api!ServesLists
<1> USE DEF Api!stores, Api!ghosts
<1>1. CASE Api!Gate(c)
  <2> USE <1>1 DEF Api!Gate
  <2>1. EventsKept
    BY EventsUntouched
  <2>2. CASE Api!Admitted /\ Api!Goto(c, "admitted") /\ UNCHANGED v7
    <3>1. v1.require => c \in v10 /\ v1.urls >= v1.min
      BY <2>2 DEF ApiInv, GreenSeen, Api!Admitted
    <3>2. QED  BY <2>1, <2>2, <3>1, GotoStep
  <2>3. CASE ~Api!Admitted /\ Api!Reply(c, IF v2 = "red" THEN 503 ELSE 400, Null)
    BY <2>1, <2>3, ApiTypes, ReplyStep DEF Api!Custody
  <2>4. QED  BY <2>2, <2>3
<1>2. CASE Api!ReadLedger(c)
  BY <1>2, EventsUntouched, ApiTypes, ReplyStep DEF Api!ReadLedger
<1>3. CASE Api!ReadWithdrawals(c)
  BY <1>3, EventsUntouched, ReplyStep DEF Api!ReadWithdrawals
<1>4. CASE Api!Ack(c)
  <2> USE <1>4 DEF Api!Ack
  <2>1. PICK id \in Events :
          \/ /\ Api!Free(id) /\ v3' = [v3 EXCEPT ![id] = "acknowledged"]
             /\ Api!Acknowledged(id) /\ Api!Reply(c, 200, Null)
          \/ ~Api!Free(id) /\ Api!Reply(c, 400, Null) /\ UNCHANGED <<v3, v11>>
    OBVIOUS
  <2>2. CASE /\ Api!Free(id) /\ v3' = [v3 EXCEPT ![id] = "acknowledged"]
             /\ Api!Acknowledged(id) /\ Api!Reply(c, 200, Null)
    <3>1. v3[id] # "acknowledged"
      BY <2>2 DEF Api!Free
    <3>2. /\ v3' \in [Events -> {"pending", "acknowledged"} \cup Clients]
          /\ v3'[id] = "acknowledged" /\ \A e \in Events : e # id => v3'[e] = v3[e]
          /\ v11' \in [Events -> Nat]
          /\ v11'[id] = v11[id] + 1 /\ \A e \in Events : e # id => v11'[e] = v11[e]
      BY <2>2, ApiTypes DEF Api!Acknowledged
    <3>3. Api!AcknowledgedOnce'
      BY <3>1, <3>2 DEF ApiInv, Api!AcknowledgedOnce
    <3>4. EventsKept
      BY <3>2, <3>3, ApiTypes DEF EventsKept
    <3>5. QED  BY <2>2, <3>4, ApiTypes, ReplyStep
  <2>3. CASE ~Api!Free(id) /\ Api!Reply(c, 400, Null) /\ UNCHANGED <<v3, v11>>
    BY <2>3, EventsUntouched, ApiTypes, ReplyStep
  <2>4. QED  BY <2>1, <2>2, <2>3
<1>5. CASE Api!StartOutbox(c)
  <2> USE <1>5 DEF Api!StartOutbox
  <2>1. EventsKept
    BY ApiTypes DEF ApiInv, EventsKept, Api!AcknowledgedOnce
  <2>2. v1.require => c \in v10 /\ v1.urls >= v1.min
    BY DEF ApiInv, Api!FailClosed
  <2>3. QED  BY <2>1, <2>2, GotoStep
<1>6. CASE Api!OutboxExits(c)
  <2> USE <1>6 DEF Api!OutboxExits
  <2>1. EventsKept
    BY ApiTypes DEF ApiInv, EventsKept, Api!AcknowledgedOnce
  <2>2. CASE v6[c].pc = "started" /\ Api!Reply(c, 200, Null)
    BY <2>1, <2>2, ApiTypes, ReplyStep
  <2>3. CASE v6[c].pc # "started" /\ UNCHANGED <<v6, v7>>
    BY <2>1, <2>3, ProcessStep
  <2>4. QED  BY <2>2, <2>3
<1>7. CASE Api!GateStatus(c)
  <2> USE <1>7 DEF Api!GateStatus
  <2>1. PICK status : Api!Reply(c, status, Null)
    OBVIOUS
  <2>2. QED  BY <2>1, EventsUntouched, ApiTypes, ReplyStep
<1>8. ASSUME Api!ReplyList(c), v6[c].pc = "authorized",
             UNCHANGED <<v1, v2, v3, v4, v5, v8, v9, v10, v11, v12>>
      PROVE  ApiInv' /\ Api!ServesLists
  <2>1. EventsKept
    BY <1>8, EventsUntouched
  <2>2. CASE /\ Api!read_watchlist.ok
             /\ Api!Reply(c, 200, Api!read_watchlist.list)
    <3>1. v5 = Null \/ Api!read_watchlist.list \in Api!Lists
      BY <2>2, ApiTypes DEF Api!read_watchlist, Api!Texts
    <3>2. QED  BY <1>8, <2>1, <2>2, <3>1, ApiTypes, ReplyStep
  <2>3. CASE Api!Reply(c, 400, Null)
    BY <1>8, <2>1, <2>3, ApiTypes, ReplyStep
  <2>4. QED  BY <1>8, <2>2, <2>3 DEF Api!ReplyList
<1>9. CASE Api!PilotSummary(c)
  <2> USE <1>9 DEF Api!PilotSummary
  <2>1. CASE Api!Reply(c, 400, Null)
    BY <2>1, EventsUntouched, ApiTypes, ReplyStep
  <2>2. CASE Api!ReplyList(c)
    BY <1>8, <2>2
  <2>3. QED  BY <2>1, <2>2
<1>10. CASE Api!PilotSelftest(c)
  <2> USE <1>10 DEF Api!PilotSelftest
  <2>1. PICK status, body : Api!Reply(c, status, body)
    OBVIOUS
  <2>2. QED  BY <2>1, EventsUntouched, ApiTypes, ReplyStep
<1>11. CASE Api!GetWatchlist(c)
  BY <1>8, <1>11 DEF Api!GetWatchlist
<1>12. CASE Api!RefuseList(c)
  BY <1>12, EventsUntouched, ApiTypes, ReplyStep DEF Api!RefuseList
<1>13. QED
  BY <1>1, <1>2, <1>3, <1>4, <1>5, <1>6, <1>7, <1>9, <1>10, <1>11, <1>12 DEF Handler

(* Every step of the API.                                                  *)
LEMMA ApiStep == ApiInv /\ Api!Next => ApiInv' /\ Api!ServesLists
BY ApiGateChanges, ApiRestart, ApiArrive, ApiTruncate, ApiWrite, ApiProcess, ApiHandler
   DEF Api!Next, Handler

(* The other components leave the API alone.                               *)
LEMMA ApiStutter == ApiInv /\ UNCHANGED None => ApiInv' /\ Api!ServesLists
<1> SUFFICES ASSUME ApiInv, UNCHANGED None PROVE ApiInv' /\ Api!ServesLists
  OBVIOUS
<1>1. UNCHANGED <<v1, v2, v3, v4, v5, v6, v7, v8, v9, v10, v11, v12>>
  BY DEF None
<1>2. QED  BY <1>1, EventsUntouched, ProcessStep

-----------------------------------------------------------------------------
(* The REST client.                                                        *)

(* What has been answered for an address, it has held since the call began.*)
HeldSince ==
    /\ \A i \in Rest!Positions : v1[i] \in v5[i]
    /\ \A i \in Rest!Positions : v2[i] \in v5[i] \cup {Failed, Null}

(* What is returned is an answer for every address.                        *)
Returned ==
    v4 \notin {Null, Failed} =>
        /\ v4 \in [Rest!Positions -> 0 .. MaxVersion]
        /\ \A i \in Rest!Positions : v4[i] \in v5[i]

(* The inductive invariant of the REST client.                             *)
RestInv == Rest!TypeOK /\ HeldSince /\ Returned

(* What is assumed of its bounds.                                          *)
LEMMA RestBounds ==
    /\ Count \in Nat \ {0} /\ Attempts \in Nat \ {0} /\ MaxVersion \in Nat
BY ComponentsAssumption DEF Rest!RestClientAssumption

(* The call starts with nothing asked.                                     *)
LEMMA RestInit == Rest!Init => RestInv
BY RestBounds DEF Rest!Init, RestInv, HeldSince, Returned, Rest!TypeOK

(* The chain moves: what an address holds is new, what it held remains.    *)
LEMMA RestChain ==
    ASSUME RestInv, NEW i \in Rest!Positions, Rest!ChainMoves(i) PROVE RestInv'
<1> USE DEF Rest!ChainMoves
<1>1. v1[i] + 1 \in 0 .. MaxVersion
  BY RestBounds DEF RestInv, Rest!TypeOK
<1>2. /\ v1' \in [Rest!Positions -> 0 .. MaxVersion] /\ v1'[i] = v1[i] + 1
      /\ \A j \in Rest!Positions : j # i => v1'[j] = v1[j]
  BY <1>1 DEF RestInv, Rest!TypeOK
<1>3. /\ v5' \in [Rest!Positions -> SUBSET (0 .. MaxVersion)]
      /\ v5'[i] = v5[i] \cup {v1'[i]}
      /\ \A j \in Rest!Positions : j # i => v5'[j] = v5[j]
  BY <1>1, <1>2 DEF RestInv, Rest!TypeOK
<1>4. Rest!TypeOK'
  BY <1>2, <1>3 DEF RestInv, Rest!TypeOK
<1>5. HeldSince'
  BY <1>2, <1>3 DEF RestInv, HeldSince
<1>6. QED  BY <1>4, <1>5 DEF RestInv, Returned

(* A request takes a step, with or without a result.                       *)
LEMMA RestTask ==
    ASSUME RestInv, NEW i \in Rest!Positions, UNCHANGED <<v1, v4, v5>>, v4 = Null,
           v3' \in [Rest!Positions -> [pc : {"unborn", "ready", "sent", "over"},
                                       raw : BOOLEAN, attempt : 1 .. Attempts]],
           \/ UNCHANGED v2
           \/ v2' = [v2 EXCEPT ![i] = Failed]
           \/ v2' = [v2 EXCEPT ![i] = v1[i]]
    PROVE  RestInv'
<1>1. Rest!TypeOK' /\ HeldSince'
  BY DEF RestInv, HeldSince, Rest!TypeOK
<1>2. QED  BY <1>1 DEF RestInv, Returned

(* Every step of the client and of the chain.                              *)
LEMMA RestStep == RestInv /\ Rest!Next => RestInv'
<1> SUFFICES ASSUME RestInv, Rest!Next PROVE RestInv'
  OBVIOUS
<1>1. ASSUME NEW i \in Rest!Positions, Rest!ChainMoves(i) PROVE RestInv'
  BY <1>1, RestChain
<1>2. ASSUME NEW i \in Rest!Positions, Rest!Spawn(i) \/ Rest!Send(i) PROVE RestInv'
  <2>1. v3' \in [Rest!Positions -> [pc : {"unborn", "ready", "sent", "over"},
                                    raw : BOOLEAN, attempt : 1 .. Attempts]]
    BY <1>2 DEF RestInv, Rest!TypeOK, Rest!Spawn, Rest!Send
  <2>2. QED  BY <1>2, <2>1, RestTask DEF Rest!Spawn, Rest!CanStart, Rest!Send
<1>3. ASSUME NEW i \in Rest!Positions, Rest!Answered(i) PROVE RestInv'
  <2> USE DEF Rest!Result
  <2>1. v3[i].attempt \in 1 .. Attempts /\ v3[i].raw \in BOOLEAN
    BY DEF RestInv, Rest!TypeOK
  <2>2. v3' \in [Rest!Positions -> [pc : {"unborn", "ready", "sent", "over"},
                                    raw : BOOLEAN, attempt : 1 .. Attempts]]
    <3>1. CASE v3' = [v3 EXCEPT ![i].pc = "over"]
      BY <3>1 DEF RestInv, Rest!TypeOK
    <3>2. ASSUME v3[i].attempt < Attempts,
                 v3' = [v3 EXCEPT ![i] = [pc |-> "ready", raw |-> @.raw,
                                          attempt |-> @.attempt + 1]]
          PROVE  v3' \in [Rest!Positions -> [pc : {"unborn", "ready", "sent", "over"},
                                             raw : BOOLEAN, attempt : 1 .. Attempts]]
      BY <2>1, <3>2, RestBounds DEF RestInv, Rest!TypeOK
    <3>3. CASE v3' = [v3 EXCEPT ![i] = [pc |-> "ready", raw |-> TRUE, attempt |-> 1]]
      BY <3>3, RestBounds DEF RestInv, Rest!TypeOK
    <3>4. QED
      BY <1>3, <3>1, <3>2, <3>3
         DEF Rest!Answered, Rest!Succeeds, Rest!Retries, Rest!TriesRaw, Rest!Fails
  <2>3. \/ UNCHANGED v2
        \/ v2' = [v2 EXCEPT ![i] = Failed]
        \/ v2' = [v2 EXCEPT ![i] = v1[i]]
    BY <1>3 DEF Rest!Answered, Rest!Succeeds, Rest!Retries, Rest!TriesRaw, Rest!Fails
  <2>4. QED  BY <1>3, <2>2, <2>3, RestTask DEF Rest!Answered
<1>4. CASE Rest!Finish
  <2>1. UNCHANGED <<v1, v2, v3, v5>>
    BY <1>4 DEF Rest!Finish
  <2>2. Rest!TypeOK' /\ HeldSince'
    BY <2>1 DEF RestInv, HeldSince, Rest!TypeOK
  <2>3. Returned'
    <3> SUFFICES ASSUME v4' \notin {Null, Failed}
                 PROVE  /\ v4' \in [Rest!Positions -> 0 .. MaxVersion]
                        /\ \A i \in Rest!Positions : v4'[i] \in v5[i]
      BY <2>1 DEF Returned
    <3>1. v4' = v2 /\ \A i \in DOMAIN v2 : v2[i] \notin {Failed, Null}
      BY <1>4 DEF Rest!Finish, Rest!Assemble, Rest!Range
    <3>2. QED  BY <3>1 DEF RestInv, HeldSince, Rest!TypeOK
  <2>4. QED  BY <2>2, <2>3 DEF RestInv
<1>5. QED  BY <1>1, <1>2, <1>3, <1>4 DEF Rest!Next, Rest!Step

(* What the invariant gives.                                               *)
LEMMA RestSound == RestInv => Rest!TypeOK /\ Rest!SnapshotComplete
<1> SUFFICES ASSUME RestInv, v4 \notin {Null, Failed}
             PROVE  Len(v4) = Count
  BY DEF RestInv, Returned, Rest!SnapshotComplete
<1>1. v4 \in [1 .. Count -> 0 .. MaxVersion]
  BY DEF RestInv, Returned, Rest!Positions
<1>2. QED  BY <1>1, RestBounds

(* The other components leave the REST client alone.                       *)
LEMMA RestStutter == RestInv /\ UNCHANGED <<v1, v2, v3, v4, v5>> => RestInv'
BY DEF RestInv, HeldSince, Returned, Rest!TypeOK

-----------------------------------------------------------------------------
(* The return address and the fee.                                         *)

(* A transaction's predecessors, as a solution up[0], up[1], ... of the    *)
(* equations by which Ancestor is defined.                                 *)
Climbs(s, D, up) == up = [k \in D |-> IF k = 0 THEN Deposit ELSE s[up[k - 1]][1]]

(* The equations have a solution up to any number of first inputs.         *)
LEMMA ClimbsUpTo ==
    ASSUME NEW s, NEW n \in Nat
    PROVE  \E up : Climbs(s, 0 .. n, up)
<1> DEFINE Solved(k) == \E up : Climbs(s, 0 .. k, up)
           Bad == {k \in Nat : ~Solved(k)}
<1>1. Solved(0)
  <2>1. Climbs(s, 0 .. 0, [k \in 0 .. 0 |-> Deposit])
    BY DEF Climbs
  <2>2. QED  BY <2>1
<1>2. ASSUME NEW k \in Nat, Solved(k) PROVE Solved(k + 1)
  <2>1. PICK up : Climbs(s, 0 .. k, up)
    BY <1>2
  <2> DEFINE next == [j \in 0 .. k + 1 |-> IF j = 0 THEN Deposit ELSE s[up[j - 1]][1]]
  <2>2. \A j \in 0 .. k : next[j] = up[j]
    BY <2>1 DEF Climbs
  <2>3. \A j \in 0 .. k + 1 : j # 0 => next[j - 1] = up[j - 1]
    BY <2>2
  <2>4. next = [j \in 0 .. k + 1 |-> IF j = 0 THEN Deposit ELSE s[next[j - 1]][1]]
    BY <2>3
  <2>5. QED  BY <2>4 DEF Climbs
<1>3. Bad = {}
  <2> SUFFICES ASSUME Bad # {} PROVE FALSE
    OBVIOUS
  <2>1. PICK m \in Bad : \A k \in Bad : m <= k
    BY LeastExists
  <2> HIDE DEF Solved
  <2>2. m # 0
    BY <1>1
  <2>3. m - 1 \in Nat /\ Solved(m - 1)
    BY <2>1, <2>2
  <2>4. Solved((m - 1) + 1)
    BY <1>2, <2>3
  <2>5. QED  BY <2>1, <2>4
<1>4. QED  BY <1>3

(* Two solutions agree where both are defined.                             *)
LEMMA ClimbsAgree ==
    ASSUME NEW s, NEW n \in Nat, NEW m \in Nat, NEW f, NEW g,
           Climbs(s, 0 .. n, f), Climbs(s, 0 .. m, g), NEW k \in Nat, k <= n, k <= m
    PROVE  f[k] = g[k]
<1> DEFINE Bad == {j \in Nat : j <= n /\ j <= m /\ f[j] # g[j]}
<1> SUFFICES ASSUME Bad # {} PROVE FALSE
  OBVIOUS
<1>1. PICK j \in Bad : \A i \in Bad : j <= i
  BY LeastExists
<1>2. j # 0
  BY DEF Climbs
<1>3. f[j] = s[f[j - 1]][1] /\ g[j] = s[g[j - 1]][1]
  BY <1>2 DEF Climbs
<1>4. j - 1 \in Nat /\ j - 1 \notin Bad
  BY <1>1, <1>2
<1>5. f[j - 1] = g[j - 1]
  BY <1>4
<1>6. QED  BY <1>3, <1>5

(* So they have one for all numbers.                                       *)
LEMMA ClimbsAll == \A s : \E up : Climbs(s, Nat, up)
<1> SUFFICES ASSUME NEW s PROVE \E up : Climbs(s, Nat, up)
  OBVIOUS
<1> DEFINE Part(n) == CHOOSE up : Climbs(s, 0 .. n, up)
           all_of == [n \in Nat |-> Part(n)[n]]
<1>1. \A n \in Nat : Climbs(s, 0 .. n, Part(n))
  BY ClimbsUpTo
<1> HIDE DEF Part
<1>2. all_of[0] = Deposit
  BY <1>1 DEF Climbs
<1>3. ASSUME NEW n \in Nat, n # 0 PROVE all_of[n] = s[all_of[n - 1]][1]
  <2>1. Part(n)[n] = s[Part(n)[n - 1]][1]
    BY <1>1, <1>3 DEF Climbs
  <2>2. n - 1 \in Nat /\ Part(n)[n - 1] = Part(n - 1)[n - 1]
    BY <1>1, <1>3, ClimbsAgree
  <2>3. QED  BY <2>1, <2>2
<1>4. all_of = [k \in Nat |-> IF k = 0 THEN Deposit ELSE s[all_of[k - 1]][1]]
  BY <1>2, <1>3
<1>5. QED  BY <1>4 DEF Climbs

(* The one that Ancestor is defined to be.                                 *)
Up(s) == CHOOSE up : Climbs(s, Nat, up)

(* Ancestor(n) is its n-th.                                                *)
LEMMA AncestorUp == \A n : Walk!Ancestor(n) = Up(v1)[n]
BY DEF Walk!Ancestor, Up, Climbs

(* The deposit itself, then the transaction whose output it spends.        *)
LEMMA UpSteps ==
    ASSUME NEW s
    PROVE  Up(s)[0] = Deposit /\ \A n \in Nat : Up(s)[n + 1] = s[Up(s)[n]][1]
<1>1. Climbs(s, Nat, Up(s))
  BY ClimbsAll DEF Up
<1>2. QED  BY <1>1 DEF Climbs

-----------------------------------------------------------------------------
(* What the request is, of each kind.                                      *)
Walks == [kind : {"return"}, pc : {"child", "parent", "done"}, tx : Walk!Txs,
          hops : 0 .. MaxChainWalk]
Fees  == [kind : {"fee"}, pc : {"fee", "done"}, tx : FeeTxs, hops : {0}]

(* The chain, which does not change, and what REST says of it.             *)
ChainShape ==
    /\ v1 \in [Walk!Txs -> Walk!Outputs \cup {Null}]
    /\ v2 \in [Walk!Outputs -> {"shown", "hidden", "foreign"}]
    /\ v3 \subseteq Walk!Txs
    /\ \A t \in v3 : v1[t] # Null /\ v2[v1[t]] # "hidden"
    /\ v4 \in 0 .. Deposit

(* The addresses of the first n predecessors are hidden.                   *)
HiddenTo(n) == \A m \in 0 .. n - 1 : v2[v1[Up(v1)[m]]] = "hidden"

(* The walk is as many first inputs from the deposit as it has made hops,  *)
(* and has passed hidden addresses only.                                   *)
OnTheWay ==
    v5.kind = "return" =>
        /\ v5.pc = "child" => v5.tx = Up(v1)[v5.hops] /\ HiddenTo(v5.hops)
        /\ v5.pc = "parent" =>
              /\ v5.hops >= 1 /\ v1[v5.tx] # Null
              /\ v5.tx = Up(v1)[v5.hops - 1] /\ HiddenTo(v5.hops - 1)

(* NearestSender, of the predecessors as Up has them.                      *)
NearestUp ==
    Walk!Found("return") =>
        /\ v6.from = v1[Up(v1)[v6.hops - 1]] /\ v2[v6.from] = "shown"
        /\ HiddenTo(v6.hops - 1) /\ v6.hops \in Nat

(* The inductive invariant of the walk and of the fee.                     *)
WalkInv ==
    /\ ChainShape /\ v5 \in Walks \cup Fees
    /\ OnTheWay /\ NearestUp /\ Walk!FeeExact

(* What is assumed of the chain.                                           *)
LEMMA WalkBounds ==
    Deposit \in Nat \ {0} /\ MaxChainWalk \in Nat \ {0} /\ Null \notin Nat
BY ComponentsAssumption DEF Walk!ReturnAddressAssumption

(* A request starts at the deposit.                                        *)
LEMMA WalkInit == Walk!Init => WalkInv
<1> SUFFICES ASSUME Walk!Init PROVE WalkInv
  OBVIOUS
<1> USE WalkBounds
<1>1. ChainShape
  BY DEF Walk!Init, ChainShape
<1>2. v5 \in Walks \cup Fees /\ v5.pc # "done" /\ v5.hops = 0
      /\ (v5.kind = "return" => v5.tx = Deposit /\ v5.pc = "child")
  BY DEF Walk!Init, Walks, Fees, Walk!Txs
<1>3. OnTheWay
  BY <1>2, UpSteps DEF OnTheWay, HiddenTo
<1>4. QED  BY <1>1, <1>2, <1>3 DEF WalkInv, NearestUp, Walk!FeeExact, Walk!Found

(* A request that ends with an error, or with nothing found.               *)
LEMMA WalkEnds ==
    ASSUME WalkInv, NEW result, result \in {Null, Failed}, Walk!Ends(result)
    PROVE  WalkInv'
<1>1. /\ v5' \in Walks \cup Fees /\ v5'.pc = "done" /\ v6' \in {Null, Failed}
      /\ UNCHANGED <<v1, v2, v3, v4>>
  BY DEF Walk!Ends, Walk!chain, WalkInv, Walks, Fees
<1>2. ChainShape'
  BY <1>1 DEF WalkInv, ChainShape
<1>3. OnTheWay'
  BY <1>1 DEF OnTheWay, Walks, Fees
<1>4. QED  BY <1>1, <1>2, <1>3 DEF WalkInv, NearestUp, Walk!FeeExact, Walk!Found

(* A request that finds the output at the end of the hops it has made.     *)
LEMMA WalkFinds ==
    ASSUME WalkInv, UNCHANGED <<v1, v2, v3, v4>>, NEW o,
           v5' \in Walks, v5'.pc = "done", v5'.hops >= 1,
           v6' = IF v2[o] = "foreign" THEN Failed ELSE [from |-> o, hops |-> v5'.hops],
           o = v1[Up(v1)[v5'.hops - 1]], HiddenTo(v5'.hops - 1),
           o \in Walk!Outputs, v2[o] # "hidden"
    PROVE  WalkInv'
<1>1. v5'.kind = "return" /\ v5'.hops \in Nat
  BY WalkBounds DEF Walks
<1>2. ChainShape' /\ OnTheWay'
  BY <1>1 DEF WalkInv, ChainShape, OnTheWay
<1>3. NearestUp'
  <2> SUFFICES ASSUME v6' \notin {Null, Failed}
               PROVE  /\ v6'.from = v1[Up(v1)[v6'.hops - 1]] /\ v2[v6'.from] = "shown"
                      /\ HiddenTo(v6'.hops - 1) /\ v6'.hops \in Nat
    BY DEF NearestUp, HiddenTo, Walk!Found
  <2>1. v6' = [from |-> o, hops |-> v5'.hops] /\ v2[o] = "shown"
    BY DEF WalkInv, ChainShape
  <2>2. QED  BY <1>1, <2>1
<1>4. Walk!FeeExact'
  BY <1>1 DEF Walk!FeeExact, Walk!Found
<1>5. QED  BY <1>2, <1>3, <1>4 DEF WalkInv

(* One request for the transaction, one for its parent.                    *)
LEMMA WalkChild == WalkInv /\ Walk!FetchChild => WalkInv'
<1> SUFFICES ASSUME WalkInv, Walk!FetchChild PROVE WalkInv'
  OBVIOUS
<1> DEFINE t == v5.tx
           hop == [v5 EXCEPT !.hops = @ + 1]
<1> USE DEF Walk!FetchChild, Walk!chain
<1>1. /\ v5 \in Walks /\ v5.pc = "child" /\ v5.hops + 1 \in 1 .. MaxChainWalk
      /\ v5.hops \in Nat /\ t \in Walk!Txs
  BY WalkBounds DEF WalkInv, Walks, Fees
<1>2. t = Up(v1)[v5.hops] /\ HiddenTo(v5.hops)
  BY <1>1 DEF WalkInv, OnTheWay, Walks
<1>7. hop \in Walks /\ hop.hops = v5.hops + 1 /\ hop.tx = t
  BY <1>1 DEF Walks
<1> HIDE DEF hop
<1>3. CASE Walk!Ends(Failed)
  BY <1>3, WalkEnds
<1>4. CASE /\ v1[t] # Null /\ t \in v3
           /\ v6' = (IF v2[v1[t]] = "foreign" THEN Failed
                     ELSE [from |-> v1[t], hops |-> hop.hops])
           /\ v5' = [hop EXCEPT !.pc = "done"]
           /\ UNCHANGED <<v1, v2, v3, v4>>
  <2>1. /\ v5' \in Walks /\ v5'.pc = "done" /\ v5'.hops = v5.hops + 1
        /\ hop.hops = v5.hops + 1
    BY <1>7, <1>4 DEF Walks
  <2>2. v1[t] \in Walk!Outputs /\ v2[v1[t]] # "hidden"
    BY <1>1, <1>4 DEF WalkInv, ChainShape
  <2>3. v5'.hops >= 1 /\ v5'.hops - 1 = v5.hops
    BY <1>1, <2>1
  <2>4. QED  BY <1>2, <1>4, <2>1, <2>2, <2>3, WalkFinds
<1>5. CASE /\ v1[t] # Null
           /\ v5' = [hop EXCEPT !.pc = "parent"]
           /\ UNCHANGED <<v1, v2, v3, v4, v6>>
  <2>1. /\ v5' \in Walks /\ v5'.pc = "parent" /\ v5'.hops = v5.hops + 1 /\ v5'.tx = t
    BY <1>7, <1>5 DEF Walks
  <2>2. v5'.hops >= 1 /\ v5'.hops - 1 = v5.hops
    BY <1>1, <2>1
  <2>3. OnTheWay'
    BY <1>2, <1>5, <2>1, <2>2 DEF OnTheWay, HiddenTo
  <2>4. QED
    BY <1>5, <2>1, <2>3
       DEF WalkInv, ChainShape, NearestUp, Walk!FeeExact, Walk!Found, Walks
<1>6. QED  BY <1>3, <1>4, <1>5 DEF hop

(* The parent, for the output that was spent.                              *)
LEMMA WalkParent == WalkInv /\ Walk!FetchParent => WalkInv'
<1> SUFFICES ASSUME WalkInv, Walk!FetchParent PROVE WalkInv'
  OBVIOUS
<1> DEFINE o == v1[v5.tx]
           parent == o[1]
<1> USE DEF Walk!FetchParent, Walk!ParentOutput, Walk!chain
<1>1. /\ v5 \in Walks /\ v5.pc = "parent" /\ v5.hops \in 1 .. MaxChainWalk
      /\ v5.hops - 1 \in Nat
  BY WalkBounds DEF WalkInv, Walks, Fees, OnTheWay
<1>2. /\ v5.tx = Up(v1)[v5.hops - 1] /\ HiddenTo(v5.hops - 1)
      /\ o \in Walk!Outputs /\ parent \in Walk!Txs
  BY <1>1 DEF WalkInv, OnTheWay, Walks, ChainShape, Walk!Outputs
<1>3. CASE Walk!Ends(Failed)
  BY <1>3, WalkEnds
<1>4. CASE v2[o] # "hidden" /\ Walk!Answers(o)
  <2>1. /\ v5' \in Walks /\ v5'.pc = "done" /\ v5'.hops = v5.hops
        /\ UNCHANGED <<v1, v2, v3, v4>>
        /\ v6' = IF v2[o] = "foreign" THEN Failed ELSE [from |-> o, hops |-> v5.hops]
    BY <1>1, <1>4 DEF Walk!Answers, Walk!Ends, Walks
  <2>2. QED  BY <1>1, <1>2, <1>4, <2>1, WalkFinds
<1>5. CASE /\ v2[o] = "hidden"
           /\ v5' = [v5 EXCEPT !.pc = "child", !.tx = parent]
           /\ UNCHANGED <<v1, v2, v3, v4, v6>>
  <2>1. v5' \in Walks /\ v5'.pc = "child" /\ v5'.hops = v5.hops /\ v5'.tx = parent
    BY <1>1, <1>2, <1>5 DEF Walks
  <2>2. Up(v1)[v5.hops] = v1[Up(v1)[v5.hops - 1]][1]
    <3>1. (v5.hops - 1) + 1 = v5.hops
      BY <1>1
    <3>2. QED  BY <1>1, <3>1, UpSteps
  <2>3. HiddenTo(v5.hops)
    <3>1. \A m \in 0 .. v5.hops - 1 : m \in 0 .. (v5.hops - 1) - 1 \/ m = v5.hops - 1
      BY <1>1
    <3>2. QED  BY <1>2, <1>5, <3>1 DEF HiddenTo
  <2>4. OnTheWay'
    BY <1>2, <1>5, <2>1, <2>2, <2>3 DEF OnTheWay, HiddenTo
  <2>5. QED
    BY <1>5, <2>1, <2>4
       DEF WalkInv, ChainShape, NearestUp, Walk!FeeExact, Walk!Found, Walks
<1>6. QED  BY <1>3, <1>4, <1>5

(* The fee, from the totals that are there.                                *)
LEMMA WalkFee == WalkInv /\ Walk!EstimateFee => WalkInv'
<1> SUFFICES ASSUME WalkInv, Walk!EstimateFee PROVE WalkInv'
  OBVIOUS
<1> DEFINE ins == Walk!Total(v5.tx.ins)
           outs == Walk!Total(v5.tx.outs)
<1>1. v5 \in Fees /\ v5.pc = "fee"
  BY DEF WalkInv, Walks, Fees, Walk!EstimateFee
<1>2. /\ v5' \in Fees /\ v5'.tx = v5.tx /\ v5'.pc = "done"
      /\ UNCHANGED <<v1, v2, v3, v4>>
      /\ v6' = [fee |-> IF ins # Null /\ outs # Null /\ ins >= outs
                        THEN ins - outs ELSE Null]
  BY <1>1 DEF Walk!EstimateFee, Walk!Ends, Walk!chain, Fees
<1>3. \A entries : Walk!Total(entries) # Null =>
                     Walk!Total(entries) = Walk!Sum(Walk!Amounts(entries))
  BY DEF Walk!Total
<1>4. ASSUME v6'.fee # Null
      PROVE  v6'.fee = Walk!Sum(Walk!Amounts(v5.tx.ins)) - Walk!Sum(Walk!Amounts(v5.tx.outs))
  <2>1. ins # Null /\ outs # Null /\ v6'.fee = ins - outs
    BY <1>2, <1>4
  <2>2. QED  BY <1>3, <2>1
<1>5. Walk!FeeExact'
  BY <1>2, <1>4 DEF Walk!FeeExact, Walk!Found
<1>6. ChainShape' /\ OnTheWay' /\ NearestUp'
  BY <1>2 DEF WalkInv, ChainShape, OnTheWay, NearestUp, Fees, Walk!Found
<1>7. QED  BY <1>2, <1>5, <1>6 DEF WalkInv

(* Every step of the request, and of the server that prunes.               *)
LEMMA WalkStep == WalkInv /\ Walk!Next => WalkInv'
<1> SUFFICES ASSUME WalkInv, Walk!Next PROVE WalkInv'
  OBVIOUS
<1>1. CASE Walk!Prune
  BY <1>1, WalkBounds
     DEF Walk!Prune, Walk!chain, WalkInv, ChainShape, OnTheWay, NearestUp, HiddenTo,
         Walk!FeeExact, Walk!Found
<1>2. CASE Walk!RestFails \/ Walk!Exhausted
  BY <1>2, WalkEnds DEF Walk!RestFails, Walk!Exhausted
<1>3. QED  BY <1>1, <1>2, WalkChild, WalkParent, WalkFee DEF Walk!Next

(* What the invariant gives.                                               *)
LEMMA WalkSound == WalkInv => Walk!TypeOK /\ Walk!NearestSender /\ Walk!FeeExact
<1> SUFFICES ASSUME WalkInv PROVE Walk!TypeOK /\ Walk!NearestSender
  BY DEF WalkInv
<1>1. Walk!TypeOK
  <2>1. CASE v5 \in Walks
    BY <2>1, WalkBounds DEF WalkInv, ChainShape, Walks, Walk!TypeOK
  <2>2. CASE v5 \in Fees
    BY <2>2, WalkBounds DEF WalkInv, ChainShape, Fees, Walk!TypeOK
  <2>3. QED  BY <2>1, <2>2 DEF WalkInv
<1>2. Walk!NearestSender
  <2> SUFFICES ASSUME Walk!Found("return")
               PROVE  /\ v6.from = v1[Walk!Ancestor(v6.hops - 1)]
                      /\ v2[v6.from] = "shown"
                      /\ \A n \in 0 .. v6.hops - 2 : v2[v1[Walk!Ancestor(n)]] = "hidden"
    BY DEF Walk!NearestSender
  <2>1. \A n \in 0 .. v6.hops - 2 : n \in 0 .. (v6.hops - 1) - 1
    BY DEF WalkInv, NearestUp
  <2>2. QED  BY <2>1, AncestorUp DEF WalkInv, NearestUp, HiddenTo
<1>3. QED  BY <1>1, <1>2

(* The other components leave the request alone.                           *)
LEMMA WalkStutter == WalkInv /\ UNCHANGED <<v1, v2, v3, v4, v5, v6>> => WalkInv'
BY DEF WalkInv, ChainShape, OnTheWay, NearestUp, HiddenTo, Walk!FeeExact, Walk!Found

-----------------------------------------------------------------------------
(* The deposit list.                                                       *)

(* The table.                                                              *)
TableSound == v1 \in [Deposits -> Listing!Row \cup {Null}]

(* The client, and what it has read.                                       *)
ReaderSound ==
    /\ DOMAIN v2 = {"limit", "filter", "offset", "ended"}
    /\ v2.limit \in Limits /\ v2.offset \in Nat
    /\ v3 \subseteq Deposits /\ v4 \subseteq Deposits

(* Of the filters that rows do not leave: the rows left alone match, and   *)
(* those that are not read yet have the pages read ahead of them.          *)
NotPassed ==
    v2.filter \in {Null, "reversed"} =>
        /\ v4 \subseteq Listing!Matching
        /\ ~v2.ended => \A r \in v4 \ v3 :
              Cardinality(Listing!Ahead(r)) >= Listing!Skipped(v2.offset)

(* The inductive invariant of the list.                                    *)
ListingInv == TableSound /\ ReaderSound /\ NotPassed /\ Listing!PagingMissesNothing

(* What is assumed of the deposits and the limits.                         *)
LEMMA ListingBounds ==
    /\ Deposits \subseteq Nat /\ IsFiniteSet(Deposits) /\ MaxSeen \in Nat
    /\ Null \notin Listing!Row /\ Limits \subseteq Nat
    /\ ClampLimit \in Nat \ {0} /\ ExportMaxRows \in Nat \ {0} /\ MaxOffset \in Nat
<1>1. Listing!IsFiniteSet(Deposits)
  BY ComponentsAssumption DEF Listing!DepositListingAssumption
<1>2. IsFiniteSet(Deposits)
  BY <1>1 DEF Listing!IsFiniteSet, IsFiniteSet
<1>3. QED  BY <1>2, ComponentsAssumption DEF Listing!DepositListingAssumption

(* The instance counts as everybody does.                                  *)
LEMMA ListingCounts == \A S : Listing!Cardinality(S) = Cardinality(S)
BY DEF Listing!Cardinality, Cardinality

(* An offset is skipped as far as the ledger skips any.                    *)
LEMMA SkippedType ==
    ASSUME NEW n \in Nat
    PROVE  /\ Listing!Skipped(n) \in Nat
           /\ \A m \in Nat : Listing!Skipped(n + m) <= Listing!Skipped(n) + m
           /\ Listing!Skipped(0) = 0
BY ListingBounds DEF Listing!Skipped

(* How many rows are ahead of one.                                         *)
Rank(r) == Cardinality(Listing!Ahead(r))

(* It is a number.                                                         *)
LEMMA RankType ==
    ASSUME NEW r
    PROVE  /\ Listing!Ahead(r) \subseteq Listing!Matching /\ Listing!Matching \subseteq Deposits
           /\ IsFiniteSet(Listing!Ahead(r)) /\ Rank(r) \in Nat
<1>1. Listing!Ahead(r) \subseteq Listing!Matching /\ Listing!Matching \subseteq Deposits
  BY DEF Listing!Ahead, Listing!Matching
<1>2. IsFiniteSet(Listing!Ahead(r))
  BY <1>1, ListingBounds, FS_Subset
<1>3. QED  BY <1>1, <1>2, FS_CardinalityType DEF Rank

(* Of two rows one is ahead of the other, and has fewer ahead of it.       *)
LEMMA RanksDiffer ==
    ASSUME TableSound, NEW q \in Listing!Matching, NEW r \in Listing!Matching, q # r
    PROVE  /\ q \in Listing!Ahead(r) \/ r \in Listing!Ahead(q)
           /\ q \in Listing!Ahead(r) => Rank(q) < Rank(r)
<1>1. \A x \in Listing!Matching :
         x \in Nat /\ v1[x] # Null /\ v1[x].last_seen_daa \in Nat
  BY ListingBounds DEF TableSound, Listing!Matching, Listing!Matches, Listing!Row
<1>2. q \in Listing!Ahead(r) \/ r \in Listing!Ahead(q)
  <2>1. Listing!Before(q, r) \/ Listing!Before(r, q)
    BY <1>1 DEF Listing!Before
  <2>2. QED  BY <2>1 DEF Listing!Ahead
<1>3. ASSUME q \in Listing!Ahead(r) PROVE Rank(q) < Rank(r)
  <2>1. \A x \in Listing!Ahead(q) : x \in Listing!Ahead(r) /\ x # q
    <3> SUFFICES ASSUME NEW x \in Listing!Ahead(q)
                 PROVE  x \in Listing!Ahead(r) /\ x # q
      OBVIOUS
    <3>1. /\ x \in Listing!Matching /\ Listing!Before(x, q) /\ Listing!Before(q, r)
      BY <1>3 DEF Listing!Ahead
    <3>2. Listing!Before(x, r) /\ x # q
      BY <1>1, <3>1 DEF Listing!Before
    <3>3. QED  BY <3>1, <3>2 DEF Listing!Ahead
  <2>2. /\ Cardinality(Listing!Ahead(r) \ {q}) = Cardinality(Listing!Ahead(r)) - 1
        /\ IsFiniteSet(Listing!Ahead(r) \ {q})
    BY <1>3, RankType, FS_RemoveElement
  <2>3. Listing!Ahead(q) \subseteq Listing!Ahead(r) \ {q}
    BY <2>1
  <2>4. Cardinality(Listing!Ahead(q)) <= Cardinality(Listing!Ahead(r) \ {q})
    BY <2>2, <2>3, FS_Subset
  <2>5. Rank(q) \in Nat /\ Rank(r) \in Nat
    BY RankType
  <2>6. QED  BY <2>2, <2>4, <2>5 DEF Rank
<1>4. QED  BY <1>2, <1>3

(* So there are no more rows than ranks for them.                          *)
LEMMA RanksBound ==
    ASSUME TableSound, NEW S \in SUBSET Listing!Matching, NEW a \in Nat, NEW n \in Nat,
           \A r \in S : a <= Rank(r) /\ Rank(r) < a + n
    PROVE  IsFiniteSet(S) /\ Cardinality(S) <= n
<1> DEFINE T == a .. a + n - 1
           f == [r \in S |-> Rank(r)]
<1>1. IsFiniteSet(S)
  <2>1. S \in SUBSET Deposits
    BY RankType
  <2>2. QED  BY <2>1, ListingBounds, FS_Subset
<1>2. IsFiniteSet(T) /\ Cardinality(T) = n
  BY FS_Interval
<1>3. f \in [S -> T]
  BY RankType
<1>4. \A x, y \in S : x # y => f[x] # f[y]
  <2> SUFFICES ASSUME NEW x \in S, NEW y \in S, x # y PROVE Rank(x) # Rank(y)
    OBVIOUS
  <2>1. /\ x \in Listing!Ahead(y) => Rank(x) < Rank(y)
        /\ y \in Listing!Ahead(x) => Rank(y) < Rank(x)
        /\ x \in Listing!Ahead(y) \/ y \in Listing!Ahead(x)
    BY RanksDiffer
  <2>2. Rank(x) \in Nat /\ Rank(y) \in Nat
    BY RankType
  <2>3. QED  BY <2>1, <2>2
<1>5. Cardinality(S) \in Nat
  BY <1>1, FS_CardinalityType
<1> HIDE DEF f, T
<1>6. ~(Cardinality(T) < Cardinality(S))
  BY <1>1, <1>2, <1>3, <1>4, FS_PigeonHole
<1>7. QED  BY <1>1, <1>2, <1>5, <1>6

(* When there is a row of a rank or beyond, there is one of this rank.     *)
LEMMA NoGap ==
    ASSUME TableSound, NEW n \in Nat, NEW r \in Listing!Matching, Rank(r) >= n
    PROVE  \E q \in Listing!Matching : Rank(q) = n
<1> DEFINE Beyond == {Rank(q) : q \in {x \in Listing!Matching : Rank(x) >= n}}
<1>1. Beyond \subseteq Nat /\ Beyond # {}
  BY RankType
<1>2. PICK m \in Beyond : \A k \in Beyond : m <= k
  BY <1>1, LeastExists
<1>3. PICK q \in Listing!Matching : Rank(q) = m /\ Rank(q) >= n
  BY <1>2
<1>4. \A x \in Listing!Ahead(q) : 0 <= Rank(x) /\ Rank(x) < 0 + n
  <2> SUFFICES ASSUME NEW x \in Listing!Ahead(q) PROVE 0 <= Rank(x) /\ Rank(x) < n
    BY RankType
  <2>1. x \in Listing!Matching /\ x # q
    <3>1. x \in Listing!Matching /\ Listing!Before(x, q)
      BY DEF Listing!Ahead
    <3>2. x \in Nat /\ v1[x].last_seen_daa \in Nat
      BY <3>1, ListingBounds DEF TableSound, Listing!Matching, Listing!Matches, Listing!Row
    <3>3. x # q
      BY <3>1, <3>2 DEF Listing!Before
    <3>4. QED  BY <3>1, <3>3
  <2>2. Rank(x) < Rank(q) /\ Rank(x) \in Nat /\ Rank(q) \in Nat
    BY <2>1, RanksDiffer, RankType
  <2>3. Rank(x) >= n => Rank(x) \in Beyond
    BY <2>1
  <2>4. QED  BY <1>2, <1>3, <2>2, <2>3
<1>5. Rank(q) <= n
  <2>1. Listing!Ahead(q) \in SUBSET Listing!Matching
    BY RankType
  <2>2. QED  BY <1>4, <2>1, RanksBound DEF Rank
<1>6. QED  BY <1>3, <1>5, RankType

(* A client begins with the rows that match, and nothing read.             *)
LEMMA ListingInit == Listing!Init => ListingInv
<1> SUFFICES ASSUME Listing!Init PROVE ListingInv
  OBVIOUS
<1>1. TableSound
  BY DEF Listing!Init, TableSound
<1>2. ReaderSound /\ v2.offset = 0 /\ ~v2.ended
  <2>1. DOMAIN v2 = {"limit", "filter", "offset", "ended"} /\ v2.limit \in Limits
        /\ v2.offset \in {0} /\ v2.ended \in {FALSE} /\ v3 = {} /\ v4 \subseteq Deposits
    BY DEF Listing!Init
  <2>2. ~v2.ended
    BY <2>1
  <2>3. QED  BY <2>1, <2>2 DEF ReaderSound
<1>3. NotPassed
  BY <1>2, RankType, SkippedType DEF Listing!Init, NotPassed, Listing!Matching, Rank
<1>4. QED  BY <1>1, <1>2, <1>3 DEF ListingInv, Listing!PagingMissesNothing

(* A change of the table after which the rows left alone still match and   *)
(* nothing that was ahead of one of them is not.                           *)
LEMMA TableChanges ==
    ASSUME ListingInv, TableSound', UNCHANGED <<v2, v3>>, v4' \subseteq v4, ~v2.ended,
           v2.filter \in {Null, "reversed"} =>
              \A r \in v4' : /\ r \in Listing!Matching'
                             /\ Listing!Ahead(r) \subseteq Listing!Ahead(r)'
    PROVE  ListingInv'
<1> DEFINE skip == Listing!Skipped(v2.offset)
<1>0. skip \in Nat
  BY SkippedType DEF ListingInv, ReaderSound
<1>1. ReaderSound' /\ Listing!PagingMissesNothing'
  BY DEF ListingInv, ReaderSound, Listing!PagingMissesNothing
<1>2. NotPassed'
  <2> SUFFICES ASSUME v2.filter \in {Null, "reversed"}
               PROVE  /\ v4' \subseteq Listing!Matching'
                      /\ \A r \in v4' \ v3 : Cardinality(Listing!Ahead(r)') >= skip
    BY DEF NotPassed, Listing!Skipped
  <2> HIDE DEF skip
  <2>1. ASSUME NEW r \in v4' \ v3
        PROVE  Cardinality(Listing!Ahead(r)') >= skip
    <3>1. Cardinality(Listing!Ahead(r)) >= skip
      BY <2>1 DEF ListingInv, NotPassed, skip
    <3>2. Listing!Ahead(r)' \subseteq Deposits
      BY DEF Listing!Ahead, Listing!Matching
    <3>3. /\ IsFiniteSet(Listing!Ahead(r)')
      BY <3>2, ListingBounds, FS_Subset
    <3>4. Cardinality(Listing!Ahead(r)) <= Cardinality(Listing!Ahead(r)')
      BY <2>1, <3>3, FS_Subset
    <3>5. Cardinality(Listing!Ahead(r)) \in Nat /\ Cardinality(Listing!Ahead(r)') \in Nat
      BY <3>3, RankType, FS_CardinalityType DEF Rank
    <3>6. QED  BY <1>0, <3>1, <3>4, <3>5
  <2>2. QED  BY <2>1
<1>3. QED  BY <1>1, <1>2 DEF ListingInv

(* A snapshot is reconciled: what it saw moves ahead of what it did not.   *)
LEMMA ListingReconcile ==
    ASSUME ListingInv, NEW score \in 0 .. MaxSeen, NEW observed \in SUBSET Deposits,
           NEW confirmed, NEW disappeared,
           confirmed \subseteq Listing!Pending \cup (observed \ Listing!Stored),
           disappeared \subseteq Listing!Pending,
           Listing!Reconcile(score, observed, confirmed, disappeared)
    PROVE  ListingInv'
<1> DEFINE seen(r) == IF r \in observed THEN Listing!Seen(r, score) ELSE v1[r]
<1>1. /\ ~v2.ended /\ UNCHANGED <<v2, v3>>
      /\ v4' = IF Listing!Backward(score, observed) THEN {} ELSE v4 \ observed
      /\ v1' = [r \in Deposits |->
                  CASE r \in confirmed   -> Listing!Decided(seen(r), "credited")
                    [] r \in disappeared -> Listing!Decided(seen(r), "reversed")
                    [] OTHER             -> seen(r)]
  BY DEF Listing!Reconcile
<1>2. score \in Nat
  BY ListingBounds
<1>3. ASSUME NEW r \in Deposits
      PROVE  /\ seen(r) \in Listing!Row \cup {Null}
             /\ r \in observed => seen(r) # Null /\ seen(r).last_seen_daa = score
             /\ r \notin observed => seen(r) = v1[r]
             /\ v1[r] # Null => seen(r) # Null /\ seen(r).state = v1[r].state
             /\ r \in confirmed \cup disappeared => seen(r) # Null
  <2>1. v1[r] \in Listing!Row \cup {Null}
    BY DEF ListingInv, TableSound
  <2>2. r \in confirmed \cup disappeared => r \in observed \/ v1[r] # Null
    BY DEF Listing!Pending, Listing!Stored
  <2>3. CASE r \notin observed
    BY <2>1, <2>2, <2>3
  <2>4. CASE r \in observed /\ v1[r] = Null
    <3>1. seen(r) = [state |-> "pending", last_seen_daa |-> score]
      BY <2>4 DEF Listing!Seen
    <3>2. seen(r) \in Listing!Row
      BY <1>2, <3>1 DEF Listing!Row, Listing!States
    <3>3. QED  BY <1>2, <2>4, <3>1, <3>2, ListingBounds
  <2>5. CASE r \in observed /\ v1[r] # Null
    <3>1. seen(r) = [v1[r] EXCEPT !.last_seen_daa = score]
      BY <2>5 DEF Listing!Seen
    <3>2. /\ seen(r) \in Listing!Row /\ seen(r).last_seen_daa = score
          /\ seen(r).state = v1[r].state
      BY <1>2, <2>1, <2>5, <3>1 DEF Listing!Row
    <3>3. QED  BY <1>2, <2>5, <3>2, ListingBounds
  <2>6. QED  BY <2>3, <2>4, <2>5
<1>4. ASSUME NEW row \in Listing!Row, NEW state \in Listing!States
      PROVE  /\ Listing!Decided(row, state) \in Listing!Row
             /\ Listing!Decided(row, state).last_seen_daa = row.last_seen_daa
             /\ row.state = "reversed" => Listing!Decided(row, state).state = "reversed"
  BY DEF Listing!Decided, Listing!Row
<1> HIDE DEF seen
<1>5. ASSUME NEW r \in Deposits
      PROVE  /\ v1'[r] \in Listing!Row \cup {Null}
             /\ v1'[r] = Null <=> seen(r) = Null
             /\ v1'[r] # Null => /\ v1'[r].last_seen_daa = seen(r).last_seen_daa
                                 /\ seen(r).state = "reversed" => v1'[r].state = "reversed"
  <2>1. "credited" \in Listing!States /\ "reversed" \in Listing!States
    BY DEF Listing!States
  <2>2. CASE r \notin confirmed \cup disappeared
    BY <1>1, <1>3, <2>2
  <2>3. ASSUME NEW state \in {"credited", "reversed"},
               v1'[r] = Listing!Decided(seen(r), state), seen(r) # Null
        PROVE  /\ v1'[r] \in Listing!Row \cup {Null}
               /\ v1'[r] = Null <=> seen(r) = Null
               /\ v1'[r] # Null => /\ v1'[r].last_seen_daa = seen(r).last_seen_daa
                                   /\ seen(r).state = "reversed" => v1'[r].state = "reversed"
    BY <1>3, <1>4, <2>1, <2>3, ListingBounds
  <2>4. CASE r \in confirmed
    BY <1>1, <1>3, <2>3, <2>4
  <2>5. CASE r \in disappeared /\ r \notin confirmed
    BY <1>1, <1>3, <2>3, <2>5
  <2>6. QED  BY <2>2, <2>4, <2>5
<1>6. TableSound'
  BY <1>1, <1>5 DEF TableSound
<1>7. ASSUME v2.filter \in {Null, "reversed"}, NEW r \in Listing!Matching
      PROVE  /\ r \in Listing!Matching' /\ r \in Deposits /\ v1[r] # Null /\ v1'[r] # Null
             /\ v1'[r].last_seen_daa = IF r \in observed THEN score
                                       ELSE v1[r].last_seen_daa
  <2>1. /\ r \in Deposits /\ v1[r] # Null /\ v2.filter \in {Null, v1[r].state}
    BY DEF Listing!Matching, Listing!Matches
  <2>2. /\ v1'[r] # Null
        /\ v1'[r].last_seen_daa = IF r \in observed THEN score ELSE v1[r].last_seen_daa
        /\ v1[r].state = "reversed" => v1'[r].state = "reversed"
    BY <1>3, <1>5, <2>1
  <2>3. v2'.filter \in {Null, v1'[r].state}
    BY <1>1, <1>7, <2>1, <2>2
  <2>4. QED  BY <2>1, <2>2, <2>3 DEF Listing!Matching, Listing!Matches
<1>8. ASSUME v2.filter \in {Null, "reversed"}, NEW r \in v4'
      PROVE  r \in Listing!Matching' /\ Listing!Ahead(r) \subseteq Listing!Ahead(r)'
  <2>1. /\ r \in Listing!Matching /\ r \notin observed
        /\ ~Listing!Backward(score, observed)
    BY <1>1, <1>8 DEF ListingInv, NotPassed
  <2>2. ASSUME NEW q \in Listing!Ahead(r) PROVE q \in Listing!Ahead(r)'
    <3>1. q \in Listing!Matching /\ Listing!Before(q, r)
      BY DEF Listing!Ahead
    <3>2. /\ q \in Nat /\ r \in Nat
          /\ v1[q].last_seen_daa \in Nat /\ v1[r].last_seen_daa \in Nat
          /\ q \in observed => v1[q].last_seen_daa <= score
      <4>1. q \in Deposits /\ r \in Deposits /\ v1[q] # Null /\ v1[r] # Null
        BY <1>7, <1>8, <2>1, <3>1
      <4>2. TableSound
        BY DEF ListingInv
      <4>3. v1[q] \in Listing!Row /\ v1[r] \in Listing!Row
        BY <4>1, <4>2 DEF TableSound
      <4>4. v1[q].last_seen_daa \in Nat /\ v1[r].last_seen_daa \in Nat
        BY <4>3, ListingBounds DEF Listing!Row
      <4>5. q \in observed => v1[q].last_seen_daa <= score
        BY <1>2, <2>1, <4>1, <4>4 DEF Listing!Backward, Listing!Stored
      <4>6. QED  BY <4>1, <4>4, <4>5, ListingBounds
    <3>3. /\ v1'[r].last_seen_daa = v1[r].last_seen_daa
          /\ v1'[q].last_seen_daa = IF q \in observed THEN score
                                    ELSE v1[q].last_seen_daa
          /\ q \in Listing!Matching'
      BY <1>7, <1>8, <2>1, <3>1
    <3>4. Listing!Before(q, r)'
      BY <1>2, <3>1, <3>2, <3>3 DEF Listing!Before
    <3>5. QED  BY <3>3, <3>4 DEF Listing!Ahead
  <2>3. QED  BY <1>7, <1>8, <2>1, <2>2
<1>9. QED  BY <1>1, <1>6, <1>8, TableChanges

(* A credited deposit is reversed, and keeps its place.                    *)
LEMMA ListingReverse ==
    ASSUME ListingInv, NEW d \in Deposits, Listing!reverse_credited_on_reorg(d)
    PROVE  ListingInv'
<1> USE DEF Listing!reverse_credited_on_reorg
<1>1. /\ v1[d] \in Listing!Row /\ v1[d].state = "credited"
      /\ v1' = [v1 EXCEPT ![d].state = "reversed"] /\ UNCHANGED <<v2, v3, v4>>
      /\ ~v2.ended
  BY DEF ListingInv, TableSound
<1>2. ASSUME NEW r \in Deposits
      PROVE  /\ v1'[r] \in Listing!Row \cup {Null} /\ (v1'[r] = Null <=> v1[r] = Null)
             /\ v1[r] # Null => /\ v1'[r].last_seen_daa = v1[r].last_seen_daa
                                /\ v1[r].state = "reversed" => v1'[r].state = "reversed"
  <2>1. CASE r # d
    BY <1>1, <2>1 DEF ListingInv, TableSound
  <2>2. CASE r = d
    <3>1. v1'[d] = [v1[d] EXCEPT !.state = "reversed"]
      BY <1>1 DEF ListingInv, TableSound
    <3>2. v1'[d] \in Listing!Row /\ v1'[d].last_seen_daa = v1[d].last_seen_daa
      BY <1>1, <3>1 DEF Listing!Row, Listing!States
    <3>3. QED  BY <1>1, <2>2, <3>1, <3>2, ListingBounds
  <2>3. QED  BY <2>1, <2>2
<1>3. TableSound'
  BY <1>1, <1>2 DEF ListingInv, TableSound
<1>4. ASSUME v2.filter \in {Null, "reversed"}, NEW r \in Listing!Matching
      PROVE  /\ r \in Listing!Matching'
             /\ v1'[r].last_seen_daa = v1[r].last_seen_daa
  <2>1. r \in Deposits /\ v1[r] # Null /\ v2.filter \in {Null, v1[r].state}
    BY DEF Listing!Matching, Listing!Matches
  <2>2. v1'[r] # Null /\ v2'.filter \in {Null, v1'[r].state}
    BY <1>1, <1>2, <1>4, <2>1
  <2>3. QED  BY <1>2, <2>1, <2>2 DEF Listing!Matching, Listing!Matches
<1>5. ASSUME v2.filter \in {Null, "reversed"}, NEW r \in v4'
      PROVE  r \in Listing!Matching' /\ Listing!Ahead(r) \subseteq Listing!Ahead(r)'
  <2>1. r \in Listing!Matching
    BY <1>1, <1>5 DEF ListingInv, NotPassed
  <2>2. ASSUME NEW q \in Listing!Ahead(r) PROVE q \in Listing!Ahead(r)'
    <3>1. q \in Listing!Matching /\ Listing!Before(q, r)
      BY DEF Listing!Ahead
    <3>2. /\ q \in Listing!Matching'
          /\ v1'[q].last_seen_daa = v1[q].last_seen_daa
          /\ v1'[r].last_seen_daa = v1[r].last_seen_daa
      BY <1>4, <1>5, <2>1, <3>1
    <3>3. Listing!Before(q, r)'
      BY <3>1, <3>2 DEF Listing!Before
    <3>4. QED  BY <3>2, <3>3 DEF Listing!Ahead
  <2>3. QED  BY <1>4, <1>5, <2>1, <2>2
<1>6. QED  BY <1>1, <1>3, <1>5, TableChanges

(* A page is read: it is of the ranks from the offset on, so no row that   *)
(* is not read is passed, and if it is empty there is none.                *)
LEMMA ListingPage == ListingInv /\ Listing!list_deposits => ListingInv'
<1> SUFFICES ASSUME ListingInv, Listing!list_deposits PROVE ListingInv'
  OBVIOUS
<1> DEFINE clamp == Listing!Clamp(v2.limit, ClampLimit)
           skip == Listing!Skipped(v2.offset)
           items == Listing!Page(v2.limit, v2.offset)
<1>1. /\ ~v2.ended /\ v3' = v3 \cup items /\ UNCHANGED <<v1, v4>>
      /\ v2' = [v2 EXCEPT !.offset = @ + Cardinality(items), !.ended = items = {}]
  BY ListingCounts DEF Listing!list_deposits
<1>2. v2.offset \in Nat /\ skip \in Nat /\ clamp \in Nat /\ clamp >= 1
  <2>1. v2.offset \in Nat /\ v2.limit \in Nat /\ ClampLimit \in Nat \ {0}
    BY ListingBounds DEF ListingInv, ReaderSound
  <2>2. skip \in Nat
    BY <2>1, SkippedType
  <2>3. clamp \in Nat /\ clamp >= 1
    BY <2>1 DEF Listing!Clamp
  <2>4. QED  BY <2>1, <2>2, <2>3
<1>3. items = {r \in Listing!Matching : Rank(r) \in skip .. skip + clamp - 1}
  BY ListingCounts DEF Listing!Page, Rank
<1> HIDE DEF clamp, skip, items
<1>4. /\ items \subseteq Listing!Matching /\ items \subseteq Deposits
      /\ Cardinality(items) \in Nat /\ Cardinality(items) <= clamp
  <2>1. items \in SUBSET Listing!Matching /\ items \subseteq Deposits
    BY <1>3, RankType
  <2>2. \A r \in items : skip <= Rank(r) /\ Rank(r) < skip + clamp
    BY <1>2, <1>3, RankType
  <2>3. IsFiniteSet(items) /\ Cardinality(items) <= clamp
    BY <1>2, <2>1, <2>2, RanksBound DEF ListingInv
  <2>4. QED  BY <2>1, <2>3, FS_CardinalityType
<1>5. /\ v2'.offset = v2.offset + Cardinality(items) /\ v2'.ended = (items = {})
      /\ v2'.filter = v2.filter /\ ReaderSound'
  <2> DEFINE over == items = {}
  <2>1. over \in BOOLEAN /\ v2' = [v2 EXCEPT !.offset = @ + Cardinality(items),
                                             !.ended = over]
    BY <1>1
  <2> HIDE DEF over
  <2>2. QED  BY <1>1, <1>4, <2>1 DEF over, ListingInv, ReaderSound
<1>6. TableSound'
  BY <1>1 DEF ListingInv, TableSound
<1>7. /\ Listing!Matching' = Listing!Matching
      /\ \A r : Listing!Ahead(r)' = Listing!Ahead(r)
  BY <1>1, <1>5
     DEF Listing!Matching, Listing!Matches, Listing!Ahead, Listing!Before
<1>8. NotPassed'
  <2> SUFFICES ASSUME v2.filter \in {Null, "reversed"}
               PROVE  /\ v4 \subseteq Listing!Matching
                      /\ \A r \in v4 \ v3' : Rank(r) >= skip + Cardinality(items)
    <3>1. /\ Listing!Skipped(v2'.offset) <= skip + Cardinality(items)
          /\ Listing!Skipped(v2'.offset) \in Nat
      <4> DEFINE count == Cardinality(items)
      <4>1. count \in Nat /\ v2.offset \in Nat /\ v2'.offset = v2.offset + count
        BY <1>2, <1>4, <1>5
      <4> HIDE DEF count
      <4>2. Listing!Skipped(v2.offset + count) <= Listing!Skipped(v2.offset) + count
        BY <4>1, SkippedType
      <4>3. v2.offset + count \in Nat
        BY <4>1
      <4>4. Listing!Skipped(v2.offset + count) \in Nat
        BY <4>3, SkippedType
      <4>5. QED  BY <4>1, <4>2, <4>4 DEF skip, count
    <3>2. \A r : Rank(r) \in Nat
      BY RankType
    <3>3. Listing!Skipped(v2.offset)' = Listing!Skipped(v2'.offset)
      BY DEF Listing!Skipped
    <3>4. QED  BY <1>1, <1>2, <1>4, <1>5, <1>7, <3>1, <3>2, <3>3 DEF NotPassed, Rank
  <2>1. v4 \subseteq Listing!Matching
    BY DEF ListingInv, NotPassed
  <2>2. ASSUME NEW r \in v4 \ v3' PROVE Rank(r) >= skip + Cardinality(items)
    <3>1. r \in Listing!Matching /\ r \notin items /\ Rank(r) >= skip
      BY <1>1, <2>1, <2>2 DEF ListingInv, NotPassed, Rank, skip
    <3>2. Rank(r) >= skip + clamp
      BY <1>2, <1>3, <3>1, RankType
    <3>3. QED  BY <1>2, <1>4, <3>2, RankType
  <2>3. QED  BY <2>1, <2>2
<1>9. Listing!PagingMissesNothing'
  <2> SUFFICES ASSUME v2.filter \in {Null, "reversed"}, items = {}, NEW r \in v4, r \notin v3
               PROVE  FALSE
    BY <1>1, <1>5 DEF Listing!PagingMissesNothing
  <2>1. r \in Listing!Matching /\ Rank(r) >= skip
    BY <1>1 DEF ListingInv, NotPassed, Rank, skip
  <2>2. PICK q \in Listing!Matching : Rank(q) = skip
    BY <1>2, <2>1, NoGap DEF ListingInv
  <2>3. q \in items
    BY <1>2, <1>3, <2>2
  <2>4. QED  BY <2>3
<1>10. QED  BY <1>5, <1>6, <1>8, <1>9 DEF ListingInv

(* The export, of one page, promises nothing of the rows.                  *)
LEMMA ListingExport == ListingInv /\ Listing!export_deposits => ListingInv'
<1> SUFFICES ASSUME ListingInv, Listing!export_deposits PROVE ListingInv'
  OBVIOUS
<1>1. /\ v3' \subseteq Deposits /\ v4' = {} /\ v2' = [v2 EXCEPT !.ended = TRUE]
      /\ UNCHANGED v1
  BY DEF Listing!export_deposits, Listing!Page, Listing!Matching
<1>2. ReaderSound' /\ TableSound' /\ v2'.ended
  BY <1>1 DEF ListingInv, ReaderSound, TableSound
<1>3. QED  BY <1>1, <1>2 DEF ListingInv, NotPassed, Listing!PagingMissesNothing

(* Every step of the ingestion and of the client.                          *)
LEMMA ListingStep == ListingInv /\ Listing!Next => ListingInv'
<1> SUFFICES ASSUME ListingInv, Listing!Next PROVE ListingInv'
  OBVIOUS
<1>1. ASSUME NEW score \in 0 .. MaxSeen, NEW observed \in SUBSET Deposits,
             NEW confirmed \in SUBSET (Listing!Pending \cup (observed \ Listing!Stored)),
             NEW disappeared \in SUBSET (Listing!Pending \ (observed \cup confirmed)),
             Listing!Reconcile(score, observed, confirmed, disappeared)
      PROVE  ListingInv'
  <2>1. disappeared \subseteq Listing!Pending
    OBVIOUS
  <2>2. QED  BY <1>1, <2>1, ListingReconcile
<1>2. QED
  BY <1>1, ListingReverse, ListingPage, ListingExport DEF Listing!Next

(* What the invariant gives.                                               *)
LEMMA ListingSound == ListingInv => Listing!TypeOK /\ Listing!PagingMissesNothing
BY DEF ListingInv, TableSound, ReaderSound, Listing!TypeOK

(* The other components leave the list alone.                              *)
LEMMA ListingStutter == ListingInv /\ UNCHANGED <<v1, v2, v3, v4>> => ListingInv'
<1> SUFFICES ASSUME ListingInv, UNCHANGED <<v1, v2, v3, v4>> PROVE ListingInv'
  OBVIOUS
<1>1. /\ Listing!Matching' = Listing!Matching
      /\ \A r : Listing!Ahead(r)' = Listing!Ahead(r)
  BY DEF Listing!Matching, Listing!Matches, Listing!Ahead, Listing!Before
<1>2. QED
  BY <1>1
     DEF ListingInv, TableSound, ReaderSound, NotPassed, Listing!Skipped,
         Listing!PagingMissesNothing

-----------------------------------------------------------------------------
(* The covenant proof.                                                     *)

(* Every transaction spends an older one, or none.                         *)
Older(p) == p \in [Proof!Txs -> 0 .. MaxTx] /\ \A t \in Proof!Txs : p[t] < t

(* A solution c of the equations that name covenants, on the first n       *)
(* transactions.                                                           *)
Names(p, f, n, c) == c = [t \in 1 .. n |-> IF p[t] = 0 \/ t \in f THEN t ELSE c[p[t]]]

(* What is assumed of transactions and proof files.                        *)
LEMMA ProofBounds ==
    /\ MaxTx \in Nat /\ Null \notin Nat /\ Torn \notin Nat
    /\ ProofFiles \subseteq [txids : [1 .. 2 -> 1 .. MaxTx], covenant_id : 1 .. MaxTx]
BY ComponentsAssumption DEF Proof!CovenantProofAssumption

(* The equations have a solution.                                          *)
LEMMA NamesExist ==
    ASSUME NEW p, NEW f, Older(p)
    PROVE  \E c : Names(p, f, MaxTx, c)
<1> DEFINE Solved(n) == \E c : Names(p, f, n, c)
           Bad == {n \in Nat : n <= MaxTx /\ ~Solved(n)}
<1>1. Solved(0)
  <2>1. Names(p, f, 0, [t \in 1 .. 0 |-> 0])
    BY DEF Names
  <2>2. QED  BY <2>1
<1>2. ASSUME NEW n \in Nat, n + 1 <= MaxTx, Solved(n) PROVE Solved(n + 1)
  <2>1. PICK c : Names(p, f, n, c)
    BY <1>2
  <2> DEFINE d == [t \in 1 .. n + 1 |-> IF p[t] = 0 \/ t \in f THEN t ELSE c[p[t]]]
  <2>2. \A t \in 1 .. n : d[t] = c[t]
    BY <2>1 DEF Names
  <2>3. \A t \in 1 .. n + 1 : p[t] # 0 => p[t] \in 1 .. n
    BY <1>2, ProofBounds DEF Older, Proof!Txs
  <2>4. d = [t \in 1 .. n + 1 |-> IF p[t] = 0 \/ t \in f THEN t ELSE d[p[t]]]
    BY <2>2, <2>3
  <2>5. QED  BY <2>4 DEF Names
<1>3. Bad = {}
  <2> SUFFICES ASSUME Bad # {} PROVE FALSE
    OBVIOUS
  <2>1. PICK m \in Bad : \A k \in Bad : m <= k
    BY LeastExists
  <2> HIDE DEF Solved
  <2>2. m # 0
    BY <1>1
  <2>3. m - 1 \in Nat /\ m - 1 \notin Bad
    BY <2>1, <2>2
  <2>4. Solved(m - 1) /\ (m - 1) + 1 <= MaxTx
    BY <2>1, <2>3, ProofBounds
  <2>5. Solved((m - 1) + 1)
    BY <1>2, <2>3, <2>4
  <2>6. QED  BY <2>1, <2>5
<1>4. QED  BY <1>3, ProofBounds

(* So a covenant is named after the transaction that starts it, or as the  *)
(* transaction it spends is.                                               *)
LEMMA CovenantNamed ==
    ASSUME Older(v1)
    PROVE  \A t \in Proof!Txs :
              Proof!Covenant[t] = IF v1[t] = 0 \/ t \in v2 THEN t
                                  ELSE Proof!Covenant[v1[t]]
<1>1. PICK c : c = [t \in Proof!Txs |-> IF v1[t] = 0 \/ t \in v2 THEN t ELSE c[v1[t]]]
  BY NamesExist DEF Names, Proof!Txs
<1>2. Proof!Covenant = [t \in Proof!Txs |-> IF v1[t] = 0 \/ t \in v2 THEN t
                                           ELSE Proof!Covenant[v1[t]]]
  BY <1>1 DEF Proof!Covenant
<1>3. QED  BY <1>2

(* A covenant's transactions are not older than the one it is named after. *)
LEMMA CovenantOld ==
    ASSUME Older(v1)
    PROVE  \A t \in Proof!Txs : Proof!Covenant[t] \in Proof!Txs /\ Proof!Covenant[t] <= t
<1> DEFINE Bad == {t \in Proof!Txs :
                      ~(Proof!Covenant[t] \in Proof!Txs /\ Proof!Covenant[t] <= t)}
<1> SUFFICES ASSUME Bad # {} PROVE FALSE
  OBVIOUS
<1>1. Proof!Txs \subseteq Nat
  BY DEF Proof!Txs
<1>2. PICK t \in Bad : \A u \in Bad : t <= u
  BY <1>1, LeastExists
<1>3. Proof!Covenant[t] = Proof!Covenant[v1[t]] /\ v1[t] # 0
  BY <1>1, CovenantNamed
<1>4. v1[t] \in Proof!Txs /\ v1[t] < t
  BY <1>3, ProofBounds DEF Older, Proof!Txs
<1>5. /\ t \in Nat /\ v1[t] \in Nat /\ v1[t] \notin Bad
  <2>1. t \in Nat /\ v1[t] \in Nat
    BY <1>1, <1>2, <1>4
  <2>2. QED  BY <1>2, <1>4, <2>1
<1>6. Proof!Covenant[v1[t]] \in Proof!Txs /\ Proof!Covenant[v1[t]] <= v1[t]
  BY <1>4, <1>5
<1>7. Proof!Covenant[v1[t]] \in Nat
  BY <1>1, <1>6
<1>8. ~(Proof!Covenant[t] \in Proof!Txs /\ Proof!Covenant[t] <= t)
  BY <1>2
<1>9. QED  BY <1>3, <1>4, <1>5, <1>6, <1>7, <1>8

-----------------------------------------------------------------------------
(* Every set of transactions has a list of them in order.                  *)
LEMMA InOrderExists ==
    ASSUME NEW S, S \subseteq Proof!Txs
    PROVE  \E s \in [1 .. Cardinality(S) -> S] : Proof!InOrder(s)
<1> DEFINE Listed(T) == \E s \in [1 .. Cardinality(T) -> T] : Proof!InOrder(s)
           Good == {T \in SUBSET S : Listed(T)}
<1>0. IsFiniteSet(S) /\ \A x \in S : x \in Nat /\ x <= MaxTx
  <2>1. IsFiniteSet(1 .. MaxTx)
    BY ProofBounds, FS_Interval
  <2>2. IsFiniteSet(S)
    BY <2>1, FS_Subset DEF Proof!Txs
  <2>3. QED  BY <2>2, ProofBounds DEF Proof!Txs
<1>1. ASSUME NEW T \in SUBSET S, \A x \in T : T \ {x} \in Good PROVE T \in Good
  <2>1. CASE T = {}
    <3>1. Cardinality(T) = 0
      BY <2>1, FS_EmptySet
    <3>2. Proof!InOrder([i \in 1 .. 0 |-> 0])
      BY DEF Proof!InOrder
    <3>3. [i \in 1 .. 0 |-> 0] \in [1 .. 0 -> T]
      OBVIOUS
    <3>4. QED  BY <3>1, <3>2, <3>3
  <2>2. CASE T # {}
    <3>1. IsFiniteSet(T) /\ \A x \in T : x \in Nat /\ x <= MaxTx
      BY <1>0, FS_Subset
    <3>2. PICK m \in T : \A x \in T : x <= m
      <4> DEFINE Gaps == {MaxTx - x : x \in T}
      <4>1. \A x \in T : MaxTx - x \in Nat
        BY <3>1, ProofBounds
      <4>2. Gaps \subseteq Nat /\ Gaps # {}
        BY <2>2, <4>1
      <4>3. PICK g \in Gaps : \A h \in Gaps : g <= h
        BY <4>2, LeastExists
      <4>4. PICK m \in T : g = MaxTx - m
        BY <4>3
      <4>5. \A x \in T : MaxTx - m <= MaxTx - x
        BY <4>3, <4>4
      <4>6. \A x \in T : x <= m
        BY <3>1, <4>5, ProofBounds
      <4>7. QED  BY <4>6
    <3>3. /\ Cardinality(T \ {m}) = Cardinality(T) - 1
          /\ Cardinality(T) \in Nat /\ Cardinality(T) # 0
      BY <2>2, <3>1, FS_RemoveElement, FS_CardinalityType, FS_EmptySet
    <3>4. PICK s \in [1 .. Cardinality(T) - 1 -> T \ {m}] : Proof!InOrder(s)
      BY <1>1, <3>3
    <3> DEFINE n == Cardinality(T)
               r == [i \in 1 .. n |-> IF i = n THEN m ELSE s[i]]
    <3>5. r \in [1 .. n -> T]
      BY <3>3
    <3>6. Proof!InOrder(r)
      <4> SUFFICES ASSUME NEW i \in 1 .. n, NEW j \in 1 .. n, i < j PROVE r[i] < r[j]
        BY DEF Proof!InOrder
      <4>1. i \in 1 .. n - 1 /\ r[i] = s[i] /\ s[i] \in T \ {m}
        BY <3>3
      <4>2. CASE j = n
        <5>1. r[j] = m /\ s[i] \in T /\ s[i] # m
          BY <4>1, <4>2
        <5>2. s[i] \in Nat /\ m \in Nat /\ s[i] <= m
          BY <3>1, <3>2, <5>1
        <5>3. QED  BY <4>1, <5>1, <5>2
      <4>3. CASE j # n
        BY <3>3, <3>4, <4>1, <4>3 DEF Proof!InOrder
      <4>4. QED  BY <4>2, <4>3
    <3>7. QED  BY <3>5, <3>6
  <2>3. QED  BY <2>1, <2>2
<1>2. \A T \in SUBSET S : T \in Good
  <2> HIDE DEF Good
  <2>1. QED  BY <1>0, <1>1, BySmaller
<1>3. QED  BY <1>2

-----------------------------------------------------------------------------
(* The chain: every transaction spends an older one that is accepted       *)
(* before it, or none.                                                     *)
ChainSound ==
    /\ Older(v1) /\ v2 \subseteq Proof!Txs /\ v3 \subseteq Proof!Txs
    /\ \A t \in v3 : v1[t] # 0 => v1[t] \in v3
    /\ v4 \in BOOLEAN /\ v5 \in Proof!Proofs

(* Of what is asked for it gets what was so: no transaction is unaccepted  *)
(* once it was accepted.                                                   *)
RowsTrue(rows) ==
    \A i \in DOMAIN rows :
        rows[i] # Null /\ rows[i].is_accepted => rows[i].txid \in v3

(* The run in progress.                                                    *)
RunSound ==
    /\ v6 \in {"idle", "fetch", "snapshot", "write_rest", "write_kascov"}
    /\ v7 \in Proof!Modes \cup {Null}
    /\ v6 # "idle" => v7 \in Proof!Modes
    /\ v8 \in Seq(Proof!Row \cup {Null}) /\ RowsTrue(v8)
    /\ v6 \in {"fetch", "snapshot"} /\ v7 = "capture" =>
          v8 \in Seq(Proof!Row) /\ v9 # Torn
    /\ v6 = "fetch" => Len(v8) < 2
    /\ v6 = "write_rest" => v8 \in Seq(Proof!Row)

(* The two fixtures.                                                       *)
FilesSound ==
    /\ v9 \in Seq(Proof!Row) \cup {Null, Torn}
    /\ v9 \notin {Null, Torn} => RowsTrue(v9)
    /\ v10 \in Proof!Coins \cup {Null, Torn}
    /\ v10 \notin {Null, Torn} /\ ~v4 /\ Proof!verify_kascov(v10) => v12

(* The last report.                                                        *)
ReportSound ==
    /\ v11 \in [mode : Proof!Modes, rest_verified : BOOLEAN] \cup {Null}
    /\ Proof!AcceptedWasWhole /\ Proof!VerifiedIsChain

(* The inductive invariant of the covenant proof.                          *)
ProofInv ==
    /\ ChainSound /\ RunSound /\ FilesSound /\ ReportSound
    /\ Proof!Whole => v12

(* A list of so many is a sequence of this length.                         *)
LEMMA ListIsSeq ==
    ASSUME NEW n \in Nat, NEW S, NEW x \in [1 .. n -> S]
    PROVE  x \in Seq(S) /\ Len(x) = n
OBVIOUS

(* What is a proof file.                                                   *)
LEMMA ProofShape ==
    ASSUME ChainSound
    PROVE  /\ v5.txids \in [1 .. 2 -> Proof!Txs] /\ v5.covenant_id \in Proof!Txs
           /\ Len(v5.txids) = 2 /\ v5.txids \in Seq(Proof!Txs)
<1>1. v5.txids \in [1 .. 2 -> Proof!Txs] /\ v5.covenant_id \in Proof!Txs
  BY ProofBounds DEF ChainSound, Proof!Proofs, Proof!Txs
<1>2. Len(v5.txids) = 2 /\ v5.txids \in Seq(Proof!Txs)
  BY <1>1, ListIsSeq
<1>3. QED  BY <1>1, <1>2

(* The instance counts as everybody does.                                  *)
LEMMA ProofCounts == \A S : Proof!Cardinality(S) = Cardinality(S)
BY DEF Proof!Cardinality, Cardinality

(* The indexer's lineage of a covenant is a list of its transactions.      *)
LEMMA LineageListed ==
    ASSUME ChainSound, NEW id
    PROVE  /\ IsFiniteSet(Proof!OfCovenant(id)) /\ Cardinality(Proof!OfCovenant(id)) \in Nat
           /\ Proof!Lineage(id) \in
                  [1 .. Cardinality(Proof!OfCovenant(id)) -> Proof!OfCovenant(id)]
           /\ Proof!InOrder(Proof!Lineage(id))
           /\ Proof!Lineage(id) \in Seq(Proof!Txs)
<1> DEFINE S == Proof!OfCovenant(id)
<1>1. S \subseteq Proof!Txs
  BY DEF ChainSound, Proof!OfCovenant
<1>2. IsFiniteSet(S) /\ Cardinality(S) \in Nat
  <2>1. IsFiniteSet(1 .. MaxTx)
    BY ProofBounds, FS_Interval
  <2>2. IsFiniteSet(S)
    BY <1>1, <2>1, FS_Subset DEF Proof!Txs
  <2>3. QED  BY <2>2, FS_CardinalityType
<1>3. \E s \in [1 .. Cardinality(S) -> S] : Proof!InOrder(s)
  BY <1>1, InOrderExists
<1>4. /\ Proof!Lineage(id) \in [1 .. Cardinality(S) -> S]
      /\ Proof!InOrder(Proof!Lineage(id))
  BY <1>3, ProofCounts DEF Proof!Lineage
<1>5. Proof!Lineage(id) \in Seq(Proof!Txs)
  <2>1. Proof!Lineage(id) \in [1 .. Cardinality(S) -> Proof!Txs]
    BY <1>1, <1>4
  <2> HIDE DEF S
  <2>2. QED  BY <1>2, <2>1
<1>6. QED  BY <1>2, <1>4, <1>5

(* A live covenant whose lineage is two transactions lives in the second:  *)
(* the first is spent by it.                                               *)
LEMMA LiveInLast ==
    ASSUME ChainSound, Proof!Lineage(v5.covenant_id) = v5.txids,
           NEW t \in Proof!Range(v5.txids), ~Proof!Spent(t)
    PROVE  Proof!Whole
<1> DEFINE id == v5.covenant_id
           S == Proof!OfCovenant(id)
           a == v5.txids[1]
           b == v5.txids[2]
<1>1. /\ v5.txids \in [1 .. 2 -> Proof!Txs] /\ a \in Proof!Txs /\ b \in Proof!Txs
  BY ProofShape
<1>2. Cardinality(S) = 2 /\ IsFiniteSet(S) /\ a \in S /\ b \in S /\ a < b
  <2>1. /\ IsFiniteSet(S) /\ v5.txids \in [1 .. Cardinality(S) -> S]
        /\ Proof!InOrder(v5.txids) /\ Cardinality(S) \in Nat
    BY LineageListed
  <2>2. 1 .. 2 = 1 .. Cardinality(S)
    BY <1>1, <2>1
  <2>3. Cardinality(S) = 2
    BY <2>1, <2>2
  <2>4. QED  BY <1>1, <2>1, <2>3 DEF Proof!InOrder
<1>3. S = {a, b}
  <2>1. Cardinality({a, b}) = 2 /\ {a, b} \subseteq S
    <3>1. a # b
      BY <1>1, <1>2 DEF Proof!Txs
    <3>2. Cardinality({a}) = 1 /\ IsFiniteSet({a})
      BY FS_Singleton
    <3>3. Cardinality({a} \cup {b}) = 2
      <4>1. b \notin {a}
        BY <3>1
      <4>2. Cardinality({a} \cup {b}) = Cardinality({a}) + 1
        BY <3>2, <4>1, FS_AddElement
      <4>3. QED  BY <3>2, <4>2
    <3>4. {a} \cup {b} = {a, b}
      OBVIOUS
    <3>5. QED  BY <1>2, <3>3, <3>4
  <2> HIDE DEF S, a, b
  <2>2. QED  BY <1>2, <2>1, FS_Subset
<1>4. v1[b] = a
  <2>1. /\ b \in v3 /\ Proof!Covenant[a] = id /\ Proof!Covenant[b] = id
    BY <1>2 DEF Proof!OfCovenant
  <2>2. Proof!Covenant[a] <= a /\ a \in Nat /\ b \in Nat /\ id \in Nat
    BY <1>1, ProofShape, CovenantOld DEF ChainSound, Proof!Txs
  <2>3. id # b
    BY <1>2, <2>1, <2>2
  <2>4. v1[b] # 0 /\ Proof!Covenant[v1[b]] = id
    BY <1>1, <2>1, <2>3, CovenantNamed DEF ChainSound
  <2>5. v1[b] \in S /\ v1[b] < b
    BY <1>1, <2>1, <2>4 DEF ChainSound, Older, Proof!OfCovenant
  <2>6. QED  BY <1>3, <2>2, <2>5
<1>5. b \in v3
  BY <1>2 DEF Proof!OfCovenant
<1>6. t = b
  <2>1. t \in {a, b}
    BY <1>1 DEF Proof!Range
  <2>2. t # a
    BY <1>4, <1>5 DEF Proof!Spent
  <2>3. QED  BY <2>1, <2>2
<1>7. QED  BY <1>6 DEF Proof!Whole

(* An indexer that is right confirms only what is the whole story.         *)
LEMMA ConfirmedIsWhole ==
    ASSUME ChainSound, ~v4, NEW coin \in Proof!CoinsOf(v5.covenant_id),
           Proof!verify_kascov(coin)
    PROVE  Proof!Whole
<1>1. PICK complete \in BOOLEAN :
         coin = [covenant_id |-> v5.covenant_id,
                 events |-> Proof!Lineage(v5.covenant_id), lineage_complete |-> complete,
                 live |-> \E t \in Proof!Range(Proof!Lineage(v5.covenant_id)) :
                             ~Proof!Spent(t)]
  BY DEF Proof!CoinsOf
<1>2. /\ Proof!Lineage(v5.covenant_id) = v5.txids
      /\ \E t \in Proof!Range(v5.txids) : ~Proof!Spent(t)
  BY <1>1 DEF Proof!verify_kascov
<1>3. QED  BY <1>2, LiveInLast

(* What the indexer answers is a coin.                                     *)
LEMMA CoinsTyped ==
    ASSUME ChainSound, NEW coin \in Proof!CoinsOf(v5.covenant_id)
    PROVE  coin \in Proof!Coins
<1>1. CASE v4
  <2>1. coin = [covenant_id |-> v5.covenant_id, events |-> v5.txids,
                lineage_complete |-> TRUE, live |-> TRUE]
    BY <1>1 DEF Proof!CoinsOf
  <2>2. QED  BY <2>1, ProofShape DEF Proof!Coins
<1>2. CASE ~v4
  <2>1. PICK complete \in BOOLEAN :
           coin = [covenant_id |-> v5.covenant_id,
                   events |-> Proof!Lineage(v5.covenant_id), lineage_complete |-> complete,
                   live |-> \E t \in Proof!Range(Proof!Lineage(v5.covenant_id)) :
                               ~Proof!Spent(t)]
    BY <1>2 DEF Proof!CoinsOf
  <2> DEFINE alive == \E t \in Proof!Range(Proof!Lineage(v5.covenant_id)) : ~Proof!Spent(t)
  <2>2. alive \in BOOLEAN /\ Proof!Lineage(v5.covenant_id) \in Seq(Proof!Txs)
    BY LineageListed
  <2> HIDE DEF alive
  <2>3. coin = [covenant_id |-> v5.covenant_id,
                events |-> Proof!Lineage(v5.covenant_id), lineage_complete |-> complete,
                live |-> alive]
    BY <2>1 DEF alive
  <2>4. QED  BY <2>2, <2>3, ProofShape DEF Proof!Coins
<1>3. QED  BY <1>1, <1>2

-----------------------------------------------------------------------------
(* The whole story, of the chain as parameters.                            *)
NameOf(p, f) == CHOOSE c : c = [t \in Proof!Txs |-> IF p[t] = 0 \/ t \in f THEN t
                                                   ELSE c[p[t]]]
StoryOf(p, f, a, file) ==
    LET id == file.covenant_id
        S  == {t \in a : NameOf(p, f)[t] = id}
    IN  /\ (CHOOSE s \in [1 .. Proof!Cardinality(S) -> S] : Proof!InOrder(s)) = file.txids
        /\ ~ \E u \in a : p[u] = file.txids[2]

(* Whole is this of the chain as it is.                                    *)
LEMMA WholeIsStory == Proof!Whole <=> StoryOf(v1, v2, v3, v5)
BY DEF Proof!Whole, StoryOf, NameOf, Proof!Lineage, Proof!OfCovenant, Proof!Covenant,
       Proof!Spent

(* While the chain stands, so does the answer.                             *)
LEMMA WholeKept == UNCHANGED <<v1, v2, v3, v5>> => (Proof!Whole' <=> Proof!Whole)
<1>1. (Proof!Whole <=> StoryOf(v1, v2, v3, v5))'
  BY WholeIsStory, PTL
<1>2. QED  BY <1>1, WholeIsStory

(* Nothing has been accepted, asked or captured.                           *)
LEMMA ProofInit == Proof!Init => ProofInv
<1> SUFFICES ASSUME Proof!Init PROVE ProofInv
  OBVIOUS
<1>1. ChainSound
  BY DEF Proof!Init, ChainSound, Older
<1>2. RunSound /\ FilesSound
  BY DEF Proof!Init, RunSound, FilesSound, RowsTrue
<1>3. ReportSound
  BY DEF Proof!Init, ReportSound, Proof!AcceptedWasWhole, Proof!VerifiedIsChain
<1>4. ~Proof!Whole
  <2> SUFFICES ASSUME Proof!Lineage(v5.covenant_id) = v5.txids PROVE FALSE
    BY DEF Proof!Whole
  <2>1. Proof!OfCovenant(v5.covenant_id) = {}
    BY DEF Proof!Init, Proof!OfCovenant
  <2>2. Cardinality({}) = 0
    BY FS_EmptySet
  <2>3. v5.txids \in [1 .. 0 -> {}]
    BY <1>1, <2>1, <2>2, LineageListed
  <2>4. v5.txids \in [1 .. 2 -> Proof!Txs]
    BY <1>1, ProofShape
  <2>5. 1 \in 1 .. 2 /\ 1 \notin 1 .. 0
    OBVIOUS
  <2>6. QED  BY <2>3, <2>4, <2>5
<1>5. QED  BY <1>1, <1>2, <1>3, <1>4 DEF ProofInv

(* The chain accepts a transaction; what was true of it remains so.        *)
LEMMA ProofAccept ==
    ASSUME ProofInv, NEW t \in Proof!Txs, Proof!Accept(t) PROVE ProofInv'
<1> USE DEF Proof!Accept, Proof!chain, Proof!files
<1>1. v3 \subseteq v3' /\ (v12 => v12') /\ (Proof!Whole' => v12')
      /\ UNCHANGED <<v1, v2, v4, v5, v6, v7, v8, v9, v10, v11>>
  OBVIOUS
<1>2. ChainSound'
  BY <1>1 DEF ProofInv, ChainSound
<1>3. RunSound' /\ FilesSound'
  BY <1>1 DEF ProofInv, RunSound, FilesSound, RowsTrue, Proof!verify_kascov
<1>4. ReportSound'
  BY <1>1 DEF ProofInv, ReportSound, Proof!AcceptedWasWhole, Proof!VerifiedIsChain
<1>5. QED  BY <1>1, <1>2, <1>3, <1>4 DEF ProofInv

(* While the chain stands: the run, the files and the report.              *)
LEMMA ProofRuns ==
    ASSUME ProofInv, UNCHANGED <<v1, v2, v3, v4, v5, v12>>,
           RunSound', FilesSound', ReportSound'
    PROVE  ProofInv'
BY WholeKept DEF ProofInv, ChainSound

(* A run that ends, with an error or otherwise, or is killed.              *)
LEMMA ProofStops ==
    ASSUME Proof!Stop PROVE RunSound'
BY DEF Proof!Stop, RunSound, RowsTrue

(* Files and report that stay.                                             *)
LEMMA FilesStay ==
    ASSUME ProofInv, UNCHANGED <<v1, v2, v3, v4, v5, v9, v10, v12>> PROVE FilesSound'
BY DEF ProofInv, FilesSound, RowsTrue, Proof!verify_kascov

(* A report that stays, or is withdrawn.                                   *)
LEMMA ReportStays ==
    ASSUME ProofInv, UNCHANGED <<v1, v2, v3, v4, v5, v12>>,
           UNCHANGED v11 \/ v11' = Null
    PROVE ReportSound'
BY DEF ProofInv, ReportSound, Proof!AcceptedWasWhole, Proof!VerifiedIsChain

(* Verified transactions are accepted and spend each other.                *)
LEMMA VerifiedChain ==
    ASSUME ChainSound, NEW rows \in Seq(Proof!Row \cup {Null}), RowsTrue(rows),
           Proof!verify_rest_txs(rows)
    PROVE  Proof!Range(v5.txids) \subseteq v3 /\ v1[v5.txids[2]] = v5.txids[1]
<1>1. /\ Len(rows) = 2 /\ rows[1].txid = v5.txids[1] /\ rows[2].txid = v5.txids[2]
      /\ rows[1] # Null /\ rows[1].is_accepted /\ rows[2] # Null /\ rows[2].is_accepted
      /\ v1[rows[2].txid] = rows[1].txid
  BY DEF Proof!verify_rest_txs, Proof!MatchesStep
<1>2. v5.txids[1] \in v3 /\ v5.txids[2] \in v3
  BY <1>1 DEF RowsTrue
<1>3. v5.txids \in [1 .. 2 -> Proof!Txs]
  BY ProofShape
<1>4. Proof!Range(v5.txids) \subseteq v3
  BY <1>2, <1>3 DEF Proof!Range
<1>5. QED  BY <1>1, <1>4

(* A report on transactions, of a lineage that was confirmed.              *)
LEMMA ProofReports ==
    ASSUME ProofInv, UNCHANGED <<v1, v2, v3, v4, v5, v12>>, v4 \/ v12,
           NEW m \in Proof!Modes, NEW rows \in Seq(Proof!Row \cup {Null}), RowsTrue(rows),
           v11' = [mode |-> m, rest_verified |-> Proof!verify_rest_txs(rows)]
    PROVE  ReportSound'
<1> DEFINE ok == Proof!verify_rest_txs(rows)
<1>1. ok \in BOOLEAN
  BY DEF Proof!verify_rest_txs
<1>2. ok => Proof!Range(v5.txids) \subseteq v3 /\ v1[v5.txids[2]] = v5.txids[1]
  BY VerifiedChain DEF ProofInv
<1>3. v11' = [mode |-> m, rest_verified |-> ok]
  OBVIOUS
<1> HIDE DEF ok
<1>4. v11' \in [mode : Proof!Modes, rest_verified : BOOLEAN]
      /\ v11'.rest_verified = ok
  BY <1>1, <1>3
<1>5. Proof!AcceptedWasWhole' /\ Proof!VerifiedIsChain'
  BY <1>2, <1>4 DEF Proof!AcceptedWasWhole, Proof!VerifiedIsChain, Proof!Range
<1>6. QED  BY <1>4, <1>5 DEF ReportSound

-----------------------------------------------------------------------------
(* A run starts.                                                           *)
LEMMA ProofStart ==
    ASSUME ProofInv, NEW m \in Proof!Modes, Proof!Start(m) PROVE ProofInv'
<1> USE DEF Proof!Start, Proof!chain, Proof!files
<1>1. RunSound'
  BY DEF RunSound, RowsTrue
<1>2. QED  BY <1>1, FilesStay, ReportStays, ProofRuns

(* One transaction is fetched.                                             *)
LEMMA ProofFetch == ProofInv /\ Proof!Fetch => ProofInv'
<1> SUFFICES ASSUME ProofInv, Proof!Fetch PROVE ProofInv'
  OBVIOUS
<1> USE DEF Proof!Fetch, Proof!chain, Proof!files
<1> DEFINE t == v5.txids[Len(v8) + 1]
<1>1. /\ v6 = "fetch" /\ UNCHANGED <<v1, v2, v3, v4, v5, v9, v10, v11, v12>>
  OBVIOUS
<1>2. /\ v8 \in Seq(Proof!Row \cup {Null}) /\ RowsTrue(v8) /\ Len(v8) \in {0, 1}
      /\ v7 \in Proof!Modes
      /\ v7 = "capture" => v8 \in Seq(Proof!Row) /\ v9 # Torn
  <2>1. /\ v8 \in Seq(Proof!Row \cup {Null}) /\ RowsTrue(v8) /\ Len(v8) < 2
        /\ v7 \in Proof!Modes
        /\ v7 = "capture" => v8 \in Seq(Proof!Row) /\ v9 # Torn
    BY <1>1 DEF ProofInv, RunSound
  <2>2. Len(v8) \in Nat
    BY <2>1
  <2>3. \A n \in Nat : n < 2 => n \in {0, 1}
    OBVIOUS
  <2>4. QED  BY <2>1, <2>2, <2>3
<1>3. t \in Proof!Txs
  BY <1>2, ProofShape DEF ProofInv
<1>4. ASSUME NEW row \in Proof!Row \cup {Null},
             row # Null /\ row.is_accepted => row.txid \in v3,
             v7 = "capture" => row \in Proof!Row,
             v8' = Append(v8, row), UNCHANGED v7,
             v6' = IF Len(v8) = 1 THEN "snapshot" ELSE "fetch"
      PROVE  RunSound'
  <2>1. /\ v8' \in Seq(Proof!Row \cup {Null}) /\ Len(v8') = Len(v8) + 1
        /\ v8'[Len(v8) + 1] = row
        /\ \A i \in 1 .. Len(v8) : v8'[i] = v8[i]
    BY <1>2, <1>4
  <2>2. RowsTrue(v8)'
    BY <1>1, <1>2, <1>4, <2>1 DEF RowsTrue
  <2>3. v7 = "capture" => v8' \in Seq(Proof!Row)
    BY <1>2, <1>4
  <2>4. v6' = "fetch" => Len(v8') < 2
    BY <1>2, <1>4, <2>1
  <2>5. QED  BY <1>1, <1>2, <1>4, <2>1, <2>2, <2>3, <2>4 DEF RunSound
<1>5. RunSound'
  <2>1. CASE Proof!Stop
    BY <2>1, ProofStops
  <2>2. CASE /\ v8' = Append(v8, [txid |-> t, is_accepted |-> t \in v3]) /\ UNCHANGED v7
             /\ v6' = IF Len(v8) = 1 THEN "snapshot" ELSE "fetch"
    <3> DEFINE known == t \in v3
               row == [txid |-> t, is_accepted |-> known]
    <3>0. known \in BOOLEAN /\ (known => t \in v3)
      OBVIOUS
    <3> HIDE DEF known
    <3>1. row \in Proof!Row /\ (row.is_accepted => row.txid \in v3)
      BY <1>3, <3>0 DEF Proof!Row
    <3> HIDE DEF row
    <3>2. v8' = Append(v8, row)
      BY <2>2 DEF row, known
    <3>3. QED  BY <1>4, <2>2, <3>1, <3>2
  <2>3. ASSUME NEW row \in Proof!Cached(t), v7 = "capture",
               v8' = Append(v8, row), UNCHANGED v7,
               v6' = IF Len(v8) = 1 THEN "snapshot" ELSE "fetch"
        PROVE  RunSound'
    <3>1. v9 # Null /\ v9 \in Seq(Proof!Row) /\ RowsTrue(v9)
      BY <1>2, <2>3 DEF ProofInv, FilesSound, Proof!Cached
    <3>2. PICK i \in DOMAIN v9 : row = v9[i]
      BY <2>3, <3>1 DEF Proof!Cached, Proof!Range
    <3>3. row \in Proof!Row /\ (row # Null /\ row.is_accepted => row.txid \in v3)
      BY <3>1, <3>2 DEF RowsTrue
    <3>4. QED  BY <1>4, <2>3, <3>3
  <2>4. CASE /\ v7 = "kascov_only" /\ v8' = Append(v8, Null) /\ UNCHANGED v7
             /\ v6' = IF Len(v8) = 1 THEN "snapshot" ELSE "fetch"
    BY <1>4, <2>4
  <2>5. QED  BY <2>1, <2>2, <2>3, <2>4
<1>6. QED  BY <1>1, <1>5, FilesStay, ReportStays, ProofRuns

(* The verdict of the two modes that are live.                             *)
LEMMA ProofSnapshot == ProofInv /\ Proof!Snapshot => ProofInv'
<1> SUFFICES ASSUME ProofInv, Proof!Snapshot PROVE ProofInv'
  OBVIOUS
<1> USE DEF Proof!Snapshot, Proof!chain, Proof!files
<1>1. /\ v6 = "snapshot" /\ UNCHANGED <<v1, v2, v3, v4, v5, v9, v10, v12>>
      /\ v7 \in Proof!Modes /\ v8 \in Seq(Proof!Row \cup {Null}) /\ RowsTrue(v8)
  BY DEF ProofInv, RunSound
<1>2. RunSound'
  BY ProofStops
<1>3. ReportSound'
  <2>1. CASE UNCHANGED v11
    BY <1>1, <2>1, ReportStays
  <2>2. CASE /\ \E coin \in Proof!CoinsOf(v5.covenant_id) : Proof!verify_kascov(coin)
             /\ v11' = [mode |-> v7, rest_verified |-> Proof!verify_rest_txs(v8)]
    <3>1. v4 \/ v12
      BY <2>2, ConfirmedIsWhole DEF ProofInv
    <3>2. QED  BY <1>1, <2>2, <3>1, ProofReports
  <2>3. QED  BY <2>1, <2>2 DEF Proof!Conclude
<1>4. QED  BY <1>1, <1>2, <1>3, FilesStay, ProofRuns

(* A capture: the coin, the rows, the coin's file.                         *)
LEMMA ProofCapture ==
    ProofInv /\ (Proof!CaptureCoin \/ Proof!WriteRest \/ Proof!WriteKascov) => ProofInv'
<1> SUFFICES ASSUME ProofInv, Proof!CaptureCoin \/ Proof!WriteRest \/ Proof!WriteKascov
             PROVE  ProofInv'
  OBVIOUS
<1> USE DEF Proof!chain, Proof!files
<1>1. CASE Proof!CaptureCoin
  <2>1. RunSound'
    <3>1. CASE Proof!Stop
      BY <3>1, ProofStops
    <3>2. CASE v6' = "write_rest" /\ UNCHANGED <<v7, v8>>
      BY <1>1, <3>2 DEF Proof!CaptureCoin, ProofInv, RunSound, RowsTrue
    <3>3. QED  BY <1>1, <3>1, <3>2 DEF Proof!CaptureCoin
  <2>2. QED
    BY <1>1, <2>1, FilesStay, ReportStays, ProofRuns DEF Proof!CaptureCoin
<1>2. CASE Proof!WriteRest
  <2> USE <1>2 DEF Proof!WriteRest
  <2>1. RunSound'
    BY DEF ProofInv, RunSound, RowsTrue
  <2>2. FilesSound'
    BY DEF ProofInv, RunSound, RowsTrue, FilesSound, Proof!verify_kascov
  <2>3. QED  BY <2>1, <2>2, ReportStays, ProofRuns
<1>3. CASE Proof!WriteKascov
  <2> USE <1>3 DEF Proof!WriteKascov
  <2>1. RunSound'
    BY ProofStops
  <2>2. v10' \in Proof!Coins
    BY CoinsTyped DEF ProofInv
  <2>3. ~v4 /\ Proof!verify_kascov(v10') => v12
    BY ConfirmedIsWhole DEF ProofInv
  <2>4. FilesSound'
    BY <2>2, <2>3 DEF ProofInv, FilesSound, RowsTrue, Proof!verify_kascov
  <2>5. QED  BY <2>1, <2>4, ReportStays, ProofRuns
<1>4. QED  BY <1>1, <1>2, <1>3

(* A run is killed.                                                        *)
LEMMA ProofKill == ProofInv /\ Proof!Kill => ProofInv'
<1> SUFFICES ASSUME ProofInv, Proof!Kill PROVE ProofInv'
  OBVIOUS
<1> USE DEF Proof!Kill, Proof!chain, Proof!files
<1>1. UNCHANGED <<v1, v2, v3, v4, v5, v11, v12>> /\ RunSound'
  BY ProofStops
<1>2. FilesSound'
  BY <1>1 DEF ProofInv, FilesSound, RowsTrue, Proof!verify_kascov
<1>3. QED  BY <1>1, <1>2, ReportStays, ProofRuns

(* The two files, without the network.                                     *)
LEMMA ProofOffline == ProofInv /\ Proof!Offline => ProofInv'
<1> SUFFICES ASSUME ProofInv, Proof!Offline PROVE ProofInv'
  OBVIOUS
<1> USE DEF Proof!Offline, Proof!chain, Proof!files
<1>1. UNCHANGED <<v1, v2, v3, v4, v5, v6, v7, v8, v9, v10, v12>>
  OBVIOUS
<1>2. RunSound'
  BY <1>1 DEF ProofInv, RunSound, RowsTrue
<1>3. ReportSound'
  <2>1. CASE v11' = Null
    BY <1>1, <2>1, ReportStays
  <2>2. CASE /\ Null \notin {v9, v10} /\ Torn \notin {v9, v10}
             /\ Proof!verify_rest_txs(v9) /\ Proof!verify_kascov(v10)
             /\ v11' = [mode |-> "offline", rest_verified |-> TRUE]
    <3>1. v9 \in Seq(Proof!Row) /\ RowsTrue(v9) /\ (v4 \/ v12)
      BY <2>2 DEF ProofInv, FilesSound
    <3>2. v9 \in Seq(Proof!Row \cup {Null})
      BY <3>1
    <3>3. Proof!Range(v5.txids) \subseteq v3 /\ v1[v5.txids[2]] = v5.txids[1]
      BY <2>2, <3>1, <3>2, VerifiedChain DEF ProofInv
    <3>4. "offline" \in Proof!Modes
      BY DEF Proof!Modes
    <3>5. QED
      BY <1>1, <2>2, <3>1, <3>3, <3>4
         DEF ReportSound, Proof!AcceptedWasWhole, Proof!VerifiedIsChain, Proof!Range
  <2>3. QED  BY <2>1, <2>2
<1>4. QED  BY <1>1, <1>2, <1>3, FilesStay, ProofRuns

(* Every step of the chain and of the program.                             *)
LEMMA ProofStep == ProofInv /\ Proof!Next => ProofInv'
BY ProofAccept, ProofStart, ProofFetch, ProofSnapshot, ProofCapture, ProofKill, ProofOffline
   DEF Proof!Next

(* What the invariant gives.                                               *)
LEMMA ProofsSound ==
    ProofInv => Proof!TypeOK /\ Proof!AcceptedWasWhole /\ Proof!VerifiedIsChain
BY DEF ProofInv, ChainSound, Older, RunSound, FilesSound, ReportSound, Proof!TypeOK

(* The other components leave the proof alone.                             *)
LEMMA ProofStutter == ProofInv /\ UNCHANGED None => ProofInv'
<1> SUFFICES ASSUME ProofInv, UNCHANGED None PROVE ProofInv'
  OBVIOUS
<1>1. UNCHANGED <<v1, v2, v3, v4, v5, v6, v7, v8, v9, v10, v11, v12>>
  BY DEF None
<1>2. RunSound'
  BY <1>1 DEF ProofInv, RunSound, RowsTrue
<1>3. QED  BY <1>1, <1>2, FilesStay, ReportStays, ProofRuns

-----------------------------------------------------------------------------
(* The bench.                                                              *)

(* A component has its invariant while a behaviour is of it.               *)
BenchInv ==
    /\ component = "krc20"    => KrcInv
    /\ component = "cex"      => CexInv
    /\ component = "covenant" => CovenantInv
    /\ component = "node"     => Node!TypeOK
    /\ component = "receiver" => ReceiverInv
    /\ component = "pool"     => PoolInv
    /\ component = "schema"   => SchemaInv
    /\ component = "api"      => ApiInv
    /\ component = "rest"     => RestInv
    /\ component = "walk"     => WalkInv
    /\ component = "listing"  => ListingInv
    /\ component = "proof"    => ProofInv

(* What its step may not do.                                               *)
BenchKept ==
    /\ component = "krc20"    => Krc!DeploymentKept
    /\ component = "receiver" => Receiver!RowsKept
    /\ component = "api"      => Api!ServesLists
    /\ component = "pool"     => Pool!BestChosen /\ Pool!LeftUnlessLast

(* Whichever component was chosen starts with its invariant.               *)
LEMMA BenchStarts == BenchInit => BenchInv
BY KrcInit, CexInit, CovenantInit, NodeInit, ReceiverInit, PoolInit, SchemaInit, ApiInit,
   RestInit, WalkInit, ListingInit, ProofInit
   DEF BenchInit, BenchInv

(* Only the chosen component moves.                                        *)
LEMMA BenchMoves == BenchInv /\ BenchNext => BenchInv' /\ BenchKept
<1> SUFFICES ASSUME BenchInv, BenchNext PROVE BenchInv' /\ BenchKept
  OBVIOUS
<1>1. component' = component
  BY DEF BenchNext
<1>2. CASE component = "krc20"
  BY <1>1, <1>2, KrcStep DEF BenchNext, BenchInv, BenchKept
<1>3. CASE component = "cex"
  BY <1>1, <1>3, CexStep DEF BenchNext, BenchInv, BenchKept
<1>4. CASE component = "covenant"
  BY <1>1, <1>4, CovenantStep DEF BenchNext, BenchInv, BenchKept
<1>5. CASE component = "node"
  BY <1>1, <1>5, NodeStep DEF BenchNext, BenchInv, BenchKept
<1>6. CASE component = "receiver"
  BY <1>1, <1>6, ReceiverStep DEF BenchNext, BenchInv, BenchKept
<1>7. CASE component = "pool"
  BY <1>1, <1>7, PoolStep DEF BenchNext, BenchInv, BenchKept
<1>8. CASE component = "schema"
  BY <1>1, <1>8, SchemaStep DEF BenchNext, BenchInv, BenchKept
<1>9. CASE component = "api"
  BY <1>1, <1>9, ApiStep DEF BenchNext, BenchInv, BenchKept
<1>10. CASE component = "rest"
  BY <1>1, <1>10, RestStep DEF BenchNext, BenchInv, BenchKept
<1>11. CASE component = "walk"
  BY <1>1, <1>11, WalkStep DEF BenchNext, BenchInv, BenchKept
<1>12. CASE component = "listing"
  BY <1>1, <1>12, ListingStep DEF BenchNext, BenchInv, BenchKept
<1>13. CASE component = "proof"
  BY <1>1, <1>13, ProofStep DEF BenchNext, BenchInv, BenchKept
<1>14. CASE component \notin {"krc20", "cex", "covenant", "node", "receiver", "pool",
                              "schema", "api", "rest", "walk", "listing", "proof"}
  BY <1>1, <1>14 DEF BenchInv, BenchKept
<1>15. QED
  BY <1>2, <1>3, <1>4, <1>5, <1>6, <1>7, <1>8, <1>9, <1>10, <1>11, <1>12, <1>13, <1>14

(* A step of nothing.                                                      *)
LEMMA BenchStutters == BenchInv /\ UNCHANGED all => BenchInv'
<1> SUFFICES ASSUME BenchInv, UNCHANGED all PROVE BenchInv'
  OBVIOUS
<1>1. /\ component' = component /\ UNCHANGED None
      /\ UNCHANGED <<v1, v2, v3, v4, v5, v6>>
  BY DEF all, None
<1>2. CASE component = "covenant"
  <2>1. v2' \in Covenant!Daa
    BY <1>1, <1>2 DEF BenchInv, CovenantInv, Covenant!TypeOK
  <2>2. QED  BY <1>1, <1>2, <2>1, CovenantStutter DEF BenchInv
<1>3. CASE component # "covenant"
  BY <1>1, <1>3, KrcStutter, CexStutter, NodeStutter, ReceiverStutter, PoolStutter,
     SchemaStutter, ApiStutter, RestStutter, WalkStutter, ListingStutter, ProofStutter
     DEF BenchInv
<1>4. QED  BY <1>2, <1>3

(* The invariant of the bench, from which its properties follow.           *)
THEOREM BenchInvariant == BenchSpec => []BenchInv
BY BenchStarts, BenchMoves, BenchStutters, PTL DEF BenchSpec

(* An id takes effect once, whatever was broadcast, and an outpoint is an  *)
(* input of one payment, for any number of tickers, ids and outpoints.     *)
THEOREM UsedOnce == BenchSpec => []TakenOnce
<1>1. BenchInv => TakenOnce
  BY KrcSound DEF BenchInv, CexInv, TakenOnce
<1>2. QED  BY <1>1, BenchInvariant, PTL

(* The holders of a token have what was minted, within its cap, whatever is *)
(* deployed, minted and transferred; and a snapshot of any rows REST answers*)
(* counts every outpoint once, at the depth its kind needs.                 *)
THEOREM MoneyConserved == BenchSpec => []MoneyAddsUp
<1>1. BenchInv => MoneyAddsUp
  BY KrcSound, CexBalances DEF BenchInv, CexInv, MoneyAddsUp
<1>2. QED  BY <1>1, BenchInvariant, PTL

(* Covenants pay once, and their windows and signatures leave nobody two   *)
(* ways out, for any number of registrations and parties.                  *)
THEOREM CovenantsHold == BenchSpec => []CovenantsSound
<1>1. BenchInv => CovenantsSound
  BY Windows, Pairs DEF BenchInv, CovenantInv, CovenantsSound
<1>2. QED  BY <1>1, BenchInvariant, PTL

(* The stage of a node explains its assessment, a healthy one is near the  *)
(* public score, and a pool that starts can reach its gate, for any bounds *)
(* and any number of urls.                                                 *)
THEOREM NodesHold == BenchSpec => []NodesSound
<1>1. BenchInv => NodesSound
  BY StageAgrees, LagInBounds, PoolGate DEF BenchInv, PoolInv, NodesSound
<1>2. QED  BY <1>1, BenchInvariant, PTL

(* The receiver answers 2xx for what its own inbox holds, for any number   *)
(* of receivers, events and crashes.                                       *)
THEOREM ReceiverHolds == BenchSpec => []ReceiverSound
<1>1. ReceiverInv => Receiver!OwnSchemaServed
  BY DEF ReceiverInv, ReceiverPlaces, Receiver!OwnSchemaServed
<1>2. BenchInv => ReceiverSound
  BY <1>1 DEF BenchInv, ReceiverInv, ReceiverSound
<1>3. QED  BY <1>2, BenchInvariant, PTL

(* No custody request is served that saw no green gate, an event is        *)
(* acknowledged once, and a watchlist file nothing disturbed is whole, for *)
(* any number of clients, requests and events.                             *)
THEOREM ApiHolds == BenchSpec => []ApiSound
<1>1. BenchInv => ApiSound
  BY DEF BenchInv, ApiInv, ApiSound
<1>2. QED  BY <1>1, BenchInvariant, PTL

(* The ledger file is of one version, whoever opens it and is killed.      *)
THEOREM LedgerFileHolds == BenchSpec => []LedgerFileSound
<1>1. BenchInv => LedgerFileSound
  BY DEF BenchInv, SchemaInv, LedgerFileSound
<1>2. QED  BY <1>1, BenchInvariant, PTL

(* A batch has an answer for every address, a return address is the        *)
(* nearest sender shown, a fee is exact, and a client that pages to the    *)
(* end misses no row left alone, for any number of addresses, transactions *)
(* and deposits.                                                           *)
THEOREM AnswersHold == BenchSpec => []AnswersSound
<1>1. BenchInv => AnswersSound
  BY RestSound, WalkSound, ListingSound DEF BenchInv, AnswersSound
<1>2. QED  BY <1>1, BenchInvariant, PTL

(* A proof that is accepted was the covenant's whole story, and what it    *)
(* verified are accepted transactions that spend each other, for any chain,*)
(* any proof files and any captures.                                       *)
THEOREM ProofHolds == BenchSpec => []ProofSound
<1>1. BenchInv => ProofSound
  BY ProofsSound DEF BenchInv, ProofSound
<1>2. QED  BY <1>1, BenchInvariant, PTL

(* A ticker's terms and a stored delivery stay, and a watchlist served is  *)
(* a whole list that passes the checks of a new one.                       *)
THEOREM DoneStaysDone == BenchSpec => NothingUndone
<1>1. BenchInv /\ [BenchNext]_all =>
        [/\ component = "krc20"    => Krc!DeploymentKept
         /\ component = "receiver" => Receiver!RowsKept
         /\ component = "api"      => Api!ServesLists]_all
  BY BenchMoves DEF BenchKept
<1>2. QED  BY <1>1, BenchInvariant, PTL DEF BenchSpec, NothingUndone

(* A failover leaves the failed node, for the one that lags least.         *)
THEOREM FailoverHolds == BenchSpec => FailoverSound
<1>1. BenchInv /\ [BenchNext]_all =>
        [component = "pool" => Pool!BestChosen /\ Pool!LeftUnlessLast]_all
  BY BenchMoves DEF BenchKept
<1>2. QED  BY <1>1, BenchInvariant, PTL DEF BenchSpec, FailoverSound

(* On the bench too the journal is a FIFO queue.                           *)
THEOREM QueueOnBench == BenchSpec => ImplementsFrameQueue
<1>1. BenchInit => Init
  BY DEF BenchInit
<1>2. [BenchNext]_all => [Next]_vars
  BY DEF BenchNext, all
<1>3. BenchSpec => Spec
  BY <1>1, <1>2, PTL DEF BenchSpec, Spec
<1>4. QED  BY <1>3, JournalIsQueue

=============================================================================
