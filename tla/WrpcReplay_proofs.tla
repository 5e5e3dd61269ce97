-------------------------- MODULE WrpcReplay_proofs --------------------------
(***************************************************************************)
(* Proofs about WrpcReplay: for every set of outpoints and scores, every   *)
(* fixture of any length and any number of crashes.                        *)
(***************************************************************************)
EXTENDS WrpcReplay, WrpcProjection_proofs

LP == INSTANCE DepositLedger_proofs
        WITH Facts <- Scores, Daa <- Scores, NoFacts <- NoScore, NoDaa <- NoScore

LEMMA NoScoreApart == NoScore \notin Scores
BY ScoresAssumption

(* The instance of the model and that of the proofs are the same.          *)
LEMMA SameLedger ==
    /\ \A d, observed, confirmed, disappeared :
          Ledger!Reconcile(d, observed, confirmed, disappeared)
            <=> LP!Reconcile(d, observed, confirmed, disappeared)
    /\ \A observed : Ledger!ObservedFactsAgree(observed) <=> LP!ObservedFactsAgree(observed)
    /\ \A d, observed, confirmed :
          Ledger!ConfirmedFactsAgree(Ledger!Observe(d, observed), confirmed)
            <=> LP!ConfirmedFactsAgree(LP!Observe(d, observed), confirmed)
    /\ Ledger!TypeOK <=> LP!TypeOK
    /\ Ledger!Init <=> LP!Init
    /\ Ledger!Batch = LP!Batch
<1>1. ASSUME NEW d, NEW observed, NEW confirmed, NEW disappeared
      PROVE  Ledger!Reconcile(d, observed, confirmed, disappeared)
               <=> LP!Reconcile(d, observed, confirmed, disappeared)
  BY DEF Ledger!Reconcile, LP!Reconcile, Ledger!Observe, LP!Observe,
         Ledger!Confirm, LP!Confirm, Ledger!Disappear, LP!Disappear,
         Ledger!ObservedFactsAgree, LP!ObservedFactsAgree,
         Ledger!ConfirmedFactsAgree, LP!ConfirmedFactsAgree,
         Ledger!InsertOutbox, LP!InsertOutbox
<1>2. \A observed : Ledger!ObservedFactsAgree(observed) <=> LP!ObservedFactsAgree(observed)
  BY DEF Ledger!ObservedFactsAgree, LP!ObservedFactsAgree
<1>3. ASSUME NEW d, NEW observed, NEW confirmed
      PROVE  Ledger!ConfirmedFactsAgree(Ledger!Observe(d, observed), confirmed)
               <=> LP!ConfirmedFactsAgree(LP!Observe(d, observed), confirmed)
  BY DEF Ledger!ConfirmedFactsAgree, LP!ConfirmedFactsAgree, Ledger!Observe, LP!Observe
<1>4. Ledger!TypeOK <=> LP!TypeOK
  BY DEF Ledger!TypeOK, LP!TypeOK, Ledger!Row, LP!Row, Ledger!States, LP!States,
         Ledger!Reasons, LP!Reasons, Ledger!Event, LP!Event
<1>5. Ledger!Init <=> LP!Init
  BY DEF Ledger!Init, LP!Init, Ledger!NoRow, LP!NoRow
<1>6. Ledger!Batch = LP!Batch
  BY DEF Ledger!Batch, LP!Batch
<1>7. QED  BY <1>1, <1>2, <1>3, <1>4, <1>5, <1>6

-----------------------------------------------------------------------------
(* Where the program is, against its three durable counters.  The ledger   *)
(* is ahead of the checkpoint by one frame at most: the one that a crash   *)
(* separated from its mark.                                                *)
Positions ==
    /\ \E n \in 1 .. MaxFrames : fixture \in [1 .. n -> AnyFrames]
    /\ \E k \in 0 .. Len(fixture) :
        /\ DOMAIN frames = 1 .. k
        /\ \A i \in 1 .. k : frames[i] = fixture[i]
        /\ reconciled <= k
        /\ pc = "record" => at <= k
        /\ pc \in {"replay", "mark"} => k = Len(fixture)
    /\ checkpoint <= reconciled /\ reconciled <= checkpoint + 1
    /\ pc = "replay" => \/ at < start /\ start = checkpoint
                        \/ start <= at /\ at = checkpoint
    /\ pc = "mark" => at = checkpoint /\ start <= at /\ reconciled = at + 1

Result(h, i) == Apply(h[i - 1], fixture[i])

(* The fixture adds the outpoint in a block of that score, before any      *)
(* score of the chain, or anywhere.                                        *)
AddedEarly(op, score) ==
    \E i \in DOMAIN fixture : BeforeScore(i) /\ Adds(i, op) /\ fixture[i].added[op] = score
Added(op, score) ==
    \E i \in DOMAIN fixture : Adds(i, op) /\ fixture[i].added[op] = score

(* A schedule entry is of a block the fixture named before the first       *)
(* score, or of the block the ledger has.                                  *)
Grounded(s, table) ==
    \/ \E score \in Scores : AddedEarly(s[2], score) /\ s[1] = Maturity(score)
    \/ table[s[2]].state # "absent" /\ s[1] = Maturity(table[s[2]].facts)

(* Where the projection comes from, before the first score and after it.   *)
Unscored(p) == p.mature = {} /\ DOMAIN p.live \subseteq p.unobserved

Scored(p, table) ==
    /\ p.unobserved = {}
    /\ \A op \in DOMAIN p.live :
          /\ table[op].state # "absent" /\ table[op].facts = p.live[op]
          /\ Maturity(p.live[op]) <= p.virtual_daa => op \in p.mature
    /\ \A op \in p.mature :
          op \in DOMAIN p.live /\ (op \in Readded \/ Maturity(p.live[op]) <= p.virtual_daa)

Traced(p, table) ==
    /\ \A op \in DOMAIN p.live : Added(op, p.live[op])
    /\ \A op \in DOMAIN p.live \ p.mature : <<Maturity(p.live[op]), op>> \in p.schedule
    /\ \A s \in p.schedule : Grounded(s, table)
    /\ p.virtual_daa = NoScore => Unscored(p)
    /\ p.virtual_daa # NoScore => Scored(p, table)

(* The projections after each frame that was ever reconciled: what a run   *)
(* rebuilds is what the runs before it had, and the ledger has the effect  *)
(* of the last of them.                                                    *)
History(h) ==
    /\ h \in [0 .. reconciled -> Projection]
    /\ h[0] = Empty
    /\ \A i \in 1 .. reconciled : Result(h, i).ok /\ h[i] = Result(h, i).next
    /\ \E j \in 0 .. reconciled : projection = h[j]
    /\ pc = "record" => projection = Empty
    /\ pc = "replay" => projection = h[at]
    /\ pc = "mark" => projection = h[at + 1]
    /\ reconciled > 0 =>
          LP!Done(deposits, Result(h, reconciled).observed,
                  Result(h, reconciled).confirmed, Result(h, reconciled).disappeared)
    /\ \A i \in 0 .. reconciled :
          Traced(h[i], deposits) /\ (h[i].virtual_daa = NoScore => BeforeScore(i))

NothingLegacy == legacy = {}

ReplayInv ==
    /\ TypeOK
    /\ LP!IInv
    /\ NothingLegacy
    /\ Positions
    /\ \E h : History(h)
    /\ DepthRespected

(* The fixture, frame by frame.                                            *)
LEMMA FixtureFrames ==
    ASSUME Positions
    PROVE  /\ Len(fixture) \in 1 .. MaxFrames /\ MaxFrames \in Nat
           /\ \A i \in 1 .. Len(fixture) :
                fixture[i] \in Notifications /\ fixture[i] \in AnyFrames
<1>1. PICK n \in 1 .. MaxFrames : fixture \in [1 .. n -> AnyFrames]
  BY DEF Positions
<1>2. n \in Nat /\ fixture \in Seq(AnyFrames) /\ Len(fixture) = n
  BY <1>1
<1>3. \A frame \in AnyFrames : frame \in Notifications
  BY DEF AnyFrames
<1>4. QED  BY <1>1, <1>2, <1>3, ReplayAssumption

LEMMA FixtureDomain ==
    ASSUME Positions PROVE DOMAIN fixture = 1 .. Len(fixture)
<1>1. PICK n \in 1 .. MaxFrames : fixture \in [1 .. n -> AnyFrames]
  BY DEF Positions
<1>2. fixture \in Seq(AnyFrames)
  BY <1>1
<1>3. QED  BY <1>2

LEMMA ReplayInit == Init => ReplayInv
<1> SUFFICES ASSUME Init PROVE ReplayInv
  OBVIOUS
<1>1. LP!IInv
  BY SameLedger, LP!InitInv, NoScoreApart DEF Init
<1>2. PICK n \in 1 .. MaxFrames : fixture \in [1 .. n -> AnyFrames]
  BY DEF Init
<1>3. Positions
  <2>1. Len(fixture) = n /\ n \in Nat
    BY <1>2
  <2>2. DOMAIN frames = 1 .. 0 /\ checkpoint = 0 /\ reconciled = 0 /\ pc = "down"
    BY DEF Init, Journal!Init
  <2>3. QED  BY <1>2, <2>1, <2>2 DEF Positions
<1>4. TypeOK
  <2>1. Journal!TypeOK
    BY ReplayAssumption DEF Init, Journal!Init, Journal!TypeOK, Journal!Sequences1
  <2>2. Ledger!TypeOK
    BY <1>1, SameLedger DEF LP!IInv
  <2>3. projection \in Projection
    BY EmptyTyped DEF Init
  <2>4. QED  BY ReplayAssumption, <2>1, <2>2, <2>3 DEF Init, TypeOK
<1>5. History([i \in 0 .. 0 |-> Empty])
  <2>1. Traced(Empty, deposits)
    BY EmptyTyped DEF Traced, Unscored, Empty
  <2>2. BeforeScore(0)
    BY DEF BeforeScore
  <2>3. QED  BY <2>1, <2>2, EmptyTyped DEF Init, History
<1>6. DepthRespected /\ NothingLegacy
  BY DEF Init, Ledger!Init, Ledger!NoRow, DepthRespected, NothingLegacy
<1>7. QED  BY <1>1, <1>3, <1>4, <1>5, <1>6 DEF ReplayInv

-----------------------------------------------------------------------------
(* The fixture never changes.                                              *)
LEMMA FixtureKept ==
    ASSUME UNCHANGED fixture
    PROVE  /\ Readded' = Readded
           /\ \A i : BeforeScore(i)' <=> BeforeScore(i)
           /\ \A op, score : Added(op, score)' <=> Added(op, score)
           /\ \A op, score : AddedEarly(op, score)' <=> AddedEarly(op, score)
<1>1. \A i : BeforeScore(i)' <=> BeforeScore(i)
  BY DEF BeforeScore
<1>2. \A i, op : Adds(i, op)' <=> Adds(i, op)
  BY DEF Adds
<1>3. Readded' = Readded
  BY <1>1, <1>2 DEF Readded
<1>4. \A op, score : Added(op, score)' <=> Added(op, score)
  BY <1>2 DEF Added
<1>5. \A op, score : AddedEarly(op, score)' <=> AddedEarly(op, score)
  BY <1>1, <1>2 DEF AddedEarly
<1>6. QED  BY <1>1, <1>3, <1>4, <1>5

LEMMA TracedNext ==
    ASSUME UNCHANGED fixture, NEW p
    PROVE  Traced(p, deposits)' <=> Traced(p, deposits')
BY FixtureKept DEF Traced, Unscored, Scored, Grounded

(* A step that leaves fixture and ledger alone keeps what is said of them. *)
LEMMA LedgerKept ==
    ASSUME ReplayInv, UNCHANGED <<fixture, ledger>>
    PROVE  /\ LP!IInv' /\ Ledger!TypeOK' /\ NothingLegacy' /\ DepthRespected'
           /\ deposits' = deposits
<1>1. UNCHANGED <<fixture, deposits, legacy, outbox>>
  BY DEF ledger
<1>2. LP!IInv'
  BY <1>1 DEF ReplayInv, LP!IInv, LP!TypeOK, LP!RowsWellFormed, LP!OutboxMirrorsLedger,
              LP!Emitted
<1>3. Ledger!TypeOK'
  BY <1>1 DEF ReplayInv, TypeOK, Ledger!TypeOK
<1>4. NothingLegacy' /\ DepthRespected'
  BY <1>1, FixtureKept DEF ReplayInv, NothingLegacy, DepthRespected
<1>5. QED  BY <1>1, <1>2, <1>3, <1>4

(* The history stays the same when no frame is reconciled.                 *)
LEMMA HistoryKept ==
    ASSUME NEW h, History(h), UNCHANGED <<fixture, deposits, reconciled>>,
           \E j \in 0 .. reconciled : projection' = h[j],
           pc' = "record" => projection' = Empty,
           pc' = "replay" => projection' = h[at'],
           pc' = "mark" => projection' = h[at' + 1]
    PROVE  History(h)'
<1>1. \A i : Result(h, i)' = Result(h, i)
  BY DEF Result
<1>2. \A i : BeforeScore(i)' <=> BeforeScore(i)
  BY FixtureKept
<1>3. \A i \in 0 .. reconciled : Traced(h[i], deposits) => Traced(h[i], deposits)'
  BY TracedNext
<1>4. QED  BY <1>1, <1>2, <1>3 DEF History

LEMMA QuietStep ==
    ASSUME ReplayInv, UNCHANGED <<fixture, ledger, reconciled>>,
           NEW h, History(h), Journal!TypeOK', Positions',
           \E j \in 0 .. reconciled : projection' = h[j],
           pc' = "record" => projection' = Empty,
           pc' = "replay" => projection' = h[at'],
           pc' = "mark" => projection' = h[at' + 1],
           pc' \in {"down", "record", "replay", "mark", "failed", "done"},
           {at', start'} \subseteq 0 .. MaxFrames, crashes' \in 0 .. MaxCrashes
    PROVE  ReplayInv'
<1>1. /\ LP!IInv' /\ Ledger!TypeOK' /\ NothingLegacy' /\ DepthRespected'
      /\ deposits' = deposits
  BY LedgerKept
<1>2. History(h)'
  BY <1>1, HistoryKept
<1>3. projection' \in Projection
  <2>1. h \in [0 .. reconciled -> Projection]
    BY DEF History
  <2>2. QED  BY <2>1
<1>4. TypeOK'
  BY <1>1, <1>3 DEF ReplayInv, TypeOK
<1>5. QED  BY <1>1, <1>2, <1>4 DEF ReplayInv

(* The numbers of the state, with their types.                             *)
LEMMA Numbers ==
    ASSUME ReplayInv
    PROVE  /\ at \in 0 .. MaxFrames /\ start \in 0 .. MaxFrames
           /\ reconciled \in 0 .. MaxFrames /\ checkpoint \in 0 .. MaxFrames
           /\ MaxFrames \in Nat /\ crashes \in 0 .. MaxCrashes /\ MaxCrashes \in Nat
           /\ Len(fixture) \in 1 .. MaxFrames
BY FixtureFrames, ReplayAssumption DEF ReplayInv, TypeOK, Journal!TypeOK

-----------------------------------------------------------------------------
(* While frames are replayed the journal holds the whole fixture.          *)
LEMMA Recorded ==
    ASSUME ReplayInv, pc \in {"replay", "mark"}
    PROVE  /\ DOMAIN frames = 1 .. Len(fixture)
           /\ \A i \in 1 .. Len(fixture) : frames[i] = fixture[i]
           /\ reconciled <= Len(fixture)
BY DEF ReplayInv, Positions

(* A frame that was reconciled before is taken again, gives the projection *)
(* it gave then, and is Done if it was the last.                           *)
LEMMA PastFrame ==
    ASSUME ReplayInv, NEW h, History(h), pc = "replay", at < reconciled,
           NEW r, r = Apply(projection, frames[at + 1])
    PROVE  /\ at + 1 \in 1 .. reconciled /\ r.ok /\ r.next = h[at + 1]
           /\ r.next \in Projection
           /\ r.observed \in LP!Batch /\ r.confirmed \in LP!Batch
           /\ r.disappeared \in SUBSET Outpoints
           /\ ~IsNoOp(r) => r.next.virtual_daa \in Scores
           /\ at + 1 = reconciled =>
                LP!Done(deposits, r.observed, r.confirmed, r.disappeared)
<1>1. /\ at \in Nat /\ reconciled \in Nat /\ reconciled <= Len(fixture)
      /\ Len(fixture) \in Nat
  BY Numbers, Recorded
<1>2. at + 1 \in 1 .. reconciled /\ at + 1 \in 1 .. Len(fixture) /\ (at + 1) - 1 = at
  BY <1>1
<1>3. frames[at + 1] = fixture[at + 1] /\ fixture[at + 1] \in Notifications
  BY <1>2, Recorded, FixtureFrames DEF ReplayInv
<1>4. projection = h[at] /\ projection \in Projection
  BY DEF History, ReplayInv, TypeOK
<1>5. r = Result(h, at + 1)
  BY <1>2, <1>3, <1>4 DEF Result
<1>6. r.ok /\ r.next = h[at + 1]
  BY <1>2, <1>5 DEF History
<1>7. /\ r.next \in Projection
      /\ r.observed \in Partial(Scores) /\ r.confirmed \in Partial(Scores)
      /\ r.disappeared \subseteq Outpoints
      /\ ~IsNoOp(r) => r.next.virtual_daa \in Scores
  BY <1>3, <1>4, ApplyTyped
<1>8. r.observed \in LP!Batch /\ r.confirmed \in LP!Batch
  BY <1>7 DEF LP!Batch, Partial
<1>9. ASSUME at + 1 = reconciled
      PROVE  LP!Done(deposits, r.observed, r.confirmed, r.disappeared)
  BY <1>1, <1>5, <1>9 DEF History
<1>10. QED  BY <1>2, <1>6, <1>7, <1>8, <1>9

(* So the ledger accepts it and does not change.                           *)
LEMMA RepeatedFrame ==
    ASSUME ReplayInv, NEW h, History(h), pc = "replay", at + 1 = reconciled,
           NEW r, r = Apply(projection, frames[at + 1])
    PROVE  /\ Acceptable(r.next.virtual_daa, r)
           /\ (IF IsNoOp(r)
               THEN UNCHANGED ledger
               ELSE Ledger!Reconcile(r.next.virtual_daa, r.observed,
                                     r.confirmed, r.disappeared))
              => UNCHANGED ledger
<1>1. at < reconciled
  BY Numbers
<1>2. /\ r.observed \in LP!Batch /\ r.confirmed \in LP!Batch
      /\ r.disappeared \in SUBSET Outpoints
      /\ LP!Done(deposits, r.observed, r.confirmed, r.disappeared)
  BY <1>1, PastFrame
<1>3. /\ LP!ObservedFactsAgree(r.observed)
      /\ LP!ConfirmedFactsAgree(LP!Observe(r.next.virtual_daa, r.observed), r.confirmed)
      /\ LP!Reconcile(r.next.virtual_daa, r.observed, r.confirmed, r.disappeared)
           => UNCHANGED <<deposits, legacy, outbox>>
  BY <1>2, LP!ReconcileAgain, NoScoreApart DEF ReplayInv, LP!IInv
<1>4. Acceptable(r.next.virtual_daa, r)
  BY <1>3, SameLedger DEF Acceptable
<1>5. QED  BY <1>3, <1>4, SameLedger DEF ledger

-----------------------------------------------------------------------------
LEMMA StartInv == ReplayInv /\ Start => ReplayInv'
<1> SUFFICES ASSUME ReplayInv, Start PROVE ReplayInv'
  OBVIOUS
<1>1. PICK h : History(h)
  BY DEF ReplayInv
<1>2. /\ pc' = "record" /\ at' = 0 /\ projection' = Empty
      /\ UNCHANGED <<fixture, frames, checkpoint, issued, ledger, start, reconciled, crashes>>
  BY DEF Start, journal
<1>3. Positions'
  <2>1. PICK k \in 0 .. Len(fixture) :
           /\ DOMAIN frames = 1 .. k
           /\ \A i \in 1 .. k : frames[i] = fixture[i]
           /\ reconciled <= k
    BY DEF ReplayInv, Positions
  <2>2. k \in Nat
    BY Numbers, <2>1
  <2>3. QED  BY <1>2, <2>1, <2>2 DEF ReplayInv, Positions
<1>4. Journal!TypeOK'
  BY <1>2 DEF ReplayInv, TypeOK, Journal!TypeOK
<1>5. projection' = h[0] /\ 0 \in 0 .. reconciled
  BY <1>1, <1>2, Numbers DEF History
<1>6. QED  BY <1>1, <1>2, <1>3, <1>4, <1>5, QuietStep, Numbers

(* The journal takes the next frame of the fixture, or has it already.     *)
LEMMA RecordInv == ReplayInv /\ RecordFixture => ReplayInv'
<1> SUFFICES ASSUME ReplayInv, RecordFixture PROVE ReplayInv'
  OBVIOUS
<1>1. PICK h : History(h)
  BY DEF ReplayInv
<1>2. /\ pc = "record" /\ pc' = "record" /\ at < Len(fixture) /\ at' = at + 1
      /\ UNCHANGED <<fixture, checkpoint, ledger, start, projection, reconciled, crashes>>
      /\ \/ Journal!Record(at + 1, fixture[at + 1])
         \/ at + 1 \in DOMAIN frames /\ UNCHANGED <<frames, issued>>
  BY DEF RecordFixture, journal, Journal!Record
<1>3. /\ at \in Nat /\ Len(fixture) \in Nat /\ at + 1 \in 1 .. Len(fixture)
      /\ at + 1 \in 1 .. MaxFrames /\ at + 1 \in 0 .. MaxFrames
      /\ fixture[at + 1] \in AnyFrames
  BY <1>2, Numbers, FixtureFrames DEF ReplayInv
<1>4. PICK k \in 0 .. Len(fixture) :
         /\ DOMAIN frames = 1 .. k
         /\ \A i \in 1 .. k : frames[i] = fixture[i]
         /\ reconciled <= k /\ at <= k
  BY <1>2 DEF ReplayInv, Positions
<1>5. k \in Nat /\ reconciled \in Nat
  BY <1>3, <1>4, Numbers
<1>6. Positions' /\ Journal!TypeOK'
  <2>1. CASE at + 1 \in DOMAIN frames /\ UNCHANGED <<frames, issued>>
    <3>1. at' <= k
      BY <1>2, <1>3, <1>4, <1>5, <2>1
    <3>2. Positions'
      BY <1>2, <1>4, <2>1, <3>1 DEF ReplayInv, Positions
    <3>3. Journal!TypeOK'
      BY <1>2, <2>1 DEF ReplayInv, TypeOK, Journal!TypeOK
    <3>4. QED  BY <3>2, <3>3
  <2>2. CASE Journal!Record(at + 1, fixture[at + 1])
    <3>1. /\ at + 1 \notin 1 .. k
          /\ frames' = [s \in DOMAIN frames \cup {at + 1} |->
                          IF s = at + 1 THEN fixture[at + 1] ELSE frames[s]]
          /\ issued' = Append(issued, fixture[at + 1])
      BY <1>4, <2>2 DEF Journal!Record, Journal!Insert
    <3>2. k = at
      BY <1>3, <1>4, <1>5, <3>1
    <3>3. /\ k + 1 \in 0 .. Len(fixture)
          /\ DOMAIN frames' = 1 .. k + 1
          /\ \A i \in 1 .. k + 1 : frames'[i] = fixture[i]
          /\ reconciled <= k + 1 /\ at' <= k + 1
      BY <1>2, <1>3, <1>4, <1>5, <3>1, <3>2
    <3>4. Positions'
      BY <1>2, <3>3 DEF ReplayInv, Positions
    <3>5. Journal!TypeOK'
      BY <1>2, <1>3, <3>1 DEF ReplayInv, TypeOK, Journal!TypeOK, Journal!Sequences1
    <3>6. QED  BY <3>4, <3>5
  <2>3. QED  BY <1>2, <2>1, <2>2
<1>7. projection' = Empty /\ \E j \in 0 .. reconciled : projection' = h[j]
  BY <1>1, <1>2 DEF History
<1>8. QED  BY <1>1, <1>2, <1>3, <1>6, <1>7, QuietStep, Numbers

LEMMA StartReplayInv == ReplayInv /\ StartReplay => ReplayInv'
<1> SUFFICES ASSUME ReplayInv, StartReplay PROVE ReplayInv'
  OBVIOUS
<1>1. PICK h : History(h)
  BY DEF ReplayInv
<1>2. /\ pc = "record" /\ at = Len(fixture)
      /\ pc' = "replay" /\ at' = 0 /\ start' = checkpoint
      /\ UNCHANGED <<fixture, frames, checkpoint, issued, ledger, projection, reconciled, crashes>>
  BY DEF StartReplay, journal
<1>3. Positions'
  <2>1. PICK k \in 0 .. Len(fixture) :
           /\ DOMAIN frames = 1 .. k
           /\ \A i \in 1 .. k : frames[i] = fixture[i]
           /\ reconciled <= k /\ at <= k
    BY <1>2 DEF ReplayInv, Positions
  <2>2. k = Len(fixture) /\ k \in Nat
    BY <1>2, <2>1, Numbers
  <2>3. at' < start' \/ at' = checkpoint'
    BY <1>2, Numbers
  <2>4. at' < start' \/ (start' <= at' /\ at' = checkpoint')
    BY <1>2, <2>3, Numbers
  <2>5. QED  BY <1>2, <2>1, <2>2, <2>4 DEF ReplayInv, Positions
<1>4. Journal!TypeOK'
  BY <1>2 DEF ReplayInv, TypeOK, Journal!TypeOK
<1>5. projection' = h[0] /\ 0 \in 0 .. reconciled
  BY <1>1, <1>2, Numbers DEF History
<1>6. start' \in 0 .. MaxFrames /\ at' \in 0 .. MaxFrames
  BY <1>2, Numbers
<1>7. QED  BY <1>1, <1>2, <1>3, <1>4, <1>5, <1>6, QuietStep, Numbers

(* A frame below the checkpoint is never refused.                          *)
LEMMA RebuildInv == ReplayInv /\ Rebuild => ReplayInv' /\ UNCHANGED ledger /\ pc' = "replay"
<1> SUFFICES ASSUME ReplayInv, Rebuild
             PROVE  ReplayInv' /\ UNCHANGED ledger /\ pc' = "replay"
  OBVIOUS
<1>1. PICK h : History(h)
  BY DEF ReplayInv
<1>2. PICK r : r = Apply(projection, frames[at + 1])
  OBVIOUS
<1>3. pc = "replay" /\ at < start /\ start = checkpoint /\ at < reconciled
  BY Numbers DEF Rebuild, ReplayInv, Positions
<1>4. /\ at + 1 \in 1 .. reconciled /\ r.ok /\ r.next = h[at + 1]
      /\ r.next \in Projection
  BY <1>1, <1>2, <1>3, PastFrame
<1>5. /\ projection' = h[at + 1] /\ at' = at + 1 /\ pc' = "replay"
      /\ UNCHANGED <<fixture, frames, checkpoint, issued, ledger, start, reconciled, crashes>>
  BY <1>2, <1>3, <1>4 DEF Rebuild, journal
<1>6. Positions'
  <2>1. at' < start' \/ (start' <= at' /\ at' = checkpoint')
    BY <1>3, <1>5, Numbers
  <2>2. QED  BY <1>3, <1>5, <2>1 DEF ReplayInv, Positions
<1>7. Journal!TypeOK'
  BY <1>5 DEF ReplayInv, TypeOK, Journal!TypeOK
<1>8. at' \in 0 .. MaxFrames /\ at + 1 \in 0 .. reconciled
  BY <1>4, <1>5, Numbers
<1>9. QED  BY <1>1, <1>3, <1>4, <1>5, <1>6, <1>7, <1>8, QuietStep, Numbers

LEMMA MarkInv == ReplayInv /\ Mark => ReplayInv'
<1> SUFFICES ASSUME ReplayInv, Mark PROVE ReplayInv'
  OBVIOUS
<1>1. PICK h : History(h)
  BY DEF ReplayInv
<1>2. /\ pc = "mark" /\ pc' = "replay" /\ at' = at + 1 /\ checkpoint' = at + 1
      /\ UNCHANGED <<fixture, frames, issued, ledger, start, projection, reconciled, crashes>>
  BY DEF Mark, Journal!MarkApplied
<1>3. at = checkpoint /\ reconciled = at + 1 /\ at + 1 \in 0 .. reconciled
  BY <1>2, Numbers DEF ReplayInv, Positions
<1>4. projection' = h[at + 1]
  BY <1>1, <1>2 DEF History
<1>5. start <= at
  BY <1>2 DEF ReplayInv, Positions
<1>6. Positions'
  BY <1>2, <1>3, <1>5, Numbers DEF ReplayInv, Positions
<1>7. Journal!TypeOK'
  BY <1>2, <1>3, Numbers DEF ReplayInv, TypeOK, Journal!TypeOK
<1>8. at' \in 0 .. MaxFrames
  BY <1>2, <1>3, Numbers
<1>9. QED  BY <1>1, <1>2, <1>3, <1>4, <1>6, <1>7, <1>8, QuietStep, Numbers

(* The program stops, whatever the reason; the tables stay as they are.    *)
LEMMA StopInv ==
    ASSUME ReplayInv, pc' \in {"down", "failed", "done"},
           crashes' \in 0 .. MaxCrashes,
           UNCHANGED <<fixture, journal, ledger, at, start, projection, reconciled>>
    PROVE  ReplayInv'
<1>1. PICK h : History(h)
  BY DEF ReplayInv
<1>2. UNCHANGED <<frames, checkpoint, issued>>
  BY DEF journal
<1>3. Positions'
  BY <1>2 DEF ReplayInv, Positions
<1>4. Journal!TypeOK'
  BY <1>2 DEF ReplayInv, TypeOK, Journal!TypeOK
<1>5. \E j \in 0 .. reconciled : projection' = h[j]
  BY <1>1 DEF History
<1>6. QED  BY <1>1, <1>3, <1>4, <1>5, QuietStep, Numbers

-----------------------------------------------------------------------------
(* A frame the ledger takes, or one with nothing in it that is skipped.    *)
FrameTaken(r) ==
    IF IsNoOp(r)
    THEN UNCHANGED ledger
    ELSE Ledger!Reconcile(r.next.virtual_daa, r.observed, r.confirmed, r.disappeared)

LEMMA FrameChanges ==
    ASSUME ReplayInv, NEW r, FrameTaken(r),
           r.observed \in Partial(Scores), r.confirmed \in Partial(Scores),
           r.disappeared \in SUBSET Outpoints,
           ~IsNoOp(r) => r.next.virtual_daa \in Scores
    PROVE  /\ LP!IInv' /\ Ledger!TypeOK' /\ NothingLegacy'
           /\ Changes(deposits, deposits', r.next.virtual_daa,
                      r.observed, r.confirmed, r.disappeared)
           /\ LP!Done(deposits', r.observed, r.confirmed, r.disappeared)
           /\ [LP!Next]_(LP!vars)
<1>1. r.observed \in LP!Batch /\ r.confirmed \in LP!Batch
  BY DEF Partial, LP!Batch
<1>2. /\ LP!IInv'
      /\ LP!Effect(r.next.virtual_daa, r.observed, r.confirmed, r.disappeared)
      /\ [LP!Next]_(LP!vars)
  <2>1. CASE IsNoOp(r)
    <3>1. UNCHANGED <<deposits, legacy, outbox>> /\ r.disappeared = {}
          /\ DOMAIN r.observed = {} /\ DOMAIN r.confirmed = {}
      BY <2>1 DEF FrameTaken, IsNoOp, ledger
    <3>2. LP!IInv' /\ LP!Effect(r.next.virtual_daa, r.observed, r.confirmed, {})
      BY <3>1, LP!NoEffect, NoScoreApart DEF ReplayInv
    <3>3. QED  BY <3>1, <3>2 DEF LP!vars
  <2>2. CASE ~IsNoOp(r)
    <3>1. LP!Reconcile(r.next.virtual_daa, r.observed, r.confirmed, r.disappeared)
      BY <2>2, SameLedger DEF FrameTaken
    <3>2. r.next.virtual_daa \in Scores
      BY <2>2
    <3>3. /\ LP!IInv'
          /\ LP!Effect(r.next.virtual_daa, r.observed, r.confirmed, r.disappeared)
      BY <1>1, <3>1, <3>2, LP!ReconcileInv, LP!ReconcileEffect, NoScoreApart DEF ReplayInv
    <3>4. LP!Next
      BY <1>1, <3>1, <3>2 DEF LP!Next
    <3>5. QED  BY <3>3, <3>4
  <2>3. QED  BY <2>1, <2>2
<1>3. Ledger!TypeOK'
  BY <1>2 DEF LP!IInv, LP!TypeOK, Ledger!TypeOK, Ledger!Row, LP!Row, Ledger!States,
              LP!States, Ledger!Reasons, LP!Reasons, Ledger!Event, LP!Event
<1>4. NothingLegacy'
  BY <1>2 DEF ReplayInv, NothingLegacy, LP!Effect
<1>5. Changes(deposits, deposits', r.next.virtual_daa, r.observed, r.confirmed, r.disappeared)
  BY <1>2 DEF ReplayInv, NothingLegacy, LP!Effect, Changes
<1>6. LP!Done(deposits', r.observed, r.confirmed, r.disappeared)
  BY <1>1, <1>2, LP!EffectDone, NoScoreApart
<1>7. QED  BY <1>2, <1>3, <1>4, <1>5, <1>6

(* What is said of a projection is not undone by the ledger: rows keep     *)
(* their facts.                                                            *)
LEMMA TracedStable ==
    ASSUME NEW p \in Projection, NEW before, NEW after, Traced(p, before),
           \A op \in Outpoints : before[op].state # "absent" =>
              after[op].state # "absent" /\ after[op].facts = before[op].facts
    PROVE  Traced(p, after)
<1>1. DOMAIN p.live \subseteq Outpoints /\ \A s \in p.schedule : s[2] \in Outpoints
  BY PartialScores DEF Projection
<1>2. \A s \in p.schedule : Grounded(s, after)
  BY <1>1 DEF Traced, Grounded
<1>3. p.virtual_daa # NoScore => Scored(p, after)
  BY <1>1 DEF Traced, Scored
<1>4. QED  BY <1>2, <1>3 DEF Traced

(* A schedule entry that is due is of the block its outpoint is live in,   *)
(* unless the fixture added that outpoint twice.                           *)
LEMMA DueOfLive ==
    ASSUME NEW op \in Outpoints, NEW live \in Scores, NEW s, NEW table,
           Added(op, live), s[2] = op, Grounded(s, table),
           table[op].facts = live
    PROVE  op \in Readded \/ s[1] = Maturity(live)
<1>1. CASE \E score \in Scores : AddedEarly(op, score) /\ s[1] = Maturity(score)
  <2>1. PICK score \in Scores : AddedEarly(op, score) /\ s[1] = Maturity(score)
    BY <1>1
  <2>2. score # live => op \in Readded
    BY <2>1 DEF AddedEarly, Added, Readded
  <2>3. QED  BY <2>1, <2>2
<1>2. CASE s[1] = Maturity(table[op].facts)
  BY <1>2
<1>3. QED  BY <1>1, <1>2 DEF Grounded

LEMMA TracedDaa ==
    ASSUME NEW p \in Projection, NEW daa \in Scores, NEW r, r = ApplyDaa(p, daa), r.ok,
           NEW before, NEW after, Traced(p, before),
           Changes(before, after, daa, r.observed, r.confirmed, r.disappeared)
    PROVE  /\ Traced(r.next, after) /\ r.next.virtual_daa = daa /\ daa # NoScore
           /\ \A op \in DOMAIN r.confirmed :
                 op \in Readded \/ Maturity(r.confirmed[op]) <= daa
<1>1. /\ p.virtual_daa # NoScore => p.virtual_daa <= daa
      /\ r.next.virtual_daa = daa /\ r.next.live = p.live /\ r.next.unobserved = {}
      /\ r.next.schedule = p.schedule \ Due(p.schedule, daa)
      /\ r.next.mature = p.mature \cup DOMAIN r.confirmed
      /\ DOMAIN r.observed = p.unobserved \cap DOMAIN p.live
      /\ \A op \in DOMAIN r.observed : r.observed[op] = p.live[op]
      /\ DOMAIN r.confirmed = {op \in DOMAIN p.live \ p.mature :
                                  \E s \in p.schedule : s[1] <= daa /\ s[2] = op}
      /\ \A op \in DOMAIN r.confirmed : r.confirmed[op] = p.live[op]
  BY DaaResult
<1>2. /\ DOMAIN p.live \subseteq Outpoints
      /\ \A op \in DOMAIN p.live : p.live[op] \in Scores /\ Maturity(p.live[op]) \in Nat
  BY PartialScores, MaturityNat DEF Projection
<1>3. /\ daa \in Nat /\ daa # NoScore
      /\ p.virtual_daa # NoScore => p.virtual_daa \in Nat
  BY ScoresAssumption DEF Projection
<1>4. ASSUME NEW op \in DOMAIN p.live
      PROVE  after[op].state # "absent" /\ after[op].facts = p.live[op]
  <2>1. CASE p.virtual_daa = NoScore
    <3>1. op \in DOMAIN r.observed
      BY <1>1, <2>1 DEF Traced, Unscored
    <3>2. QED  BY <1>1, <1>2, <3>1 DEF Changes
  <2>2. CASE p.virtual_daa # NoScore
    BY <1>2, <2>2 DEF Traced, Scored, Changes
  <2>3. QED  BY <2>1, <2>2
<1>5. \A s \in p.schedule : Grounded(s, after)
  <2>1. Traced(p, after)
    BY TracedStable DEF Changes
  <2>2. QED  BY <2>1 DEF Traced
<1>6. ASSUME NEW op \in DOMAIN r.confirmed
      PROVE  op \in DOMAIN p.live /\ (op \in Readded \/ Maturity(p.live[op]) <= daa)
  <2>1. op \in DOMAIN p.live
    BY <1>1
  <2>2. PICK s \in p.schedule : s[1] <= daa /\ s[2] = op
    BY <1>1
  <2>3. Added(op, p.live[op]) /\ Grounded(s, after)
    BY <1>5, <2>1 DEF Traced
  <2>4. op \in Readded \/ s[1] = Maturity(p.live[op])
    BY <1>2, <1>4, <2>1, <2>2, <2>3, DueOfLive
  <2>5. QED  BY <2>1, <2>2, <2>4
<1>7. ASSUME NEW op \in DOMAIN p.live, Maturity(p.live[op]) <= daa
      PROVE  op \in r.next.mature
  <2>1. CASE op \in p.mature
    BY <1>1, <2>1
  <2>2. CASE op \notin p.mature
    <3>1. <<Maturity(p.live[op]), op>> \in p.schedule
      BY <2>2 DEF Traced
    <3>2. QED  BY <1>1, <1>7, <2>2, <3>1
  <2>3. QED  BY <2>1, <2>2
<1>8. ASSUME NEW op \in DOMAIN p.live \ r.next.mature
      PROVE  <<Maturity(p.live[op]), op>> \in r.next.schedule
  <2>1. <<Maturity(p.live[op]), op>> \in p.schedule
    BY <1>1 DEF Traced
  <2>2. ~(Maturity(p.live[op]) <= daa)
    BY <1>7
  <2>3. QED  BY <1>1, <2>1, <2>2 DEF Due
<1>9. ASSUME NEW op \in r.next.mature
      PROVE  op \in DOMAIN p.live /\ (op \in Readded \/ Maturity(p.live[op]) <= daa)
  <2>1. CASE op \in p.mature
    <3>1. p.virtual_daa # NoScore
      BY <2>1 DEF Traced, Unscored
    <3>2. op \in DOMAIN p.live /\ (op \in Readded \/ Maturity(p.live[op]) <= p.virtual_daa)
      BY <2>1, <3>1 DEF Traced, Scored
    <3>3. QED  BY <1>1, <1>2, <1>3, <3>1, <3>2
  <2>2. CASE op \in DOMAIN r.confirmed
    BY <1>6, <2>2
  <2>3. QED  BY <1>1, <2>1, <2>2
<1>10. Scored(r.next, after)
  BY <1>1, <1>4, <1>7, <1>9 DEF Scored
<1>11. Traced(r.next, after)
  BY <1>1, <1>3, <1>5, <1>8, <1>10 DEF Traced
<1>12. QED  BY <1>1, <1>3, <1>6, <1>11

LEMMA TracedUtxos ==
    ASSUME NEW p \in Projection, NEW i \in DOMAIN fixture, i \in Nat \ {0},
           NEW removed \in Partial(Scores), NEW added \in Partial(Scores),
           fixture[i] = UtxosChanged(removed, added),
           p.virtual_daa = NoScore => BeforeScore(i - 1),
           NEW r, r = ApplyUtxos(p, removed, added), r.ok,
           NEW before, NEW after, Traced(p, before),
           Changes(before, after, r.next.virtual_daa, r.observed, r.confirmed, r.disappeared)
    PROVE  /\ Traced(r.next, after)
           /\ r.next.virtual_daa = NoScore => BeforeScore(i)
           /\ \A op \in DOMAIN r.confirmed :
                 Maturity(r.confirmed[op]) <= r.next.virtual_daa
<1> DEFINE stay == DOMAIN p.live \ DOMAIN removed
           new == DOMAIN added \ stay
           known == DOMAIN removed \cap DOMAIN p.live
<1>1. /\ r.next.virtual_daa = p.virtual_daa
      /\ DOMAIN r.next.live = stay \cup DOMAIN added
      /\ \A op \in stay : r.next.live[op] = p.live[op]
      /\ \A op \in DOMAIN added : r.next.live[op] = added[op]
      /\ r.next.mature = (p.mature \ known) \cup DOMAIN r.confirmed
      /\ \A op \in DOMAIN r.observed : op \in DOMAIN added /\ r.observed[op] = added[op]
      /\ \A op \in DOMAIN r.confirmed : op \in DOMAIN added /\ r.confirmed[op] = added[op]
  BY UtxosResult
<1>2. /\ DOMAIN p.live \subseteq Outpoints /\ DOMAIN added \subseteq Outpoints
      /\ \A op \in DOMAIN added : added[op] \in Scores
      /\ \A s \in p.schedule : s[2] \in Outpoints
  BY PartialScores DEF Projection
<1>3. r.next.schedule = p.schedule \cup {<<Maturity(added[op]), op>> : op \in new}
  <2>1. CASE p.virtual_daa = NoScore
    BY <2>1, UtxosResult
  <2>2. CASE p.virtual_daa # NoScore
    <3>1. DOMAIN r.observed = new
      BY <2>2, UtxosResult
    <3>2. r.next.schedule = p.schedule \cup
             {<<Maturity(added[op]), op>> : op \in DOMAIN r.observed}
      BY <2>2, UtxosResult
    <3>3. QED  BY <3>1, <3>2
  <2>3. QED  BY <2>1, <2>2
<1>4. fixture[i].kind = "utxos" /\ fixture[i].added = added
  BY DEF UtxosChanged
<1>5. p.virtual_daa = NoScore => BeforeScore(i)
  <2>1. \A k \in 1 .. i : k \in 1 .. i - 1 \/ k = i
    OBVIOUS
  <2>2. QED  BY <1>4, <2>1 DEF BeforeScore
<1>6. /\ \A op \in DOMAIN added : Added(op, added[op])
      /\ p.virtual_daa = NoScore => \A op \in DOMAIN added : AddedEarly(op, added[op])
  BY <1>4, <1>5 DEF Added, AddedEarly, Adds
<1>7. Traced(p, after)
  BY TracedStable DEF Changes
<1>8. \A op \in DOMAIN r.next.live : Added(op, r.next.live[op])
  BY <1>1, <1>6 DEF Traced
<1>9. p.mature \subseteq DOMAIN p.live
  BY DEF Traced, Unscored, Scored
<1>10. ASSUME NEW op \in DOMAIN r.next.live \ r.next.mature
       PROVE  <<Maturity(r.next.live[op]), op>> \in r.next.schedule
  <2>1. CASE op \in new
    BY <1>1, <1>3, <2>1
  <2>2. CASE op \in stay
    <3>1. op \in DOMAIN p.live \ p.mature
      BY <1>1, <1>10, <2>2
    <3>2. QED  BY <1>1, <1>3, <2>2, <3>1 DEF Traced
  <2>3. QED  BY <1>1, <2>1, <2>2
<1>11. ASSUME NEW s \in r.next.schedule PROVE Grounded(s, after)
  <2>1. CASE s \in p.schedule
    BY <1>7, <2>1 DEF Traced
  <2>2. CASE s \in {<<Maturity(added[op]), op>> : op \in new}
    <3>1. PICK op \in new : s = <<Maturity(added[op]), op>>
      BY <2>2
    <3>2. s[2] = op /\ s[1] = Maturity(added[op]) /\ op \in DOMAIN added
      BY <3>1
    <3>3. CASE p.virtual_daa = NoScore
      BY <1>2, <1>6, <3>2, <3>3 DEF Grounded
    <3>4. CASE p.virtual_daa # NoScore
      <4>1. op \in DOMAIN r.observed
        BY <3>1, <3>4, UtxosResult
      <4>2. after[op].state # "absent" /\ after[op].facts = added[op]
        BY <1>1, <1>2, <3>2, <4>1 DEF Changes
      <4>3. QED  BY <3>2, <4>2 DEF Grounded
    <3>5. QED  BY <3>3, <3>4
  <2>3. QED  BY <1>3, <2>1, <2>2
<1>12. ASSUME p.virtual_daa = NoScore
       PROVE  Unscored(r.next) /\ DOMAIN r.confirmed = {}
  <2>1. /\ IsNoOp(r)
        /\ r.next.unobserved = (p.unobserved \ known) \cup new
    BY <1>12, UtxosResult
  <2>2. p.mature = {} /\ DOMAIN p.live \subseteq p.unobserved
    BY <1>12 DEF Traced, Unscored
  <2>3. DOMAIN r.confirmed = {}
    BY <2>1 DEF IsNoOp
  <2>4. r.next.mature = {}
    BY <1>1, <2>2, <2>3
  <2>5. DOMAIN r.next.live \subseteq r.next.unobserved
    BY <1>1, <2>1, <2>2
  <2>6. QED  BY <2>3, <2>4, <2>5 DEF Unscored
<1>13. ASSUME p.virtual_daa # NoScore
       PROVE  /\ Scored(r.next, after)
              /\ \A op \in DOMAIN r.confirmed :
                    Maturity(r.confirmed[op]) <= r.next.virtual_daa
  <2>1. /\ r.next.unobserved = p.unobserved \ known
        /\ DOMAIN r.observed = new
        /\ DOMAIN r.confirmed = {op \in new \ (p.mature \ known) :
                                    Maturity(added[op]) <= p.virtual_daa}
    <3>1. /\ r.next.unobserved = p.unobserved \ known
          /\ DOMAIN r.observed = new
      BY <1>13, UtxosResult
    <3>2. DOMAIN r.confirmed = {op \in DOMAIN r.observed \ (p.mature \ known) :
                                   Maturity(added[op]) <= p.virtual_daa}
      BY <1>13, UtxosResult
    <3>3. QED  BY <3>1, <3>2
  <2>2. p.mature \ known \subseteq stay
    BY <1>9
  <2>3. Scored(p, after)
    BY <1>7, <1>13 DEF Traced
  <2>4. ASSUME NEW op \in DOMAIN r.next.live
        PROVE  after[op].state # "absent" /\ after[op].facts = r.next.live[op]
    <3>1. CASE op \in new
      BY <1>1, <1>2, <2>1, <3>1 DEF Changes
    <3>2. CASE op \in stay
      BY <1>1, <2>3, <3>2 DEF Scored
    <3>3. QED  BY <1>1, <3>1, <3>2
  <2>5. ASSUME NEW op \in DOMAIN r.next.live,
               Maturity(r.next.live[op]) <= r.next.virtual_daa
        PROVE  op \in r.next.mature
    <3>1. CASE op \in new
      BY <1>1, <2>1, <2>2, <2>5, <3>1
    <3>2. CASE op \in stay
      BY <1>1, <2>3, <2>5, <3>2 DEF Scored
    <3>3. QED  BY <1>1, <3>1, <3>2
  <2>6. ASSUME NEW op \in r.next.mature
        PROVE  /\ op \in DOMAIN r.next.live
               /\ op \in Readded \/ Maturity(r.next.live[op]) <= r.next.virtual_daa
    <3>1. CASE op \in p.mature \ known
      BY <1>1, <2>2, <2>3, <3>1 DEF Scored
    <3>2. CASE op \in DOMAIN r.confirmed
      BY <1>1, <2>1, <3>2
    <3>3. QED  BY <1>1, <3>1, <3>2
  <2>7. r.next.unobserved = {}
    BY <2>1, <2>3 DEF Scored
  <2>8. \A op \in DOMAIN r.confirmed : Maturity(r.confirmed[op]) <= r.next.virtual_daa
    BY <1>1, <2>1
  <2>9. QED  BY <2>4, <2>5, <2>6, <2>7, <2>8 DEF Scored
<1>14. Traced(r.next, after)
  BY <1>1, <1>8, <1>10, <1>11, <1>12, <1>13 DEF Traced
<1>15. QED  BY <1>1, <1>5, <1>12, <1>13, <1>14

(* So whatever frame of the fixture comes next.                            *)
LEMMA TracedFrame ==
    ASSUME NEW p \in Projection, NEW i \in DOMAIN fixture, i \in Nat \ {0},
           fixture[i] \in Notifications,
           p.virtual_daa = NoScore => BeforeScore(i - 1),
           NEW r, r = Apply(p, fixture[i]), r.ok,
           NEW before, NEW after, Traced(p, before),
           Changes(before, after, r.next.virtual_daa, r.observed, r.confirmed, r.disappeared)
    PROVE  /\ Traced(r.next, after)
           /\ r.next.virtual_daa = NoScore => BeforeScore(i)
           /\ \A op \in DOMAIN r.confirmed :
                 op \in Readded \/ Maturity(r.confirmed[op]) <= r.next.virtual_daa
<1>1. CASE \E daa \in Scores : r = ApplyDaa(p, daa)
  <2>1. PICK daa \in Scores : r = ApplyDaa(p, daa)
    BY <1>1
  <2>2. r.next.virtual_daa = daa
    BY <2>1, DaaResult
  <2>3. QED  BY <2>1, <2>2, TracedDaa
<1>2. CASE \E removed, added \in Partial(Scores) :
             fixture[i] = UtxosChanged(removed, added) /\ r = ApplyUtxos(p, removed, added)
  BY <1>2, TracedUtxos
<1>3. QED  BY <1>1, <1>2, ApplyCases

-----------------------------------------------------------------------------
(* A frame that was never reconciled extends the history by one.           *)
LEMMA NewFrame ==
    ASSUME ReplayInv, NEW h, History(h), pc = "replay", at = checkpoint, start <= at,
           at < Len(fixture), at = reconciled,
           NEW r, r = Apply(projection, frames[at + 1]), r.ok, FrameTaken(r),
           projection' = r.next, pc' = "mark", reconciled' = at + 1,
           UNCHANGED <<fixture, journal, at, start, crashes>>
    PROVE  ReplayInv'
<1>0. PICK g : g = [i \in 0 .. at + 1 |-> IF i <= at THEN h[i] ELSE r.next]
  OBVIOUS
<1>1. /\ at \in Nat /\ Len(fixture) \in Nat /\ at + 1 \in 1 .. Len(fixture)
      /\ at + 1 \in 0 .. MaxFrames /\ (at + 1) - 1 = at
  BY Numbers
<1>2. /\ frames[at + 1] = fixture[at + 1] /\ fixture[at + 1] \in Notifications
      /\ at + 1 <= Len(fixture)
  BY <1>1, Recorded, FixtureFrames DEF ReplayInv
<1>3. projection = h[at] /\ projection \in Projection
  BY DEF History, ReplayInv, TypeOK
<1>4. /\ r.next \in Projection
      /\ r.observed \in Partial(Scores) /\ r.confirmed \in Partial(Scores)
      /\ r.disappeared \in SUBSET Outpoints
      /\ ~IsNoOp(r) => r.next.virtual_daa \in Scores
      /\ projection.virtual_daa # NoScore => r.next.virtual_daa \in Scores
  BY <1>2, <1>3, ApplyTyped
<1>5. /\ LP!IInv' /\ Ledger!TypeOK' /\ NothingLegacy'
      /\ Changes(deposits, deposits', r.next.virtual_daa,
                 r.observed, r.confirmed, r.disappeared)
      /\ LP!Done(deposits', r.observed, r.confirmed, r.disappeared)
  BY <1>4, FrameChanges
<1>6. /\ h \in [0 .. at -> Projection] /\ h[0] = Empty
      /\ \A i \in 1 .. at : Result(h, i).ok /\ h[i] = Result(h, i).next
      /\ \A i \in 0 .. at :
           Traced(h[i], deposits) /\ (h[i].virtual_daa = NoScore => BeforeScore(i))
  BY DEF History
<1>7. /\ g \in [0 .. at + 1 -> Projection] /\ g[0] = Empty /\ g[at + 1] = r.next
      /\ \A i \in 0 .. at : g[i] = h[i]
  BY <1>0, <1>1, <1>4, <1>6
<1>8. /\ \A i \in 1 .. at : Result(g, i) = Result(h, i)
      /\ Result(g, at + 1) = r
  <2>1. ASSUME NEW i \in 1 .. at PROVE g[i - 1] = h[i - 1]
    BY <1>1, <1>7
  <2>2. g[(at + 1) - 1] = h[at]
    BY <1>1, <1>7
  <2>3. QED  BY <1>2, <1>3, <2>1, <2>2 DEF Result
<1>9. /\ Traced(r.next, deposits')
      /\ r.next.virtual_daa = NoScore => BeforeScore(at + 1)
      /\ \A op \in DOMAIN r.confirmed :
           op \in Readded \/ Maturity(r.confirmed[op]) <= r.next.virtual_daa
  <2>1. at + 1 \in DOMAIN fixture /\ at \in 0 .. at
    BY <1>1, FixtureDomain DEF ReplayInv
  <2>2. Traced(projection, deposits) /\ (projection.virtual_daa = NoScore => BeforeScore(at))
    BY <1>3, <1>6, <2>1
  <2>3. r = Apply(projection, fixture[at + 1])
    BY <1>2
  <2>4. PICK i \in DOMAIN fixture : i = at + 1 /\ i \in Nat \ {0} /\ i - 1 = at
    BY <1>1, <2>1
  <2>5. /\ fixture[i] \in Notifications /\ r = Apply(projection, fixture[i])
        /\ projection.virtual_daa = NoScore => BeforeScore(i - 1)
    BY <1>2, <2>2, <2>3, <2>4
  <2>6. /\ Traced(r.next, deposits')
        /\ r.next.virtual_daa = NoScore => BeforeScore(i)
        /\ \A op \in DOMAIN r.confirmed :
              op \in Readded \/ Maturity(r.confirmed[op]) <= r.next.virtual_daa
    BY <1>3, <1>5, <2>2, <2>4, <2>5, TracedFrame
  <2>7. QED  BY <2>4, <2>6
<1>10. History(g)'
  <2>1. reconciled' = at + 1 /\ reconciled' > 0 /\ at + 1 \in 0 .. at + 1 /\ at' = at
        /\ fixture' = fixture
    BY <1>1
  <2>2. \A i \in 1 .. at + 1 : Result(g, i).ok /\ g[i] = Result(g, i).next
    <3>1. \A i \in 1 .. at + 1 : i \in 1 .. at \/ i = at + 1
      BY <1>1
    <3>2. QED  BY <1>6, <1>7, <1>8, <3>1
  <2>3. \A i : Result(g, i)' = Result(g, i)
    BY <2>1 DEF Result
  <2>4. ASSUME NEW i \in 0 .. at + 1
        PROVE  Traced(g[i], deposits)' /\ (g[i].virtual_daa = NoScore => BeforeScore(i)')
    <3>1. Traced(g[i], deposits') /\ (g[i].virtual_daa = NoScore => BeforeScore(i))
      <4>1. CASE i = at + 1
        BY <1>7, <1>9, <4>1
      <4>2. CASE i \in 0 .. at
        <5>1. h[i] \in Projection /\ g[i] = h[i] /\ Traced(h[i], deposits)
              /\ (h[i].virtual_daa = NoScore => BeforeScore(i))
          BY <1>6, <1>7, <4>2
        <5>2. QED  BY <1>5, <5>1, TracedStable DEF Changes
      <4>3. QED  BY <1>1, <4>1, <4>2
    <3>2. QED  BY <2>1, <3>1, FixtureKept, TracedNext
  <2>5. projection' = g[at + 1]
    BY <1>7
  <2>6. LP!Done(deposits', Result(g, at + 1).observed, Result(g, at + 1).confirmed,
                Result(g, at + 1).disappeared)
    BY <1>5, <1>8
  <2>7. QED  BY <1>7, <2>1, <2>2, <2>3, <2>4, <2>5, <2>6 DEF History
<1>11. DepthRespected'
  <2> SUFFICES ASSUME NEW op \in Outpoints \ Readded, deposits'[op].state = "credited"
               PROVE  deposits'[op].credited_daa >= deposits'[op].facts + Required
    BY FixtureKept DEF DepthRespected
  <2>1. CASE deposits[op].state = "credited"
    BY <1>5, <2>1 DEF ReplayInv, DepthRespected, Changes
  <2>2. CASE deposits[op].state # "credited"
    <3>1. /\ op \in DOMAIN r.confirmed
          /\ deposits'[op].credited_daa = r.next.virtual_daa
          /\ deposits'[op].facts = r.confirmed[op]
      BY <1>5, <2>2 DEF Changes
    <3>2. r.next.virtual_daa \in Scores
      BY <1>4, <3>1 DEF IsNoOp
    <3>3. r.confirmed[op] \in Nat /\ r.next.virtual_daa \in Nat
      BY <1>4, <3>1, <3>2, PartialScores, ScoresAssumption
    <3>4. r.confirmed[op] + Required <= r.next.virtual_daa
      BY <1>9, <3>1 DEF Maturity
    <3>5. QED  BY <3>1, <3>3, <3>4, ScoresAssumption
  <2>3. QED  BY <2>1, <2>2
<1>12. UNCHANGED <<frames, checkpoint, issued>>
  BY DEF journal
<1>13. Positions'
  <2>1. /\ Len(fixture) \in 0 .. Len(fixture)
        /\ DOMAIN frames' = 1 .. Len(fixture)
        /\ \A i \in 1 .. Len(fixture) : frames'[i] = fixture[i]
        /\ reconciled' <= Len(fixture)
    BY <1>1, <1>12, Recorded
  <2>2. \E k \in 0 .. Len(fixture) :
           /\ DOMAIN frames' = 1 .. k
           /\ \A i \in 1 .. k : frames'[i] = fixture[i]
           /\ reconciled' <= k
           /\ k = Len(fixture)
    BY <2>1
  <2>3. /\ checkpoint' <= reconciled' /\ reconciled' <= checkpoint' + 1
        /\ pc' = "mark" /\ at' = checkpoint' /\ start' <= at' /\ reconciled' = at' + 1
    <3>1. at' = at /\ start' = start /\ checkpoint' = at /\ reconciled' = at + 1
      BY <1>12
    <3>2. at <= at + 1 /\ at + 1 <= at + 1
      BY <1>1
    <3>3. QED  BY <3>1, <3>2
  <2>4. \E n \in 1 .. MaxFrames : fixture' \in [1 .. n -> AnyFrames]
    BY DEF ReplayInv, Positions
  <2>5. QED  BY <2>2, <2>3, <2>4 DEF Positions
<1>14. TypeOK'
  <2>1. Journal!TypeOK'
    BY <1>12 DEF ReplayInv, TypeOK, Journal!TypeOK
  <2>2. QED  BY <1>1, <1>4, <1>5, <2>1 DEF ReplayInv, TypeOK
<1>15. QED  BY <1>5, <1>10, <1>11, <1>13, <1>14 DEF ReplayInv

(* The frame in hand: a new one, or, after a crash between reconcile and   *)
(* mark_applied, the last one again, which is taken and changes nothing.   *)
LEMMA FrameInv ==
    ReplayInv /\ ReplayFrame =>
      /\ ReplayInv'
      /\ [LP!Next]_(LP!vars)
      /\ at < reconciled => UNCHANGED ledger /\ pc' # "failed"
<1> SUFFICES ASSUME ReplayInv, ReplayFrame
             PROVE  /\ ReplayInv'
                    /\ [LP!Next]_(LP!vars)
                    /\ at < reconciled => UNCHANGED ledger /\ pc' # "failed"
  OBVIOUS
<1>1. PICK h : History(h)
  BY DEF ReplayInv
<1>2. PICK r : r = Apply(projection, frames[at + 1])
  OBVIOUS
<1>3. /\ pc = "replay" /\ start <= at /\ at < Len(fixture) /\ at = checkpoint
      /\ at = reconciled \/ at + 1 = reconciled
      /\ at \in Nat /\ reconciled \in Nat
  BY Numbers DEF ReplayFrame, ReplayInv, Positions
<1>4. \/ /\ r.ok /\ projection' = r.next /\ pc' = "mark" /\ FrameTaken(r)
         /\ reconciled' = IF at < reconciled THEN reconciled ELSE at + 1
         /\ UNCHANGED <<fixture, journal, at, start, crashes>>
      \/ ~(r.ok /\ Acceptable(r.next.virtual_daa, r)) /\ Fail
  BY <1>2 DEF ReplayFrame, FrameTaken
<1>5. CASE at = reconciled
  <2>1. ~(at < reconciled)
    BY <1>3, <1>5
  <2>2. CASE /\ r.ok /\ projection' = r.next /\ pc' = "mark" /\ FrameTaken(r)
             /\ reconciled' = IF at < reconciled THEN reconciled ELSE at + 1
             /\ UNCHANGED <<fixture, journal, at, start, crashes>>
    <3>1. reconciled' = at + 1
      BY <2>1, <2>2
    <3>2. ReplayInv'
      BY <1>1, <1>2, <1>3, <1>5, <2>2, <3>1, NewFrame
    <3>3. frames[at + 1] \in Notifications
      BY <1>3, Numbers, Recorded, FixtureFrames DEF ReplayInv
    <3>4. projection \in Projection
      BY DEF ReplayInv, TypeOK
    <3>5. /\ r.observed \in Partial(Scores) /\ r.confirmed \in Partial(Scores)
          /\ r.disappeared \in SUBSET Outpoints
          /\ ~IsNoOp(r) => r.next.virtual_daa \in Scores
      BY <1>2, <3>3, <3>4, ApplyTyped
    <3>6. [LP!Next]_(LP!vars)
      BY <2>2, <3>5, FrameChanges
    <3>7. QED  BY <2>1, <3>2, <3>6
  <2>3. CASE Fail
    <3>1. ReplayInv'
      BY <2>3, StopInv, Numbers DEF Fail
    <3>2. UNCHANGED LP!vars
      BY <2>3 DEF Fail, ledger, LP!vars
    <3>3. QED  BY <2>1, <3>1, <3>2
  <2>4. QED  BY <1>4, <2>2, <2>3
<1>6. CASE at + 1 = reconciled
  <2>1. at < reconciled
    BY <1>3, <1>6
  <2>2. /\ at + 1 \in 1 .. reconciled /\ r.ok /\ r.next = h[at + 1]
    BY <1>1, <1>2, <1>3, <2>1, PastFrame
  <2>3. Acceptable(r.next.virtual_daa, r) /\ (FrameTaken(r) => UNCHANGED ledger)
    BY <1>1, <1>2, <1>3, <1>6, RepeatedFrame DEF FrameTaken
  <2>4. /\ projection' = h[at + 1] /\ pc' = "mark" /\ reconciled' = reconciled
        /\ UNCHANGED <<fixture, frames, checkpoint, issued, ledger, at, start, crashes>>
    BY <1>4, <2>1, <2>2, <2>3 DEF journal
  <2>5. Positions'
    BY <1>3, <1>6, <2>4 DEF ReplayInv, Positions
  <2>6. Journal!TypeOK'
    BY <2>4 DEF ReplayInv, TypeOK, Journal!TypeOK
  <2>7. /\ \E j \in 0 .. reconciled : projection' = h[j]
        /\ projection' = h[at' + 1]
    BY <2>2, <2>4
  <2>8. ReplayInv'
    BY <1>1, <2>4, <2>5, <2>6, <2>7, QuietStep, Numbers
  <2>9. UNCHANGED LP!vars
    BY <2>4 DEF ledger, LP!vars
  <2>10. QED  BY <2>4, <2>8, <2>9
<1>7. QED  BY <1>3, <1>5, <1>6

-----------------------------------------------------------------------------
LEMMA ReplayStep ==
    ReplayInv /\ [Next]_vars =>
      /\ ReplayInv'
      /\ [LP!Next]_(LP!vars)
      /\ Repeated => UNCHANGED ledger /\ pc' # "failed"
<1> SUFFICES ASSUME ReplayInv, [Next]_vars
             PROVE  /\ ReplayInv'
                    /\ [LP!Next]_(LP!vars)
                    /\ Repeated => UNCHANGED ledger /\ pc' # "failed"
  OBVIOUS
<1>1. UNCHANGED ledger => UNCHANGED LP!vars
  BY DEF ledger, LP!vars
<1>2. CASE ReplayFrame
  BY <1>2, FrameInv DEF Repeated
<1>3. CASE Start
  BY <1>1, <1>3, StartInv DEF Start, Repeated
<1>4. CASE RecordFixture
  BY <1>1, <1>4, RecordInv DEF RecordFixture, Repeated
<1>5. CASE StartReplay
  BY <1>1, <1>5, StartReplayInv DEF StartReplay, Repeated
<1>6. CASE Rebuild
  BY <1>1, <1>6, RebuildInv
<1>7. CASE Mark
  BY <1>1, <1>7, MarkInv DEF Mark, Repeated
<1>8. CASE Finish
  <2>1. /\ pc' = "done" /\ crashes' = crashes
        /\ UNCHANGED <<fixture, journal, ledger, at, start, projection, reconciled>>
    BY <1>8 DEF Finish
  <2>2. ReplayInv'
    BY <2>1, StopInv, Numbers
  <2>3. QED  BY <1>1, <2>1, <2>2
<1>9. CASE Restart
  <2>1. /\ pc' = "down" /\ crashes' \in 0 .. MaxCrashes
        /\ UNCHANGED <<fixture, journal, ledger, at, start, projection, reconciled>>
    BY <1>9, Numbers DEF Restart
  <2>2. ReplayInv'
    BY <2>1, StopInv
  <2>3. QED  BY <1>1, <2>1, <2>2
<1>10. CASE UNCHANGED vars
  <2>1. UNCHANGED <<fixture, frames, checkpoint, issued, ledger, pc, at, start, projection,
                    reconciled, crashes>>
    BY <1>10 DEF vars, journal
  <2>2. PICK h : History(h)
    BY DEF ReplayInv
  <2>3. Positions' /\ Journal!TypeOK'
    BY <2>1 DEF ReplayInv, Positions, TypeOK, Journal!TypeOK
  <2>4. /\ \E j \in 0 .. reconciled : projection' = h[j]
        /\ pc' = "record" => projection' = Empty
        /\ pc' = "replay" => projection' = h[at']
        /\ pc' = "mark" => projection' = h[at' + 1]
    BY <2>1, <2>2 DEF History
  <2>5. pc \in {"down", "record", "replay", "mark", "failed", "done"}
    BY DEF ReplayInv, TypeOK
  <2>6. ReplayInv'
    BY <2>1, <2>2, <2>3, <2>4, <2>5, QuietStep, Numbers
  <2>7. QED  BY <1>1, <2>1, <2>6 DEF Repeated
<1>11. QED
  BY <1>2, <1>3, <1>4, <1>5, <1>6, <1>7, <1>8, <1>9, <1>10 DEF Next

(* Wherever a crash comes, the three durable counters and the projection a *)
(* run rebuilds stay within one frame of each other.                       *)
THEOREM ReplayInvariant == Spec => []ReplayInv
<1>1. ReplayInv /\ [Next]_vars => ReplayInv'
  BY ReplayStep
<1>2. QED  BY <1>1, ReplayInit, PTL DEF Spec

(* What a restart rebuilds from the journal is an exact projection, for    *)
(* every fixture: the mature set is what a scan would find, no outpoint is *)
(* left waiting, and only one the fixture adds in two blocks, the first    *)
(* before any score, can be counted as mature before it is.                *)
THEOREM Agreement == Spec => []Consistent
<1>1. ASSUME ReplayInv PROVE ProjectionExact
  <2>1. PICK h : History(h)
    BY <1>1 DEF ReplayInv
  <2>2. PICK j \in 0 .. reconciled : projection = h[j]
    BY <2>1 DEF History
  <2>3. Traced(projection, deposits)
    BY <2>1, <2>2 DEF History
  <2>4. QED  BY <2>3 DEF ProjectionExact, Traced, Scored
<1>2. ReplayInv => Consistent
  BY <1>1 DEF ReplayInv, Consistent
<1>3. QED  BY <1>2, ReplayInvariant, PTL

(* No deposit is credited less than Required deep, however often the       *)
(* replay is cut off and started again, except one the fixture adds in two *)
(* blocks, the first before any score.                                     *)
THEOREM CreditedDeep == Spec => []DepthRespected
<1>1. ReplayInv => DepthRespected
  BY DEF ReplayInv
<1>2. QED  BY <1>1, ReplayInvariant, PTL

(* "Idempotent deposit reconciliation": a frame that a crash separated     *)
(* from its mark is taken a second time, is never refused and changes      *)
(* nothing, whatever frames led to it.                                     *)
THEOREM ReplayedOnce == Spec => ReplayIdempotent
<1>1. ReplayInv /\ [Next]_vars => [Repeated => UNCHANGED ledger /\ pc' # "failed"]_vars
  BY ReplayStep
<1>2. QED  BY <1>1, ReplayInvariant, PTL DEF Spec, ReplayIdempotent

-----------------------------------------------------------------------------
LEMMA LedgerSame == Ledger!Spec <=> LP!Spec
<1>1. Ledger!Init <=> LP!Init
  BY SameLedger
<1>2. \A op : /\ Ledger!ReverseCreditedOnReorg(op) <=> LP!ReverseCreditedOnReorg(op)
              /\ Ledger!ImportLegacyCredit(op) <=> LP!ImportLegacyCredit(op)
  BY DEF Ledger!ReverseCreditedOnReorg, LP!ReverseCreditedOnReorg, Ledger!InsertOutbox,
         LP!InsertOutbox, Ledger!ImportLegacyCredit, LP!ImportLegacyCredit
<1>3. [Ledger!Next]_(Ledger!vars) <=> [LP!Next]_(LP!vars)
  BY <1>2, SameLedger DEF Ledger!Next, LP!Next, Ledger!vars, LP!vars
<1>4. QED  BY <1>1, <1>3, PTL DEF Ledger!Spec, LP!Spec

(* The replay touches the ledger only by ledger transactions, and so all   *)
(* that is proved of the ledger holds of it under replays and crashes.     *)
THEOREM LedgerImplemented == Spec => Ledger!Spec
<1>1. Init => LP!Init
  BY SameLedger DEF Init
<1>2. ReplayInv /\ [Next]_vars => [LP!Next]_(LP!vars)
  BY ReplayStep
<1>3. QED  BY <1>1, <1>2, LedgerSame, ReplayInvariant, PTL DEF Spec, LP!Spec

(* What the ledger guarantees holds under replays, whatever crashes.       *)
THEOREM LedgerGuarantees ==
    Spec => /\ []LP!OutboxMirrorsLedger
            /\ LP!ImplementsCreditLifecycle
BY LedgerImplemented, LedgerSame, LP!OutboxFaithful, LP!Refinement,
   NoScoreApart, PTL

-----------------------------------------------------------------------------
(* A step of the replay is one of the journal.                             *)
LEMMA JournalStep == ReplayInv /\ [Next]_vars => [Journal!Next]_(Journal!vars)
<1> SUFFICES ASSUME ReplayInv, [Next]_vars PROVE [Journal!Next]_(Journal!vars)
  OBVIOUS
<1>1. CASE UNCHANGED journal
  BY <1>1 DEF journal, Journal!vars
<1>2. CASE RecordFixture
  <2>1. Journal!Record(at + 1, fixture[at + 1]) \/ UNCHANGED journal
    BY <1>2 DEF RecordFixture
  <2>2. /\ at + 1 \in Journal!Sequences1 /\ fixture[at + 1] \in AnyFrames
    BY <1>2, Numbers, FixtureFrames DEF RecordFixture, ReplayInv, Journal!Sequences1
  <2>3. CASE Journal!Record(at + 1, fixture[at + 1])
    BY <2>2, <2>3 DEF Journal!Next
  <2>4. QED  BY <1>1, <2>1, <2>3
<1>3. CASE Mark
  <2>1. Journal!MarkApplied(at + 1) /\ at + 1 \in Journal!Sequences1
    BY <1>3, Recorded, Numbers DEF Mark, Journal!MarkApplied, Journal!Sequences1
  <2>2. QED  BY <2>1 DEF Journal!Next
<1>4. CASE Start \/ StartReplay \/ Rebuild \/ ReplayFrame \/ Finish \/ Restart
           \/ UNCHANGED vars
  BY <1>1, <1>4 DEF Start, StartReplay, Rebuild, ReplayFrame, Finish, Restart, Fail, vars
<1>5. QED  BY <1>2, <1>3, <1>4 DEF Next

(* Recording the fixture again after a crash is a use of the journal its   *)
(* own module allows: what is proved of the journal, that no frame is lost *)
(* or numbered twice and that it is a queue, is true of the replay's.      *)
THEOREM JournalImplemented == Spec => Journal!Spec
<1>1. Init => Journal!Init
  BY DEF Init
<1>2. QED  BY <1>1, JournalStep, ReplayInvariant, PTL DEF Spec, Journal!Spec
=============================================================================
