-------------------------- MODULE WrpcIngest_proofs --------------------------
(***************************************************************************)
(* Proofs about WrpcIngest: for every set of outpoints, every depth, any   *)
(* chain and any number of frames on the wire and in the journal, with     *)
(* torn scans, broken connections, refused batches and crashes.            *)
(***************************************************************************)
EXTENDS WrpcIngest, TLAPS

LP == INSTANCE DepositLedger_proofs
        WITH Facts <- Scores, Daa <- Scores, NoDaa <- NoFacts
PP == INSTANCE WrpcProjection_proofs WITH NoScore <- NoFacts

LEMMA ScoresApart ==
    /\ NoFacts \notin Scores
    /\ Scores \subseteq Nat /\ Required \in Nat /\ NoFacts \notin Nat
BY BoundsAssumption, ChainAssumption DEF Scores

(* The instances of the model and those of the proofs are the same.        *)
LEMMA SameLedger ==
    /\ \A d, observed, confirmed, disappeared :
          Ledger!Reconcile(d, observed, confirmed, disappeared)
            <=> LP!Reconcile(d, observed, confirmed, disappeared)
    /\ Ledger!TypeOK <=> LP!TypeOK
    /\ Ledger!Init <=> LP!Init
    /\ Ledger!Batch = LP!Batch
<1>1. ASSUME NEW d, NEW observed, NEW confirmed, NEW disappeared
      PROVE  Ledger!Reconcile(d, observed, confirmed, disappeared)
               <=> LP!Reconcile(d, observed, confirmed, disappeared)
  BY DEF Ledger!Reconcile, LP!Reconcile, Ledger!Observe, LP!Observe,
         Ledger!Confirm, LP!Confirm, Ledger!Disappear, LP!Disappear,
         Ledger!ObservedFactsAgree, LP!ObservedFactsAgree,
         Ledger!ConfirmedFactsAgree, LP!ConfirmedFactsAgree,
         Ledger!InsertOutbox, LP!InsertOutbox
<1>2. Ledger!TypeOK <=> LP!TypeOK
  BY DEF Ledger!TypeOK, LP!TypeOK, Ledger!Row, LP!Row, Ledger!States, LP!States,
         Ledger!Reasons, LP!Reasons, Ledger!Event, LP!Event
<1>3. Ledger!Init <=> LP!Init
  BY DEF Ledger!Init, LP!Init, Ledger!NoRow, LP!NoRow
<1>4. Ledger!Batch = LP!Batch
  BY DEF Ledger!Batch, LP!Batch
<1>5. QED  BY <1>1, <1>2, <1>3, <1>4

LEMMA SameProjection ==
    /\ Proj!Projection = PP!Projection /\ Proj!Empty = PP!Empty
    /\ Proj!Notifications = PP!Notifications
    /\ \A S : Proj!Partial(S) = PP!Partial(S)
    /\ \A p, d, utxos : Proj!Bootstrap(p, d, utxos) = PP!Bootstrap(p, d, utxos)
    /\ \A p, frame : Proj!Apply(p, frame) = PP!Apply(p, frame)
    /\ \A p : Proj!Err(p) = PP!Err(p)
<1>1. /\ \A S : Proj!Partial(S) = PP!Partial(S)
      /\ Proj!Empty = PP!Empty
      /\ \A f, D : Proj!Restricted(f, D) = PP!Restricted(f, D)
      /\ \A score : Proj!Maturity(score) = PP!Maturity(score)
      /\ \A schedule, d : Proj!Due(schedule, d) = PP!Due(schedule, d)
      /\ \A frame : Proj!Decodable(frame) <=> PP!Decodable(frame)
  BY DEF Proj!Partial, PP!Partial, Proj!Empty, PP!Empty, Proj!Restricted, PP!Restricted,
         Proj!Maturity, PP!Maturity, Proj!Due, PP!Due, Proj!Decodable, PP!Decodable
<1>2. Proj!Projection = PP!Projection
  BY <1>1 DEF Proj!Projection, PP!Projection
<1>3. Proj!Notifications = PP!Notifications
  BY <1>1 DEF Proj!Notifications, PP!Notifications, Proj!DaaChanged, PP!DaaChanged,
              Proj!UtxosChanged, PP!UtxosChanged
<1>4. \A p : Proj!Err(p) = PP!Err(p)
  BY <1>1 DEF Proj!Err, PP!Err
<1>5. ASSUME NEW p, NEW d, NEW utxos
      PROVE  Proj!Bootstrap(p, d, utxos) = PP!Bootstrap(p, d, utxos)
  BY <1>1 DEF Proj!Bootstrap, PP!Bootstrap, Proj!FullSnapshot, PP!FullSnapshot
<1>6. ASSUME NEW p, NEW d PROVE Proj!ApplyDaa(p, d) = PP!ApplyDaa(p, d)
  BY <1>1, <1>4 DEF Proj!ApplyDaa, PP!ApplyDaa
<1>7. ASSUME NEW p, NEW removed, NEW added
      PROVE  Proj!ApplyUtxos(p, removed, added) = PP!ApplyUtxos(p, removed, added)
  BY <1>1, <1>4 DEF Proj!ApplyUtxos, PP!ApplyUtxos
<1>8. ASSUME NEW p, NEW frame PROVE Proj!Apply(p, frame) = PP!Apply(p, frame)
  BY <1>1, <1>4, <1>6, <1>7 DEF Proj!Apply, PP!Apply
<1>9. QED  BY <1>1, <1>2, <1>3, <1>4, <1>5, <1>8

-----------------------------------------------------------------------------
Synced == pc \in {"boot_replay", "failover_replay", "scan_replay", "live", "mark"}

(* Frames on the wire and in the journal are notifications.                *)
FramesTyped ==
    wire \in Seq(Proj!Notifications) /\ pending \in Seq(Proj!Notifications)

(* Projection and ledger are in step while frames are applied; after the   *)
(* live projection has taken a frame the ledger has not, they were.        *)
InStep ==
    /\ Synced => PP!Sync(projection, deposits)
    /\ pc = "reconcile" =>
         \E p \in Proj!Projection, frame \in Proj!Notifications :
            /\ PP!Sync(p, deposits)
            /\ work = Proj!Apply(p, frame) /\ work.ok
            /\ projection = work.next

(* On a live connection the journal holds the frame in hand, or nothing.   *)
JournalDrained ==
    /\ pc = "live" => pending = <<>>
    /\ pc \in {"reconcile", "mark"} => Len(pending) = 1

NothingLegacy == legacy = {}

IngestInv ==
    /\ TypeOK
    /\ LP!IInv
    /\ FramesTyped
    /\ NothingLegacy
    /\ InStep
    /\ JournalDrained
    /\ DepthRespected

LEMMA IngestInit == Init => IngestInv
<1> SUFFICES ASSUME Init PROVE IngestInv
  OBVIOUS
<1>1. LP!IInv
  BY SameLedger, LP!InitInv, ScoresApart DEF Init
<1>2. ChainTypeOK
  BY ChainAssumption DEF Init, ChainInit, ChainTypeOK, Utxos, NoUtxos, Scores
<1>3. projection \in Proj!Projection
  BY SameProjection, PP!EmptyTyped, ScoresApart DEF Init
<1>4. TypeOK
  <2>1. LP!TypeOK
    BY <1>1 DEF LP!IInv
  <2>2. Ledger!TypeOK
    BY <2>1, SameLedger
  <2>3. reconciled \in BOOLEAN
    BY DEF Init
  <2>4. faults \in 0 .. MaxFaults
    BY BoundsAssumption DEF Init
  <2>5. QED
    BY <1>2, <1>3, <2>2, <2>3, <2>4 DEF Init, TypeOK, Phases
<1>5. FramesTyped /\ NothingLegacy /\ InStep /\ JournalDrained
  BY DEF Init, FramesTyped, NothingLegacy, InStep, Synced, JournalDrained, Ledger!Init
<1>6. DepthRespected
  BY DEF Init, DepthRespected, Ledger!Init, Ledger!NoRow
<1>7. QED  BY <1>1, <1>4, <1>5, <1>6 DEF IngestInv

-----------------------------------------------------------------------------
(* A batch the ledger takes, or one with nothing in it that is skipped.    *)
LEMMA ReconcileChanges ==
    ASSUME IngestInv, NEW r, NEW disappeared \in SUBSET Outpoints,
           r.next.virtual_daa \in Scores,
           r.observed \in Proj!Partial(Scores), r.confirmed \in Proj!Partial(Scores),
           \/ Reconcile(r, disappeared)
           \/ /\ UNCHANGED ledger /\ disappeared = {}
              /\ DOMAIN r.observed = {} /\ DOMAIN r.confirmed = {}
    PROVE  /\ LP!IInv' /\ Ledger!TypeOK' /\ NothingLegacy'
           /\ PP!Changes(deposits, deposits', r.next.virtual_daa,
                         r.observed, r.confirmed, disappeared)
<1>1. r.observed \in LP!Batch /\ r.confirmed \in LP!Batch
  BY DEF Proj!Partial, LP!Batch
<1>2. /\ LP!IInv'
      /\ LP!Effect(r.next.virtual_daa, r.observed, r.confirmed, disappeared)
  <2>1. CASE Reconcile(r, disappeared)
    <3>1. LP!Reconcile(r.next.virtual_daa, r.observed, r.confirmed, disappeared)
      BY <2>1, SameLedger DEF Reconcile
    <3>2. QED
      BY <1>1, <3>1, LP!ReconcileInv, LP!ReconcileEffect, ScoresApart DEF IngestInv
  <2>2. CASE /\ UNCHANGED ledger /\ disappeared = {}
             /\ DOMAIN r.observed = {} /\ DOMAIN r.confirmed = {}
    BY <2>2, LP!NoEffect, ScoresApart DEF IngestInv, ledger
  <2>3. QED  BY <2>1, <2>2
<1>3. Ledger!TypeOK'
  BY <1>2 DEF LP!IInv, LP!TypeOK, Ledger!TypeOK, Ledger!Row, LP!Row, Ledger!States,
              LP!States, Ledger!Reasons, LP!Reasons, Ledger!Event, LP!Event
<1>4. NothingLegacy'
  BY <1>2 DEF IngestInv, NothingLegacy, LP!Effect
<1>5. PP!Changes(deposits, deposits', r.next.virtual_daa, r.observed, r.confirmed, disappeared)
  BY <1>2 DEF IngestInv, NothingLegacy, LP!Effect, PP!Changes
<1>6. QED  BY <1>2, <1>3, <1>4, <1>5

(* What is confirmed is deep, so what is credited is.                      *)
LEMMA DepthKept ==
    ASSUME DepthRespected, NEW d \in Scores, NEW observed, NEW disappeared,
           NEW confirmed \in Proj!Partial(Scores),
           \A op \in DOMAIN confirmed : PP!Maturity(confirmed[op]) <= d,
           PP!Changes(deposits, deposits', d, observed, confirmed, disappeared)
    PROVE  DepthRespected'
<1> SUFFICES ASSUME NEW op \in Outpoints, deposits'[op].state = "credited"
             PROVE  deposits'[op].credited_daa >= deposits'[op].facts + Required
  BY DEF DepthRespected
<1>1. CASE deposits[op].state = "credited"
  BY <1>1 DEF DepthRespected, PP!Changes
<1>2. CASE deposits[op].state # "credited"
  <2>1. /\ op \in DOMAIN confirmed /\ deposits'[op].credited_daa = d
        /\ deposits'[op].facts = confirmed[op]
    BY <1>2 DEF PP!Changes
  <2>2. confirmed[op] \in Nat /\ d \in Nat
    BY <2>1, SameProjection, PP!PartialScores, ScoresApart
  <2>3. confirmed[op] + Required <= d
    BY <2>1 DEF PP!Maturity
  <2>4. QED  BY <2>1, <2>2, <2>3, ScoresApart
<1>3. QED  BY <1>1, <1>2

(* A step that leaves the ledger alone keeps what is said of it.           *)
LEMMA LedgerFrame ==
    ASSUME IngestInv, UNCHANGED ledger
    PROVE  /\ LP!IInv' /\ Ledger!TypeOK' /\ NothingLegacy' /\ DepthRespected'
           /\ deposits' = deposits
<1>1. UNCHANGED <<deposits, legacy, outbox>>
  BY DEF ledger
<1>2. LP!IInv'
  BY <1>1 DEF IngestInv, LP!IInv, LP!TypeOK, LP!RowsWellFormed, LP!OutboxMirrorsLedger,
              LP!Emitted
<1>3. Ledger!TypeOK'
  BY <1>1 DEF IngestInv, TypeOK, Ledger!TypeOK
<1>4. NothingLegacy' /\ DepthRespected'
  BY <1>1 DEF IngestInv, NothingLegacy, DepthRespected
<1>5. QED  BY <1>1, <1>2, <1>3, <1>4

(* An error, wherever it comes, leads to a phase that starts with a        *)
(* snapshot: nothing is asked of the projection it leaves behind.          *)
LEMMA FailsInv ==
    ASSUME IngestInv, NEW left \in Proj!Projection, Fails(left),
           UNCHANGED <<chain, ledger>>, faults' \in 0 .. MaxFaults
    PROVE  IngestInv'
<1>1. /\ LP!IInv' /\ Ledger!TypeOK' /\ NothingLegacy' /\ DepthRespected'
  BY LedgerFrame
<1>2. /\ pc' \in {"down", "scan", "failover"}
      /\ wire' = <<>> /\ fetched_daa' = NoFacts /\ fetched_utxos' = NoFacts
      /\ reconciled' = FALSE /\ pending' = pending
      /\ projection' \in Proj!Projection
  BY SameProjection, PP!EmptyTyped, ScoresApart DEF Fails, NoScan
<1>3. ChainTypeOK'
  BY DEF IngestInv, TypeOK, chain, ChainTypeOK
<1>4. TypeOK'
  BY <1>1, <1>2, <1>3 DEF TypeOK, Phases
<1>5. FramesTyped' /\ InStep' /\ JournalDrained'
  BY <1>2 DEF IngestInv, FramesTyped, InStep, Synced, JournalDrained
<1>6. QED  BY <1>1, <1>4, <1>5 DEF IngestInv

-----------------------------------------------------------------------------
(* apply_fetched_snapshot puts projection and ledger in step, whatever     *)
(* they were before and however old either answer is.                      *)
LEMMA SnapshotInv == IngestInv /\ ApplySnapshot => IngestInv'
<1> SUFFICES ASSUME IngestInv, ApplySnapshot PROVE IngestInv'
  OBVIOUS
<1>1. PICK r : r = Proj!Bootstrap(projection, fetched_daa, fetched_utxos)
  OBVIOUS
<1>2. /\ \/ /\ Reconcile(r, r.disappeared \cup Missing(r))
            /\ projection' = r.next
            /\ pc' = CASE pc = "boot" -> "boot_replay"
                       [] pc = "failover" -> "failover_replay"
                       [] pc = "scan" -> "scan_replay"
            /\ NoScan
            /\ UNCHANGED <<wire, work, journal>>
         \/ Fails(r.next) /\ UNCHANGED ledger
      /\ UNCHANGED <<chain, faults>>
  BY <1>1 DEF ApplySnapshot
<1>3. fetched_daa \in Scores /\ fetched_utxos \in Utxos /\ projection \in Proj!Projection
  BY DEF ApplySnapshot, IngestInv, TypeOK
<1>4. /\ projection \in PP!Projection /\ fetched_utxos \in PP!Partial(Scores)
      /\ r = PP!Bootstrap(projection, fetched_daa, fetched_utxos)
  BY <1>1, <1>3, SameProjection DEF Utxos, PP!Partial
<1>5. /\ r.next \in PP!Projection /\ r.next.virtual_daa = fetched_daa
      /\ r.next.live = fetched_utxos
      /\ r.observed = fetched_utxos /\ r.observed \in PP!Partial(Scores)
      /\ r.confirmed \in PP!Partial(Scores)
      /\ DOMAIN r.confirmed = r.next.mature
      /\ \A op \in DOMAIN r.confirmed : r.confirmed[op] = fetched_utxos[op]
      /\ r.disappeared \subseteq Outpoints
      /\ PP!Exact(r.next)
  BY <1>3, <1>4, PP!BootstrapTyped, ScoresApart
<1>6. ChainTypeOK' /\ faults' \in 0 .. MaxFaults
  BY <1>2 DEF IngestInv, TypeOK, chain, ChainTypeOK
<1>7. CASE Fails(r.next) /\ UNCHANGED ledger
  BY <1>2, <1>5, <1>6, <1>7, FailsInv, SameProjection
<1>8. CASE /\ Reconcile(r, r.disappeared \cup Missing(r))
           /\ projection' = r.next
           /\ pc' = CASE pc = "boot" -> "boot_replay"
                      [] pc = "failover" -> "failover_replay"
                      [] pc = "scan" -> "scan_replay"
           /\ NoScan
           /\ UNCHANGED <<wire, work, journal>>
  <2>1. PICK disappeared : disappeared = r.disappeared \cup Missing(r)
    OBVIOUS
  <2>2. disappeared \in SUBSET Outpoints
    BY <1>5, <2>1 DEF Missing, PendingOutpoints
  <2>3. /\ LP!IInv' /\ Ledger!TypeOK' /\ NothingLegacy'
        /\ PP!Changes(deposits, deposits', r.next.virtual_daa,
                      r.observed, r.confirmed, disappeared)
    BY <1>3, <1>5, <1>8, <2>1, <2>2, ReconcileChanges, SameProjection
  <2>4. PP!Sync(projection', deposits')
    <3>1. \A op \in Outpoints : deposits[op].state = "pending" =>
             op \in DOMAIN fetched_utxos \cup disappeared
      BY <1>5, <2>1 DEF Missing, PendingOutpoints
    <3>2. PP!Changes(deposits, deposits', fetched_daa, r.observed, r.confirmed, disappeared)
      BY <1>5, <2>3
    <3>3. PP!Sync(r.next, deposits')
      BY <1>3, <1>4, <3>1, <3>2, PP!BootstrapSync, ScoresApart
    <3>4. QED  BY <1>8, <3>3
  <2>5. DepthRespected'
    <3>1. \A op \in DOMAIN r.confirmed : PP!Maturity(r.confirmed[op]) <= r.next.virtual_daa
      BY <1>5 DEF PP!Exact
    <3>2. QED
      BY <1>3, <1>5, <2>3, <3>1, DepthKept, SameProjection DEF IngestInv
  <2>6. pc' \in {"boot_replay", "failover_replay", "scan_replay"}
    BY <1>8 DEF ApplySnapshot, Fetching
  <2>7. TypeOK'
    BY <1>5, <1>6, <1>8, <2>3, <2>6, SameProjection
       DEF IngestInv, TypeOK, Phases, NoScan, journal
  <2>8. FramesTyped' /\ InStep' /\ JournalDrained'
    BY <1>8, <2>4, <2>6 DEF IngestInv, FramesTyped, InStep, Synced, JournalDrained, journal
  <2>9. QED  BY <2>3, <2>5, <2>7, <2>8 DEF IngestInv
<1>9. QED  BY <1>2, <1>7, <1>8

-----------------------------------------------------------------------------
(* A frame applied to a projection in step with the ledger.                *)
LEMMA FrameTyped ==
    ASSUME IngestInv, NEW p \in Proj!Projection, NEW frame \in Proj!Notifications,
           NEW r, r = Proj!Apply(p, frame), PP!Sync(p, deposits)
    PROVE  /\ r.next \in Proj!Projection /\ r.next.virtual_daa \in Scores
           /\ r.observed \in Proj!Partial(Scores)
           /\ r.confirmed \in Proj!Partial(Scores)
           /\ r.disappeared \in SUBSET Outpoints
<1>1. p.virtual_daa # NoFacts
  BY DEF PP!Sync, PP!Exact
<1>2. p \in PP!Projection /\ frame \in PP!Notifications /\ r = PP!Apply(p, frame)
  BY SameProjection
<1>3. QED  BY <1>1, <1>2, PP!ApplyTyped, SameProjection, ScoresApart

LEMMA FrameReconciled ==
    ASSUME IngestInv, NEW p \in Proj!Projection, NEW frame \in Proj!Notifications,
           NEW r, r = Proj!Apply(p, frame), r.ok, PP!Sync(p, deposits),
           \/ Reconcile(r, r.disappeared)
           \/ Proj!IsNoOp(r) /\ UNCHANGED ledger
    PROVE  /\ LP!IInv' /\ Ledger!TypeOK' /\ NothingLegacy'
           /\ PP!Sync(r.next, deposits') /\ DepthRespected'
<1>1. /\ r.next.virtual_daa \in Scores
      /\ r.observed \in Proj!Partial(Scores) /\ r.confirmed \in Proj!Partial(Scores)
      /\ r.disappeared \in SUBSET Outpoints
  BY FrameTyped
<1>2. /\ LP!IInv' /\ Ledger!TypeOK' /\ NothingLegacy'
      /\ PP!Changes(deposits, deposits', r.next.virtual_daa,
                    r.observed, r.confirmed, r.disappeared)
  BY <1>1, ReconcileChanges DEF Proj!IsNoOp
<1>3. p \in PP!Projection /\ frame \in PP!Notifications /\ r = PP!Apply(p, frame)
  BY SameProjection
<1>4. PP!Sync(r.next, deposits')
  BY <1>2, <1>3, PP!ApplySync, ScoresApart
<1>5. \A op \in DOMAIN r.confirmed : PP!Maturity(r.confirmed[op]) <= r.next.virtual_daa
  BY <1>3, PP!ApplyExact, ScoresApart DEF PP!Sync
<1>6. DepthRespected'
  BY <1>1, <1>2, <1>5, DepthKept DEF IngestInv
<1>7. QED  BY <1>2, <1>4, <1>6

-----------------------------------------------------------------------------
(* A partial function of scores.                                           *)
LEMMA PartialFunction ==
    ASSUME NEW T, NEW f \in UNION {[S -> Scores] : S \in SUBSET T}
    PROVE  /\ DOMAIN f \subseteq T
           /\ \A x \in DOMAIN f : f[x] \in Scores
<1>1. PICK S \in SUBSET T : f \in [S -> Scores]
  OBVIOUS
<1>2. QED  BY <1>1

LEMMA MakePartial ==
    ASSUME NEW T, NEW S \in SUBSET T, NEW f \in [S -> Scores]
    PROVE  f \in UNION {[D -> Scores] : D \in SUBSET T}
OBVIOUS

(* The chain keeps its types.                                              *)
LEMMA ChainTyped == ChainTypeOK /\ ChainNext => ChainTypeOK'
<1> SUFFICES ASSUME ChainTypeOK, ChainNext PROVE ChainTypeOK'
  OBVIOUS
<1>1. /\ DOMAIN utxo \subseteq Outpoints
      /\ \A o \in DOMAIN utxo : utxo[o] \in Scores
  BY PartialFunction DEF ChainTypeOK, Utxos
<1>2. /\ daa' \in Scores /\ utxo' \in Utxos
      /\ gone' \subseteq Outpoints /\ moved' \subseteq Outpoints
  <2>1. CASE AdvanceDaa
    BY <2>1, ChainAssumption DEF AdvanceDaa, ChainTypeOK, Scores
  <2>2. ASSUME NEW op \in Outpoints, NEW score \in Scores, Put(op, score)
        PROVE  utxo' \in Utxos
    <3>1. utxo' \in [DOMAIN utxo \cup {op} -> Scores]
      BY <1>1, <2>2 DEF Put
    <3>2. QED  BY <1>1, <3>1, MakePartial DEF Utxos
  <2>3. ASSUME NEW op \in Outpoints, Remove(op)
        PROVE  utxo' \in Utxos
    <3>1. utxo' \in [DOMAIN utxo \ {op} -> Scores]
      BY <1>1, <2>3 DEF Remove
    <3>2. QED  BY <1>1, <3>1, MakePartial DEF Utxos
  <2>4. ASSUME NEW op \in Outpoints, Accept(op) \/ Spend(op) \/ Reorg(op)
        PROVE  /\ daa' \in Scores /\ utxo' \in Utxos
               /\ gone' \subseteq Outpoints /\ moved' \subseteq Outpoints
    BY <2>2, <2>3, <2>4 DEF Accept, Spend, Reorg, ChainTypeOK
  <2>5. QED  BY <2>1, <2>4 DEF ChainNext
<1>3. buried' \subseteq Outpoints \X Scores
  <2>1. Bury
    BY DEF ChainNext, AdvanceDaa, Accept, Spend, Reorg
  <2>2. /\ DOMAIN utxo' \subseteq Outpoints
        /\ \A o \in DOMAIN utxo' : utxo'[o] \in Scores
    BY <1>2, PartialFunction DEF Utxos
  <2>3. QED  BY <2>1, <2>2 DEF Bury, ChainTypeOK
<1>4. QED  BY <1>2, <1>3 DEF ChainTypeOK

(* What the node sends is a notification.                                  *)
LEMMA SentTyped ==
    ASSUME ChainTypeOK, ChainNext
    PROVE  (IF daa' # daa THEN Proj!DaaChanged(daa')
            ELSE Proj!UtxosChanged(Differing(utxo, utxo'), Differing(utxo', utxo)))
             \in Proj!Notifications
<1>1. daa' \in Scores /\ utxo \in Utxos /\ utxo' \in Utxos
  BY ChainTyped DEF ChainTypeOK
<1>2. ASSUME NEW one \in Utxos, NEW other \in Utxos
      PROVE  Differing(one, other) \in Proj!Partial(Scores)
  <2>1. /\ DOMAIN one \subseteq Outpoints
        /\ \A o \in DOMAIN one : one[o] \in Scores
    BY PartialFunction DEF Utxos
  <2> DEFINE D == {op \in DOMAIN one : op \in DOMAIN other => one[op] # other[op]}
  <2>2. D \in SUBSET Outpoints
    BY <2>1
  <2>3. Differing(one, other) \in [D -> Scores]
    BY <2>1 DEF Differing, Proj!Restricted
  <2> HIDE DEF D
  <2>4. QED  BY <2>2, <2>3 DEF Proj!Partial
<1>3. Differing(utxo, utxo') \in Proj!Partial(Scores)
      /\ Differing(utxo', utxo) \in Proj!Partial(Scores)
  BY <1>1, <1>2
<1>4. QED  BY <1>1, <1>3 DEF Proj!Notifications

LEMMA ChainInv == IngestInv /\ ChainMoves => IngestInv'
<1> SUFFICES ASSUME IngestInv, ChainMoves PROVE IngestInv'
  OBVIOUS
<1>1. ChainTypeOK /\ ChainNext
  BY DEF IngestInv, TypeOK, ChainMoves
<1>2. ChainTypeOK'
  BY <1>1, ChainTyped
<1>3. wire' \in Seq(Proj!Notifications)
  <2>1. PICK frame \in Proj!Notifications : Send(frame)
    BY <1>1, SentTyped DEF ChainMoves
  <2>2. QED  BY <2>1 DEF Send, IngestInv, FramesTyped
<1>4. UNCHANGED <<pc, fetched_daa, fetched_utxos, pending, reconciled, projection, work,
                  ledger, faults>>
  BY DEF ChainMoves, scan, journal, memory
<1>5. /\ LP!IInv' /\ Ledger!TypeOK' /\ NothingLegacy' /\ DepthRespected'
      /\ deposits' = deposits
  BY <1>4, LedgerFrame
<1>6. TypeOK'
  BY <1>2, <1>4, <1>5 DEF IngestInv, TypeOK
<1>7. FramesTyped' /\ InStep' /\ JournalDrained'
  BY <1>3, <1>4, <1>5 DEF IngestInv, FramesTyped, InStep, Synced, JournalDrained
<1>8. QED  BY <1>5, <1>6, <1>7 DEF IngestInv

-----------------------------------------------------------------------------
(* apply_pending_journal_frames.                                           *)
LEMMA ReplayInv == IngestInv /\ ReplayFrame => IngestInv'
<1> SUFFICES ASSUME IngestInv, ReplayFrame PROVE IngestInv'
  OBVIOUS
<1>1. PICK r : r = Proj!Apply(projection, Head(pending))
  OBVIOUS
<1>2. /\ Replaying /\ pending # <<>>
      /\ \/ /\ r.ok /\ projection' = r.next /\ reconciled' = TRUE
            /\ IF Proj!IsNoOp(r) THEN UNCHANGED ledger ELSE Reconcile(r, r.disappeared)
            /\ UNCHANGED <<wire, pc, scan, pending, work>>
         \/ Fails(r.next) /\ UNCHANGED ledger
      /\ UNCHANGED <<chain, faults>>
  BY <1>1 DEF ReplayFrame
<1>3. /\ projection \in Proj!Projection /\ Head(pending) \in Proj!Notifications
      /\ PP!Sync(projection, deposits)
  BY <1>2 DEF IngestInv, TypeOK, FramesTyped, InStep, Synced, Replaying
<1>4. r.next \in Proj!Projection
  BY <1>1, <1>3, FrameTyped
<1>5. ChainTypeOK' /\ faults' \in 0 .. MaxFaults
  BY <1>2 DEF IngestInv, TypeOK, chain, ChainTypeOK
<1>6. CASE Fails(r.next) /\ UNCHANGED ledger
  BY <1>2, <1>4, <1>5, <1>6, FailsInv
<1>7. CASE /\ r.ok /\ projection' = r.next /\ reconciled' = TRUE
           /\ IF Proj!IsNoOp(r) THEN UNCHANGED ledger ELSE Reconcile(r, r.disappeared)
           /\ UNCHANGED <<wire, pc, scan, pending, work>>
  <2>1. Reconcile(r, r.disappeared) \/ (Proj!IsNoOp(r) /\ UNCHANGED ledger)
    BY <1>7
  <2>2. /\ LP!IInv' /\ Ledger!TypeOK' /\ NothingLegacy'
        /\ PP!Sync(r.next, deposits') /\ DepthRespected'
    BY <1>1, <1>3, <1>7, <2>1, FrameReconciled
  <2>3. /\ projection' = r.next /\ reconciled' \in BOOLEAN
        /\ UNCHANGED <<wire, pc, fetched_daa, fetched_utxos, pending>>
    BY <1>7 DEF scan
  <2>4. TypeOK'
    BY <1>4, <1>5, <2>2, <2>3 DEF IngestInv, TypeOK
  <2>5. FramesTyped' /\ InStep' /\ JournalDrained'
    BY <1>2, <2>2, <2>3
       DEF IngestInv, FramesTyped, InStep, Synced, JournalDrained, Replaying
  <2>6. QED  BY <2>2, <2>4, <2>5 DEF IngestInv
<1>8. QED  BY <1>2, <1>6, <1>7

(* apply_live_frame: the projection is a step ahead of the ledger.         *)
LEMMA ReceiveInv == IngestInv /\ ReceiveFrame => IngestInv'
<1> SUFFICES ASSUME IngestInv, ReceiveFrame PROVE IngestInv'
  OBVIOUS
<1>1. PICK r : r = Proj!Apply(projection, Head(wire))
  OBVIOUS
<1>2. /\ pc = "live" /\ wire # <<>>
      /\ \/ /\ r.ok /\ projection' = r.next /\ wire' = Tail(wire)
            /\ IF Proj!IsNoOp(r) THEN UNCHANGED <<pc, work, pending>>
               ELSE /\ pc' = "reconcile" /\ work' = r
                    /\ pending' = Append(pending, Head(wire))
            /\ UNCHANGED <<scan, reconciled>>
         \/ Fails(projection)
      /\ UNCHANGED <<chain, ledger, faults>>
  BY <1>1 DEF ReceiveFrame
<1>3. /\ projection \in Proj!Projection /\ Head(wire) \in Proj!Notifications
      /\ PP!Sync(projection, deposits) /\ pending = <<>>
  BY <1>2 DEF IngestInv, TypeOK, FramesTyped, InStep, Synced, JournalDrained
<1>4. r.next \in Proj!Projection
  BY <1>1, <1>3, FrameTyped
<1>5. ChainTypeOK' /\ faults' \in 0 .. MaxFaults
  BY <1>2 DEF IngestInv, TypeOK, chain, ChainTypeOK
<1>6. CASE Fails(projection)
  BY <1>2, <1>3, <1>5, <1>6, FailsInv
<1>7. CASE /\ r.ok /\ projection' = r.next /\ wire' = Tail(wire)
           /\ IF Proj!IsNoOp(r) THEN UNCHANGED <<pc, work, pending>>
              ELSE /\ pc' = "reconcile" /\ work' = r
                   /\ pending' = Append(pending, Head(wire))
           /\ UNCHANGED <<scan, reconciled>>
  <2>1. /\ LP!IInv' /\ Ledger!TypeOK' /\ NothingLegacy' /\ DepthRespected'
        /\ deposits' = deposits
    BY <1>2, LedgerFrame
  <2>2. /\ wire' \in Seq(Proj!Notifications) /\ UNCHANGED <<fetched_daa, fetched_utxos>>
        /\ projection' = r.next /\ UNCHANGED reconciled
    BY <1>2, <1>7 DEF scan, IngestInv, FramesTyped
  <2>3. pc' \in Phases
    BY <1>2, <1>7 DEF Phases
  <2>4. TypeOK'
    BY <1>4, <1>5, <2>1, <2>2, <2>3 DEF IngestInv, TypeOK
  <2>5. CASE Proj!IsNoOp(r)
    <3>1. pc' = "live" /\ pending' = <<>>
      BY <1>2, <1>3, <1>7, <2>5
    <3>2. PP!Sync(projection', deposits')
      BY <1>1, <1>2, <1>3, <1>7, <2>2, <2>5, FrameReconciled
    <3>3. FramesTyped' /\ InStep' /\ JournalDrained'
      BY <2>2, <3>1, <3>2 DEF FramesTyped, InStep, Synced, JournalDrained
    <3>4. QED  BY <2>1, <2>4, <3>3 DEF IngestInv
  <2>6. CASE ~Proj!IsNoOp(r)
    <3>1. pc' = "reconcile" /\ work' = r /\ pending' = <<Head(wire)>>
      BY <1>3, <1>7, <2>6
    <3>2. FramesTyped' /\ JournalDrained'
      BY <1>3, <2>2, <3>1 DEF FramesTyped, JournalDrained
    <3>3. \E p \in Proj!Projection, frame \in Proj!Notifications :
             /\ PP!Sync(p, deposits')
             /\ work' = Proj!Apply(p, frame) /\ work'.ok
             /\ projection' = work'.next
      BY <1>1, <1>3, <1>7, <2>1, <3>1
    <3>4. InStep'
      BY <3>1, <3>3 DEF InStep, Synced
    <3>5. QED  BY <2>1, <2>4, <3>2, <3>4 DEF IngestInv
  <2>7. QED  BY <2>5, <2>6
<1>8. QED  BY <1>2, <1>6, <1>7

LEMMA ReconcileFrameInv == IngestInv /\ ReconcileFrame => IngestInv'
<1> SUFFICES ASSUME IngestInv, ReconcileFrame PROVE IngestInv'
  OBVIOUS
<1>1. pc = "reconcile" /\ UNCHANGED <<chain, faults>>
  BY DEF ReconcileFrame
<1>2. ChainTypeOK' /\ faults' \in 0 .. MaxFaults
  BY <1>1 DEF IngestInv, TypeOK, chain, ChainTypeOK
<1>3. CASE Fails(projection) /\ UNCHANGED ledger
  BY <1>1, <1>2, <1>3, FailsInv DEF IngestInv, TypeOK
<1>4. CASE /\ Reconcile(work, work.disappeared) /\ pc' = "mark"
           /\ UNCHANGED <<wire, scan, journal, memory>>
  <2>1. PICK p \in Proj!Projection, frame \in Proj!Notifications :
           /\ PP!Sync(p, deposits)
           /\ work = Proj!Apply(p, frame) /\ work.ok
           /\ projection = work.next
    BY <1>1 DEF IngestInv, InStep
  <2>2. /\ LP!IInv' /\ Ledger!TypeOK' /\ NothingLegacy'
        /\ PP!Sync(work.next, deposits') /\ DepthRespected'
    BY <1>4, <2>1, FrameReconciled
  <2>3. /\ pc' = "mark"
        /\ UNCHANGED <<wire, fetched_daa, fetched_utxos, pending, reconciled, projection, work>>
    BY <1>4 DEF scan, journal, memory
  <2>4. TypeOK'
    BY <1>2, <2>2, <2>3 DEF IngestInv, TypeOK, Phases
  <2>5. FramesTyped' /\ InStep' /\ JournalDrained'
    BY <1>1, <2>1, <2>2, <2>3 DEF IngestInv, FramesTyped, InStep, Synced, JournalDrained
  <2>6. QED  BY <2>2, <2>4, <2>5 DEF IngestInv
<1>5. QED  BY <1>3, <1>4 DEF ReconcileFrame

-----------------------------------------------------------------------------
(* The steps between, which touch neither chain nor ledger.                *)
LEMMA QuietInv ==
    ASSUME IngestInv, UNCHANGED <<chain, ledger>>, faults' \in 0 .. MaxFaults,
           pc' \in Phases, projection' \in Proj!Projection, reconciled' \in BOOLEAN,
           fetched_daa' \in Scores \cup {NoFacts},
           fetched_utxos' \in Utxos \cup {NoFacts},
           FramesTyped', JournalDrained',
           pc' # "reconcile" \/ (pc = "reconcile" /\ UNCHANGED <<projection, work>>),
           Synced' => Synced /\ UNCHANGED projection
    PROVE  IngestInv'
<1>1. /\ LP!IInv' /\ Ledger!TypeOK' /\ NothingLegacy' /\ DepthRespected'
      /\ deposits' = deposits
  BY LedgerFrame
<1>2. ChainTypeOK'
  BY DEF IngestInv, TypeOK, chain, ChainTypeOK
<1>3. TypeOK'
  BY <1>1, <1>2 DEF TypeOK
<1>4. InStep'
  BY <1>1 DEF IngestInv, InStep
<1>5. QED  BY <1>1, <1>3, <1>4 DEF IngestInv

LEMMA IngestNext == IngestInv /\ [Next]_vars => IngestInv'
<1> SUFFICES ASSUME IngestInv, [Next]_vars PROVE IngestInv'
  OBVIOUS
<1> USE DEF IngestInv, TypeOK, Phases, scan, journal, memory
<1>1. CASE ChainMoves
  BY <1>1, ChainInv
<1>2. CASE Restart \/ FetchDaa \/ FetchUtxos \/ Rescan
  BY <1>2, QuietInv DEF Restart, FetchDaa, FetchUtxos, Rescan, Fetching, ChainTypeOK,
                       FramesTyped, JournalDrained, Synced
<1>3. CASE ApplySnapshot
  BY <1>3, SnapshotInv
<1>4. CASE BufferFrame
  <2>1. pc = "scan" /\ wire # <<>> /\ UNCHANGED <<chain, ledger, faults>>
    BY <1>4 DEF BufferFrame
  <2>2. CASE ~Proj!Decodable(Head(wire)) /\ Fails(projection)
    BY <2>1, <2>2, FailsInv
  <2>3. CASE /\ pending' = Append(pending, Head(wire)) /\ wire' = Tail(wire)
             /\ UNCHANGED <<pc, scan, reconciled, memory>>
    BY <2>1, <2>3, QuietInv DEF FramesTyped, JournalDrained, Synced
  <2>4. QED  BY <1>4, <2>2, <2>3 DEF BufferFrame
<1>5. CASE ReplayFrame
  BY <1>5, ReplayInv
<1>6. CASE ReplayMark
  <2>1. FramesTyped'
    BY <1>6 DEF ReplayMark, FramesTyped
  <2>2. JournalDrained'
    BY <1>6 DEF ReplayMark, Replaying, JournalDrained
  <2>3. QED  BY <1>6, <2>1, <2>2, QuietInv DEF ReplayMark, Replaying, Synced
<1>7. CASE ReplayDone
  BY <1>7, QuietInv DEF ReplayDone, Replaying, FramesTyped, JournalDrained, Synced
<1>8. CASE ReceiveFrame
  BY <1>8, ReceiveInv
<1>9. CASE ReconcileFrame
  BY <1>9, ReconcileFrameInv
<1>10. CASE MarkFrame
  <2>1. pc = "mark" /\ pending' = <<>>
    BY <1>10 DEF MarkFrame, FramesTyped, JournalDrained
  <2>2. FramesTyped' /\ JournalDrained'
    <3>1. pc' = "live" /\ wire' = wire
      BY <1>10 DEF MarkFrame
    <3>2. QED  BY <2>1, <3>1 DEF FramesTyped, JournalDrained
  <2>3. QED  BY <1>10, <2>1, <2>2, QuietInv DEF MarkFrame, Synced
<1>11. CASE Crash
  <2>1. /\ projection' \in Proj!Projection /\ reconciled' \in BOOLEAN
        /\ faults' \in 0 .. MaxFaults
    <3>1. Proj!Empty \in Proj!Projection
      BY SameProjection, PP!EmptyTyped, ScoresApart
    <3>2. projection' = Proj!Empty /\ reconciled' = FALSE
      BY <1>11 DEF Crash
    <3>3. faults' \in 0 .. MaxFaults
      BY <1>11, BoundsAssumption DEF Crash, Fault
    <3>4. QED  BY <3>1, <3>2, <3>3
  <2>2. /\ pc' = "down" /\ fetched_daa' = NoFacts /\ fetched_utxos' = NoFacts
        /\ wire' = <<>> /\ UNCHANGED <<chain, pending, ledger>>
    BY <1>11 DEF Crash, NoScan
  <2>3. FramesTyped' /\ JournalDrained'
    BY <2>2 DEF FramesTyped, JournalDrained
  <2>4. QED  BY <2>1, <2>2, <2>3, QuietInv DEF Synced
<1>12. CASE Break
  BY <1>12, FailsInv, BoundsAssumption DEF Break, Fault
<1>13. CASE UNCHANGED vars
  BY <1>13, QuietInv DEF vars, FramesTyped, JournalDrained, Synced
<1>14. QED
  BY <1>1, <1>2, <1>3, <1>4, <1>5, <1>6, <1>7, <1>8, <1>9, <1>10, <1>11, <1>12, <1>13
     DEF Next, Client

-----------------------------------------------------------------------------
(* The inductive invariant holds in every reachable state.                 *)
THEOREM IngestInvariant == Spec => []IngestInv
BY IngestInit, IngestNext, PTL DEF Spec

(* Between two frames of a live connection the journal is drained, every   *)
(* pending row is live and waits in the maturity schedule with the row's   *)
(* own maturity, and nothing counted as mature is pending.                 *)
THEOREM Agreement == Spec => []Consistent
<1>1. ASSUME IngestInv PROVE LiveAgreement
  <2> SUFFICES ASSUME pc = "live"
               PROVE  /\ pending = <<>>
                      /\ \A op \in PendingOutpoints :
                          /\ op \in DOMAIN projection.live
                          /\ <<Proj!Maturity(deposits[op].facts), op>> \in projection.schedule
                      /\ \A op \in projection.mature : deposits[op].state # "pending"
    BY DEF LiveAgreement
  <2>1. pending = <<>> /\ PP!Sync(projection, deposits)
    BY <1>1 DEF IngestInv, InStep, Synced, JournalDrained
  <2>2. \A op \in projection.mature : deposits[op].state # "pending"
    BY <2>1 DEF PP!Sync, PP!Settled
  <2>3. ASSUME NEW op \in PendingOutpoints
        PROVE  /\ op \in DOMAIN projection.live
               /\ <<Proj!Maturity(deposits[op].facts), op>> \in projection.schedule
    <3>1. op \in DOMAIN projection.live \ projection.mature
      BY <2>1, <2>2 DEF PendingOutpoints, PP!Sync, PP!Settled
    <3>2. deposits[op].facts = projection.live[op]
      BY <2>1, <3>1 DEF PP!Sync, PP!Anchored
    <3>3. QED
      BY <2>1, <3>1, <3>2 DEF PP!Sync, PP!Exact, PP!Maturity, Proj!Maturity
  <2>4. QED  BY <2>1, <2>2, <2>3
<1>2. IngestInv => Consistent
  BY <1>1 DEF IngestInv, Consistent
<1>3. QED  BY <1>2, IngestInvariant, PTL

(* No deposit is credited less than Required deep: not by a snapshot whose *)
(* two answers are of different moments, not by a frame replayed after it, *)
(* not by a schedule entry of an output that was replaced.                 *)
THEOREM CreditedDeep == Spec => []DepthRespected
<1>1. IngestInv => DepthRespected
  BY DEF IngestInv
<1>2. QED  BY <1>1, IngestInvariant, PTL

-----------------------------------------------------------------------------
LEMMA ReconcileIsStep ==
    ASSUME NEW r, NEW disappeared \in SUBSET Outpoints,
           r.next.virtual_daa \in Scores,
           r.observed \in Proj!Partial(Scores), r.confirmed \in Proj!Partial(Scores),
           Reconcile(r, disappeared)
    PROVE  LP!Next
<1>1. r.observed \in LP!Batch /\ r.confirmed \in LP!Batch
  BY DEF Proj!Partial, LP!Batch
<1>2. LP!Reconcile(r.next.virtual_daa, r.observed, r.confirmed, disappeared)
  BY SameLedger DEF Reconcile
<1>3. QED  BY <1>1, <1>2 DEF LP!Next

(* The process touches the ledger only by ledger transactions.             *)
LEMMA LedgerStep == IngestInv /\ [Next]_vars => [LP!Next]_(LP!vars)
<1> SUFFICES ASSUME IngestInv, [Next]_vars PROVE [LP!Next]_(LP!vars)
  OBVIOUS
<1>1. CASE UNCHANGED ledger
  BY <1>1 DEF ledger, LP!vars
<1>2. CASE ApplySnapshot
  <2>1. PICK r : r = Proj!Bootstrap(projection, fetched_daa, fetched_utxos)
    OBVIOUS
  <2>2. fetched_daa \in Scores /\ fetched_utxos \in Utxos /\ projection \in Proj!Projection
    BY <1>2 DEF ApplySnapshot, IngestInv, TypeOK
  <2>3. /\ projection \in PP!Projection /\ fetched_utxos \in PP!Partial(Scores)
        /\ r = PP!Bootstrap(projection, fetched_daa, fetched_utxos)
    BY <2>1, <2>2, SameProjection DEF Utxos, PP!Partial
  <2>4. /\ r.next.virtual_daa \in Scores /\ r.observed \in Proj!Partial(Scores)
        /\ r.confirmed \in Proj!Partial(Scores) /\ r.disappeared \subseteq Outpoints
    BY <2>2, <2>3, PP!BootstrapTyped, SameProjection, ScoresApart
  <2>5. r.disappeared \cup Missing(r) \in SUBSET Outpoints
    BY <2>4 DEF Missing, PendingOutpoints
  <2>6. Reconcile(r, r.disappeared \cup Missing(r)) \/ UNCHANGED ledger
    BY <1>2, <2>1 DEF ApplySnapshot
  <2>7. QED  BY <1>1, <2>4, <2>5, <2>6, ReconcileIsStep
<1>3. CASE ReplayFrame
  <2>1. PICK r : r = Proj!Apply(projection, Head(pending))
    OBVIOUS
  <2>2. Reconcile(r, r.disappeared) \/ UNCHANGED ledger
    BY <1>3, <2>1 DEF ReplayFrame
  <2>3. /\ projection \in Proj!Projection /\ Head(pending) \in Proj!Notifications
        /\ PP!Sync(projection, deposits)
    BY <1>3 DEF ReplayFrame, IngestInv, TypeOK, FramesTyped, InStep, Synced, Replaying
  <2>4. QED  BY <1>1, <2>1, <2>2, <2>3, FrameTyped, ReconcileIsStep
<1>4. CASE ReconcileFrame
  <2>1. Reconcile(work, work.disappeared) \/ UNCHANGED ledger
    BY <1>4 DEF ReconcileFrame
  <2>2. PICK p \in Proj!Projection, frame \in Proj!Notifications :
           PP!Sync(p, deposits) /\ work = Proj!Apply(p, frame)
    BY <1>4 DEF ReconcileFrame, IngestInv, InStep
  <2>3. QED  BY <1>1, <2>1, <2>2, FrameTyped, ReconcileIsStep
<1>5. CASE ChainMoves \/ Restart \/ FetchDaa \/ FetchUtxos \/ BufferFrame \/ ReplayMark
           \/ ReplayDone \/ ReceiveFrame \/ MarkFrame \/ Crash \/ Break \/ Rescan
           \/ UNCHANGED vars
  BY <1>1, <1>5 DEF ChainMoves, Restart, FetchDaa, FetchUtxos, BufferFrame, ReplayMark,
                    ReplayDone, ReceiveFrame, MarkFrame, Crash, Break, Rescan, vars
<1>6. QED  BY <1>2, <1>3, <1>4, <1>5 DEF Next, Client

LEMMA LedgerSame == Ledger!Spec <=> LP!Spec
<1>1. Ledger!Init <=> LP!Init
  BY SameLedger
<1>2. \A op : /\ Ledger!ReverseCreditedOnReorg(op) <=> LP!ReverseCreditedOnReorg(op)
              /\ Ledger!ImportLegacyCredit(op) <=> LP!ImportLegacyCredit(op)
  BY DEF Ledger!ReverseCreditedOnReorg, LP!ReverseCreditedOnReorg, Ledger!InsertOutbox,
         LP!InsertOutbox, Ledger!ImportLegacyCredit, LP!ImportLegacyCredit
<1>3. [Ledger!Next]_(Ledger!vars) <=> [LP!Next]_(LP!vars)
  BY <1>2, SameLedger DEF Ledger!Next, LP!Next, Ledger!vars, LP!vars
<1>4. QED  BY <1>1, <1>3, PTL DEF Ledger!Spec, LP!Spec

(* Live ingestion implements the deposit ledger: snapshots, replayed       *)
(* frames and live frames reach the tables as ledger transactions, with    *)
(* arguments of their types, and nothing else does.                        *)
THEOREM LedgerImplemented == Spec => Ledger!Spec
<1>1. Init => LP!Init
  BY SameLedger DEF Init
<1>2. QED  BY <1>1, LedgerStep, LedgerSame, IngestInvariant, PTL DEF Spec, LP!Spec

(* So all that is proved of the ledger holds of it under live ingestion:   *)
(* the outbox mirrors the table, and the consumer's contract is kept.      *)
THEOREM LedgerGuarantees ==
    Spec => /\ []LP!OutboxMirrorsLedger
            /\ LP!ImplementsCreditLifecycle
BY LedgerImplemented, LedgerSame, LP!OutboxFaithful, LP!Refinement,
   ScoresApart, PTL
=============================================================================
