------------------------------ MODULE WrpcIngest ------------------------------
(***************************************************************************)
(* Owned-node deposit ingestion: the process of src/bin/tn10_wrpc_live.rs  *)
(* with its REST snapshots, its frame journal and projection (src/wrpc.rs) *)
(* and the deposit ledger, between a chain that moves and a crash.         *)
(*                                                                         *)
(* External: the chain, the REST service and the node.  REST answers with  *)
(* the current chain, but the DAA score and the UTXOs are two requests     *)
(* whose answers are read at two moments.  The node reports every change   *)
(* in order on the one connection, which may break and lose what is on it. *)
(***************************************************************************)
EXTENDS DepositChain, Sequences

CONSTANTS
    MaxWire,        \* bound: frames sent and not yet read
    MaxFaults,      \* bound: crashes, broken connections and failed fetches
    ConsistentScan, \* TRUE: the two answers of a REST scan are of one moment
    NoFacts         \* absent row, unknown score

ASSUME BoundsAssumption ==
    /\ {MaxWire, MaxFaults} \subseteq Nat
    /\ NoFacts \notin Nat /\ ConsistentScan \in BOOLEAN

VARIABLES
    wire,               \* frames the node sent and the client has not read
    pc,                 \* where the client is
    fetched_daa, fetched_utxos,     \* answers of the REST scan in progress
    pending,            \* journal frames beyond the checkpoint
    reconciled,         \* the first of them is in the ledger already
    projection, work,   \* the projection; the snapshot on its way to the ledger
    deposits, legacy, outbox,       \* the ledger
    faults

Proj == INSTANCE WrpcProjection WITH NoScore <- NoFacts
Ledger == INSTANCE DepositLedger
            WITH Facts <- Scores, Daa <- Scores, NoDaa <- NoFacts

scan    == <<fetched_daa, fetched_utxos>>
journal == <<pending, reconciled>>
memory  == <<projection, work>>
ledger  == <<deposits, legacy, outbox>>
vars    == <<chain, wire, pc, scan, journal, memory, ledger, faults>>

(* "boot" and "failover" fetch over REST with no subscription, "scan"      *)
(* while frames are buffered; the replays apply the journal's pending      *)
(* frames.                                                                 *)
Phases == {"down", "boot", "boot_replay", "failover", "failover_replay",
           "scan", "scan_replay", "live", "reconcile", "mark"}
Subscribed == pc \in {"scan", "scan_replay", "live", "reconcile", "mark"}
Replaying  == pc \in {"boot_replay", "failover_replay", "scan_replay"}
Fetching   == pc \in {"boot", "failover", "scan"}

TypeOK ==
    /\ ChainTypeOK
    /\ pc \in Phases
    /\ fetched_daa \in Scores \cup {NoFacts}
    /\ fetched_utxos \in Utxos \cup {NoFacts}
    /\ reconciled \in BOOLEAN
    /\ projection \in Proj!Projection
    /\ Ledger!TypeOK
    /\ faults \in 0 .. MaxFaults

NoWork == Proj!Err(Proj!Empty)

Init ==
    /\ ChainInit
    /\ wire = <<>> /\ pc = "down"
    /\ fetched_daa = NoFacts /\ fetched_utxos = NoFacts
    /\ pending = <<>> /\ reconciled = FALSE
    /\ projection = Proj!Empty /\ work = NoWork
    /\ Ledger!Init
    /\ faults = 0

Fault == faults < MaxFaults /\ faults' = faults + 1

-----------------------------------------------------------------------------
(* The node notifies a subscriber of every change of the chain, in order.  *)
Send(frame) ==
    IF Subscribed THEN Len(wire) < MaxWire /\ wire' = Append(wire, frame)
    ELSE UNCHANGED wire

Differing(one, other) ==
    Proj!Restricted(one, {op \in DOMAIN one :
                            op \in DOMAIN other => one[op] # other[op]})

HalfScanned == (fetched_daa = NoFacts) # (fetched_utxos = NoFacts)

ChainMoves ==
    /\ ConsistentScan => ~HalfScanned
    /\ ChainNext
    /\ Send(IF daa' # daa THEN Proj!DaaChanged(daa')
            ELSE Proj!UtxosChanged(Differing(utxo, utxo'), Differing(utxo', utxo)))
    /\ UNCHANGED <<pc, scan, journal, memory, ledger, faults>>

-----------------------------------------------------------------------------
(* Errors.  At startup main returns; after a failover it goes on to        *)
(* connect; on a connection run_connection returns and failover begins.    *)
(* What the failed step left in the projection stays there.                *)
NoScan == fetched_daa' = NoFacts /\ fetched_utxos' = NoFacts

Fails(left) ==
    /\ pc' = CASE pc \in {"boot", "boot_replay"} -> "down"
               [] pc \in {"failover", "failover_replay"} -> "scan"
               [] OTHER -> "failover"
    /\ wire' = <<>> /\ NoScan
    /\ projection' = IF pc' = "down" THEN Proj!Empty ELSE left
    /\ work' = NoWork /\ reconciled' = FALSE
    /\ UNCHANGED pending

Crash ==
    /\ pc # "down" /\ Fault
    /\ pc' = "down" /\ wire' = <<>> /\ NoScan
    /\ projection' = Proj!Empty /\ work' = NoWork /\ reconciled' = FALSE
    /\ UNCHANGED <<chain, pending, ledger>>

Restart ==
    /\ pc = "down" /\ pc' = "boot"
    /\ UNCHANGED <<chain, wire, scan, journal, memory, ledger, faults>>

(* The connection breaks or goes silent for MESSAGE_TIMEOUT, or REST fails. *)
Break ==
    /\ Fetching \/ pc = "live"
    /\ Fault /\ Fails(projection)
    /\ UNCHANGED <<chain, ledger>>

-----------------------------------------------------------------------------
(* fetch_utxo_snapshot: both requests run concurrently.                    *)
FetchDaa ==
    /\ Fetching /\ fetched_daa = NoFacts
    /\ fetched_daa' = daa
    /\ UNCHANGED <<chain, wire, pc, fetched_utxos, journal, memory, ledger, faults>>

FetchUtxos ==
    /\ Fetching /\ fetched_utxos = NoFacts
    /\ fetched_utxos' = utxo
    /\ UNCHANGED <<chain, wire, pc, fetched_daa, journal, memory, ledger, faults>>

PendingOutpoints == {op \in Outpoints : deposits[op].state = "pending"}

(* What reconcile would reject: its preconditions, without its effect.     *)
Acceptable(daa_score, r) ==
    /\ Ledger!ObservedFactsAgree(r.observed)
    /\ Ledger!ConfirmedFactsAgree(Ledger!Observe(daa_score, r.observed), r.confirmed)

Reconcile(r, disappeared) ==
    Ledger!Reconcile(r.next.virtual_daa, r.observed, r.confirmed, disappeared)

(* Mutant: only what the projection in memory knew can disappear.          *)
ForgottenRows(r) == {}

Missing(r) == PendingOutpoints \ DOMAIN r.observed

(* apply_fetched_snapshot: pending rows that are not in the snapshot are   *)
(* disappeared too, so that a restart forgets none.                        *)
ApplySnapshot ==
    LET r == Proj!Bootstrap(projection, fetched_daa, fetched_utxos) IN
    /\ Fetching /\ fetched_daa # NoFacts /\ fetched_utxos # NoFacts
    /\ \/ /\ Reconcile(r, r.disappeared \cup Missing(r))
          /\ projection' = r.next
          /\ pc' = CASE pc = "boot" -> "boot_replay"
                     [] pc = "failover" -> "failover_replay"
                     [] pc = "scan" -> "scan_replay"
          /\ NoScan
          /\ UNCHANGED <<wire, work, journal>>
       \/ /\ ~Acceptable(fetched_daa, r) /\ Fails(r.next)
          /\ UNCHANGED ledger
    /\ UNCHANGED <<chain, faults>>

(* Mutant: frames that come during the scan are not journaled.             *)
DropFrame ==
    /\ pc = "scan" /\ wire # <<>>
    /\ wire' = Tail(wire)
    /\ UNCHANGED <<chain, pc, scan, journal, memory, ledger, faults>>

(* receive_text while subscribing or scanning: append only, which decodes  *)
(* the frame first; one that does not decode ends the connection.          *)
BufferFrame ==
    /\ pc = "scan" /\ wire # <<>>
    /\ \/ /\ Proj!Decodable(Head(wire))
          /\ pending' = Append(pending, Head(wire)) /\ wire' = Tail(wire)
          /\ UNCHANGED <<pc, scan, reconciled, memory>>
       \/ ~Proj!Decodable(Head(wire)) /\ Fails(projection)
    /\ UNCHANGED <<chain, ledger, faults>>

-----------------------------------------------------------------------------
(* apply_pending_journal_frames, one frame at a time: a DAA frame behind   *)
(* the snapshot is skipped, any other is applied and reconciled, then the  *)
(* checkpoint advances in a transaction of its own.                        *)
Stale(frame) == frame.kind = "daa" /\ frame.daa < projection.virtual_daa

ReplayFrame ==
    LET r == Proj!Apply(projection, Head(pending)) IN
    /\ Replaying /\ pending # <<>> /\ ~reconciled
    /\ ~Stale(Head(pending))
    /\ \/ /\ r.ok /\ projection' = r.next /\ reconciled' = TRUE
          /\ IF Proj!IsNoOp(r) THEN UNCHANGED ledger ELSE Reconcile(r, r.disappeared)
          /\ UNCHANGED <<wire, pc, scan, pending, work>>
       \/ /\ ~r.ok \/ ~Acceptable(r.next.virtual_daa, r)
          /\ Fails(r.next) /\ UNCHANGED ledger
    /\ UNCHANGED <<chain, faults>>

(* Mutant: a stale frame is skipped and never marked.                      *)
ReplayMarkReconciled ==
    /\ Replaying /\ pending # <<>> /\ reconciled
    /\ pending' = Tail(pending) /\ reconciled' = FALSE
    /\ UNCHANGED <<chain, wire, pc, scan, memory, ledger, faults>>

ReplayMark ==
    /\ Replaying /\ pending # <<>>
    /\ reconciled \/ Stale(Head(pending))
    /\ pending' = Tail(pending) /\ reconciled' = FALSE
    /\ UNCHANGED <<chain, wire, pc, scan, memory, ledger, faults>>

ReplayDone ==
    /\ Replaying /\ pending = <<>>
    /\ pc' = IF pc = "scan_replay" THEN "live" ELSE "scan"
    /\ UNCHANGED <<chain, wire, scan, journal, memory, ledger, faults>>

-----------------------------------------------------------------------------
(* apply_live_frame: the projection in memory, append, reconcile and       *)
(* mark_applied; a frame with no ledger delta is appended as applied.      *)
ReceiveFrame ==
    LET r == Proj!Apply(projection, Head(wire)) IN
    /\ pc = "live" /\ wire # <<>>
    /\ \/ /\ r.ok /\ projection' = r.next /\ wire' = Tail(wire)
          /\ IF Proj!IsNoOp(r) THEN UNCHANGED <<pc, work, pending>>
             ELSE /\ pc' = "reconcile" /\ work' = r
                  /\ pending' = Append(pending, Head(wire))
          /\ UNCHANGED <<scan, reconciled>>
       \/ ~r.ok /\ Fails(projection)
    /\ UNCHANGED <<chain, ledger, faults>>

ReconcileFrame ==
    /\ pc = "reconcile"
    /\ \/ /\ Reconcile(work, work.disappeared)
          /\ pc' = "mark"
          /\ UNCHANGED <<wire, scan, journal, memory>>
       \/ /\ ~Acceptable(work.next.virtual_daa, work) /\ Fails(projection)
          /\ UNCHANGED ledger
    /\ UNCHANGED <<chain, faults>>

MarkFrame ==
    /\ pc = "mark" /\ pc' = "live"
    /\ pending' = Tail(pending) /\ work' = NoWork
    /\ UNCHANGED <<chain, wire, scan, reconciled, projection, ledger, faults>>

(* RESNAPSHOT_INTERVAL: a full scan on the live connection.                *)
Rescan ==
    /\ pc = "live" /\ pc' = "scan"
    /\ UNCHANGED <<chain, wire, scan, journal, memory, ledger, faults>>

Client ==
    \/ Restart \/ FetchDaa \/ FetchUtxos \/ ApplySnapshot \/ BufferFrame
    \/ ReplayFrame \/ ReplayMark \/ ReplayDone
    \/ ReceiveFrame \/ ReconcileFrame \/ MarkFrame

Next == ChainMoves \/ Client \/ Crash \/ Break \/ Rescan

Spec == Init /\ [][Next]_vars

(* The runtime polls the process: it never stays forever at a step it can  *)
(* take, and a supervisor restarts it.  The chain owes it nothing.         *)
Fairness ==
    /\ WF_vars(Restart) /\ WF_vars(FetchDaa) /\ WF_vars(FetchUtxos)
    /\ WF_vars(ApplySnapshot) /\ WF_vars(BufferFrame)
    /\ WF_vars(ReplayFrame) /\ WF_vars(ReplayMark) /\ WF_vars(ReplayDone)
    /\ WF_vars(ReceiveFrame) /\ WF_vars(ReconcileFrame) /\ WF_vars(MarkFrame)

FairSpec == Spec /\ Fairness

-----------------------------------------------------------------------------
(* No deposit is credited before the reported DAA score is Required above  *)
(* its block, on any path: snapshot, replay, live frame, due schedule.     *)
DepthRespected ==
    \A op \in Outpoints :
        deposits[op].state = "credited"
            => deposits[op].credited_daa >= deposits[op].facts + Required

(* Between two frames of a live connection the ledger and the projection   *)
(* agree: the journal is drained (else append_applied and mark_applied     *)
(* would fail), a pending row is live and waits in the maturity schedule,  *)
(* and what the projection counts as mature is pending no more.  A row     *)
(* left behind here would wait until the next snapshot.                    *)
LiveAgreement ==
    pc = "live" =>
        /\ pending = <<>>
        /\ \A op \in PendingOutpoints :
            /\ op \in DOMAIN projection.live
            /\ <<Proj!Maturity(deposits[op].facts), op>> \in projection.schedule
        /\ \A op \in projection.mature : deposits[op].state # "pending"

(* What must hold between any two steps.                                   *)
Consistent == TypeOK /\ LiveAgreement

(* A transaction that stays accepted until it is Required deep, and then   *)
(* stays unspent, is credited, whatever crashes, failovers, rescans and    *)
(* stale frames come before; unless a reorg touched a deposit.             *)
EventuallyCredited ==
    \A op \in Outpoints :
        <>[](op \in DOMAIN utxo /\ utxo[op] + Required <= daa /\ moved = {})
            => <>(deposits[op].state = "credited")

(* Every journaled frame is applied in the end: the journal keeps draining, *)
(* unless a reorg touched a deposit.                                        *)
JournalDrains == []<>(pending = <<>> \/ moved # {})

(* "Subscribe-ack journal replay applies to ledger on restart"             *)
(* (roadmap.rs). Not after a reorg: when a recorded deposit is dropped and *)
(* accepted again in a later block while a scan is under way, the frame    *)
(* that adds it again is journaled, but the row keeps the block it was     *)
(* first seen in.  reconcile refuses the frame ("outpoint facts changed")  *)
(* at every replay, after every restart, and still does once no deposit is *)
(* left unspent.                                                           *)
JournalAlwaysDrains == <>[](utxo = NoUtxos) => []<>(pending = <<>>)

(* What the runbook promises: a credited deposit has been Required deep.   *)
(* A journaled "added" frame replayed on a snapshot newer than the spend   *)
(* of its output credits an output that never was.                         *)
CreditedWasBuried ==
    \A op \in Outpoints :
        deposits[op].state = "credited" => <<op, deposits[op].facts>> \in buried
=============================================================================
