------------------------------ MODULE WrpcReplay ------------------------------
(***************************************************************************)
(* Offline replay (src/bin/tn10_wrpc_replay.rs and replay_into_ledger of   *)
(* src/wrpc.rs): a fixture of frames is recorded in the journal at         *)
(* explicit numbers, the projection is rebuilt from the whole journal, and *)
(* the frames beyond the checkpoint are reconciled and marked, each in a   *)
(* transaction of its own.  A crash may come between any two transactions; *)
(* the program is then run again on the same database and fixture.         *)
(***************************************************************************)
EXTENDS WrpcProjection, Sequences

CONSTANTS
    MaxFrames,      \* bound: frames of the fixture
    MaxCrashes      \* bound

ASSUME ReplayAssumption == {MaxFrames, MaxCrashes} \subseteq Nat

(* parse_fixture decodes every line before anything is recorded.           *)
AnyFrames == {frame \in Notifications : Decodable(frame)}

VARIABLES
    fixture,
    frames, checkpoint, issued,     \* the journal
    deposits, legacy, outbox,       \* the ledger
    pc, at, start, projection,      \* the running program
    reconciled, crashes             \* ghost: frames ever reconciled

Journal == INSTANCE WrpcJournal WITH Frames <- AnyFrames, MaxSequence <- MaxFrames
Ledger == INSTANCE DepositLedger
            WITH Facts <- Scores, Daa <- Scores, NoFacts <- NoScore, NoDaa <- NoScore

journal == <<frames, checkpoint, issued>>
ledger  == <<deposits, legacy, outbox>>
vars == <<fixture, journal, ledger, pc, at, start, projection, reconciled, crashes>>

TypeOK ==
    /\ Journal!TypeOK
    /\ Ledger!TypeOK
    /\ pc \in {"down", "record", "replay", "mark", "failed", "done"}
    /\ {at, start, reconciled} \subseteq 0 .. MaxFrames
    /\ projection \in Projection
    /\ crashes \in 0 .. MaxCrashes

Init ==
    /\ fixture \in UNION {[1 .. n -> AnyFrames] : n \in 1 .. MaxFrames}
    /\ Journal!Init /\ Ledger!Init
    /\ pc = "down" /\ at = 0 /\ start = 0 /\ projection = Empty
    /\ reconciled = 0 /\ crashes = 0

-----------------------------------------------------------------------------
Start ==
    /\ pc = "down"
    /\ pc' = "record" /\ at' = 0 /\ projection' = Empty
    /\ UNCHANGED <<fixture, journal, ledger, start, reconciled, crashes>>

(* journal.record(source, index + 1, frame).                               *)
RecordFixture ==
    /\ pc = "record" /\ at < Len(fixture)
    /\ \/ Journal!Record(at + 1, fixture[at + 1])
       \/ /\ at + 1 \in DOMAIN frames /\ frames[at + 1] = fixture[at + 1]
          /\ UNCHANGED journal
    /\ at' = at + 1
    /\ UNCHANGED <<fixture, ledger, pc, start, projection, reconciled, crashes>>

StartReplay ==
    /\ pc = "record" /\ at = Len(fixture)
    /\ pc' = "replay" /\ at' = 0 /\ start' = checkpoint
    /\ UNCHANGED <<fixture, journal, ledger, projection, reconciled, crashes>>

Fail ==
    /\ pc' = "failed"
    /\ UNCHANGED <<fixture, journal, ledger, at, start, projection, reconciled, crashes>>

(* A frame the checkpoint covers only rebuilds the projection.             *)
Rebuild ==
    LET r == Apply(projection, frames[at + 1]) IN
    /\ pc = "replay" /\ at < start
    /\ \/ /\ r.ok /\ projection' = r.next /\ at' = at + 1
          /\ UNCHANGED <<fixture, journal, ledger, pc, start, reconciled, crashes>>
       \/ ~r.ok /\ Fail

Acceptable(daa, r) ==
    /\ Ledger!ObservedFactsAgree(r.observed)
    /\ Ledger!ConfirmedFactsAgree(Ledger!Observe(daa, r.observed), r.confirmed)

ReplayFrame ==
    LET r == Apply(projection, frames[at + 1]) IN
    /\ pc = "replay" /\ start <= at /\ at < Len(fixture)
    /\ \/ /\ r.ok /\ projection' = r.next /\ pc' = "mark"
          /\ IF IsNoOp(r)
             THEN UNCHANGED ledger
             ELSE Ledger!Reconcile(r.next.virtual_daa, r.observed,
                                   r.confirmed, r.disappeared)
          /\ reconciled' = IF at < reconciled THEN reconciled ELSE at + 1
          /\ UNCHANGED <<fixture, journal, at, start, crashes>>
       \/ ~(r.ok /\ Acceptable(r.next.virtual_daa, r)) /\ Fail

Mark ==
    /\ pc = "mark"
    /\ Journal!MarkApplied(at + 1)
    /\ pc' = "replay" /\ at' = at + 1
    /\ UNCHANGED <<fixture, ledger, start, projection, reconciled, crashes>>

Finish ==
    /\ pc = "replay" /\ at = Len(fixture)
    /\ pc' = "done"
    /\ UNCHANGED <<fixture, journal, ledger, at, start, projection, reconciled, crashes>>

(* A crash, or a further run after the program ended.                      *)
Restart ==
    /\ pc # "down" /\ crashes < MaxCrashes
    /\ pc' = "down" /\ crashes' = crashes + 1
    /\ UNCHANGED <<fixture, journal, ledger, at, start, projection, reconciled>>

Next ==
    \/ Start \/ RecordFixture \/ StartReplay \/ Rebuild \/ ReplayFrame
    \/ Mark \/ Finish \/ Restart

Spec == Init /\ [][Next]_vars

-----------------------------------------------------------------------------
Repeated == pc = "replay" /\ at < reconciled

(* "Idempotent deposit reconciliation": replaying a frame again, after a   *)
(* crash between reconcile and mark_applied, changes nothing and is never  *)
(* refused.                                                                *)
ReplayIdempotent == [][Repeated => UNCHANGED ledger /\ pc' # "failed"]_vars

(* A fixture need not start with a score.  Before the first one nothing    *)
(* that leaves is reported to the ledger, and a removal keeps the schedule *)
(* entry.  So an outpoint added, removed and added again in another block  *)
(* is due by the entry of its first block: the code counts it as mature    *)
(* and credits it too early.  These are such outpoints.                    *)
Adds(i, op) == fixture[i].kind = "utxos" /\ op \in DOMAIN fixture[i].added

BeforeScore(i) == \A k \in 1 .. i : fixture[k].kind = "utxos"

Readded ==
    {op \in Outpoints : \E i, j \in DOMAIN fixture :
        /\ BeforeScore(i) /\ Adds(i, op) /\ Adds(j, op)
        /\ fixture[i].added[op] # fixture[j].added[op]}

(* The incremental projection is what a full scan of its live set would    *)
(* give: no mature outpoint is missed, no outpoint waits unscheduled or    *)
(* unreported, and only a Readded one is taken for mature before it is.    *)
ProjectionExact ==
    LET p    == projection
        deep == {op \in DOMAIN p.live : Maturity(p.live[op]) <= p.virtual_daa} IN
    p.virtual_daa # NoScore =>
        /\ deep \subseteq p.mature
        /\ p.mature \subseteq deep \cup (Readded \cap DOMAIN p.live)
        /\ \A op \in DOMAIN p.live \ p.mature :
            <<Maturity(p.live[op]), op>> \in p.schedule
        /\ p.unobserved = {}

(* What must hold between any two steps.                                   *)
Consistent == TypeOK /\ ProjectionExact

(* No deposit is credited before it is Required deep, except a Readded one. *)
DepthRespected ==
    \A op \in Outpoints \ Readded :
        deposits[op].state = "credited"
            => deposits[op].credited_daa >= deposits[op].facts + Required
=============================================================================
