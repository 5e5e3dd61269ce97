---------------------------- MODULE WrpcProjection ----------------------------
(***************************************************************************)
(* WrpcDepositProjection (src/wrpc.rs): the in-memory view of the watched  *)
(* addresses' UTXO set that turns snapshots and node notifications into    *)
(* the arguments of DepositLedger's reconcile.  Each operator maps a       *)
(* projection and one input to a record with                               *)
(*    ok       FALSE when the code returns Err,                            *)
(*    next     the projection afterwards,                                  *)
(*    observed, confirmed, disappeared   the snapshot it returns.          *)
(* After an Err the caller always bootstraps again before using the        *)
(* projection, so `next` is then the old one.                              *)
(*                                                                         *)
(* All that a UTXO entry says is its block DAA score, which is what        *)
(* maturity and same_entry depend on here.                                 *)
(***************************************************************************)
EXTENDS Integers

CONSTANTS
    Outpoints,
    Scores,     \* block and virtual DAA scores
    Required,   \* confirmations asked for, in DAA
    NoScore     \* an absent entry, an unknown virtual DAA score

ASSUME ScoresAssumption == Scores \subseteq Nat /\ Required \in Nat /\ NoScore \notin Nat

Partial(S) == UNION {[D -> S] : D \in SUBSET Outpoints}
Restricted(f, D) == [op \in D |-> f[op]]

Projection ==
    [virtual_daa : Scores \cup {NoScore},
     live        : Partial(Scores),              \* outpoint -> block DAA score
     schedule    : SUBSET (Nat \X Outpoints),    \* maturity_schedule
     mature      : SUBSET Outpoints,
     unobserved  : SUBSET Outpoints]

Empty == [virtual_daa |-> NoScore, live |-> [op \in {} |-> 0],
          schedule |-> {}, mature |-> {}, unobserved |-> {}]

(* Mutant: the accepting block counts as a confirmation.                   *)
MaturityInclusive(score) == score + Required - 1

Maturity(score) == score + Required

(* Mutant: due only once the score is exceeded.                            *)
DueLate(schedule, daa) == {s \in schedule : s[1] < daa}

Due(schedule, daa) == {s \in schedule : s[1] <= daa}

Err(p) == [ok |-> FALSE, next |-> p, observed |-> Empty.live,
           confirmed |-> Empty.live, disappeared |-> {}]

(* Nothing for the ledger to do: apply_strict returns Ok(None).            *)
IsNoOp(r) == /\ DOMAIN r.observed = {} /\ DOMAIN r.confirmed = {}
             /\ r.disappeared = {}

(* Every entry is reported, and every mature one confirmed.                *)
FullSnapshot(daa, live, disappeared) ==
    LET mature == {op \in DOMAIN live : Maturity(live[op]) <= daa}
    IN  [ok   |-> TRUE,
         next |-> [virtual_daa |-> daa, live |-> live,
                   schedule |-> {<<Maturity(live[op]), op>> :
                                    op \in DOMAIN live \ mature},
                   mature |-> mature, unobserved |-> {}],
         observed |-> live, confirmed |-> Restricted(live, mature),
         disappeared |-> disappeared]

(* bootstrap_addresses: the snapshot replaces everything.                  *)
Bootstrap(p, daa, utxos) == FullSnapshot(daa, utxos, DOMAIN p.live \ DOMAIN utxos)

(* VirtualDaaScoreChanged: entries that waited for a first score are       *)
(* observed, and a due schedule entry confirms its outpoint if that is     *)
(* still live, under whatever entry it is live now.                        *)
ApplyDaa(p, daa) ==
    LET due       == Due(p.schedule, daa)
        observed  == p.unobserved \cap DOMAIN p.live
        confirmed == {op \in DOMAIN p.live \ p.mature : \E s \in due : s[2] = op}
    IN  IF p.virtual_daa # NoScore /\ daa < p.virtual_daa THEN Err(p)
        ELSE [ok   |-> TRUE,
              next |-> [virtual_daa |-> daa, live |-> p.live,
                        schedule |-> p.schedule \ due,
                        mature |-> p.mature \cup confirmed, unobserved |-> {}],
              observed |-> Restricted(p.live, observed),
              confirmed |-> Restricted(p.live, confirmed),
              disappeared |-> {}]

(* UtxosChanged: removals first, then additions.  A removed outpoint keeps *)
(* its schedule entry; one the ledger never heard of does not disappear.   *)
ApplyUtxos(p, removed, added) ==
    LET known    == DOMAIN removed \cap DOMAIN p.live
        kept     == Restricted(p.live, DOMAIN p.live \ known)
        new      == DOMAIN added \ DOMAIN kept
        scored   == p.virtual_daa # NoScore
        mature   == p.mature \ known
        deep     == {op \in new \ mature :
                        scored /\ Maturity(added[op]) <= p.virtual_daa}
        facts_changed ==
            \/ \E op \in known : p.live[op] # removed[op]
            \/ \E op \in DOMAIN added \cap DOMAIN kept : kept[op] # added[op]
    IN  IF facts_changed THEN Err(p)
        ELSE [ok   |-> TRUE,
              next |-> [virtual_daa |-> p.virtual_daa,
                        live |-> [op \in DOMAIN kept \cup new |->
                                    IF op \in new THEN added[op] ELSE kept[op]],
                        schedule |-> p.schedule \cup
                                     {<<Maturity(added[op]), op>> : op \in new},
                        mature |-> mature \cup deep,
                        unobserved |-> (p.unobserved \ known)
                                         \cup (IF scored THEN {} ELSE new)],
              observed |-> Restricted(added, IF scored THEN new ELSE {}),
              confirmed |-> Restricted(added, deep),
              disappeared |-> IF scored
                              THEN DOMAIN removed \ (known \cap p.unobserved)
                              ELSE {}]

(* What the node sends.  decode_notification refuses a frame that names an *)
(* outpoint twice, as one does that moves an output to another block.      *)
DaaChanged(daa) == [kind |-> "daa", daa |-> daa]
UtxosChanged(removed, added) == [kind |-> "utxos", removed |-> removed, added |-> added]

Decodable(frame) ==
    frame.kind = "utxos" => DOMAIN frame.removed \cap DOMAIN frame.added = {}

Notifications ==
    {DaaChanged(score) : score \in Scores} \cup
    {UtxosChanged(removed, added) : removed, added \in Partial(Scores)}

(* decode_notification, then apply_addresses.                              *)
Apply(p, frame) ==
    IF ~Decodable(frame) THEN Err(p)
    ELSE IF frame.kind = "daa" THEN ApplyDaa(p, frame.daa)
    ELSE ApplyUtxos(p, frame.removed, frame.added)
=============================================================================
