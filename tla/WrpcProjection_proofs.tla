------------------------ MODULE WrpcProjection_proofs ------------------------
(***************************************************************************)
(* What the projection of wrpc.rs and the deposit ledger owe each other.   *)
(* No variables: `table` is the deposit table, `before` and `after` are it *)
(* around a transaction, so that both programs that drive the projection,  *)
(* the live ingestion and the offline replay, can use these lemmas.        *)
(***************************************************************************)
EXTENDS WrpcProjection, TLAPS

(* What reconcile does to the rows when no outpoint is a legacy credit.    *)
Changes(before, after, daa, observed, confirmed, disappeared) ==
    \A op \in Outpoints :
        /\ op \in DOMAIN observed =>
             after[op].state # "absent" /\ after[op].facts = observed[op]
        /\ op \in DOMAIN confirmed =>
             /\ after[op].state \notin {"absent", "pending"}
             /\ after[op].facts = confirmed[op]
        /\ before[op].state = "absent" /\ op \notin DOMAIN observed =>
             after[op].state = "absent"
        /\ before[op].state # "absent" =>
             after[op].state # "absent" /\ after[op].facts = before[op].facts
        /\ before[op].state \in {"credited", "reversed"} => after[op] = before[op]
        /\ after[op].state = "pending" =>
             op \notin disappeared /\ before[op].state \in {"absent", "pending"}
        /\ after[op].state = "credited" /\ before[op].state # "credited" =>
             after[op].credited_daa = daa /\ op \in DOMAIN confirmed

(* The incremental projection is what a full scan would give.              *)
Exact(p) ==
    /\ p.virtual_daa # NoScore
    /\ p.mature = {op \in DOMAIN p.live : Maturity(p.live[op]) <= p.virtual_daa}
    /\ \A op \in DOMAIN p.live \ p.mature : <<Maturity(p.live[op]), op>> \in p.schedule
    /\ p.unobserved = {}

(* Whatever the projection says of an outpoint the ledger says too, in     *)
(* schedule entries of outputs long gone as well.                          *)
Anchored(p, table) ==
    /\ \A op \in DOMAIN p.live :
          table[op].state # "absent" /\ table[op].facts = p.live[op]
    /\ \A s \in p.schedule :
          table[s[2]].state # "absent" /\ s[1] = Maturity(table[s[2]].facts)

(* Nothing pending has been forgotten or counted as done.                  *)
Settled(p, table) ==
    /\ \A op \in p.mature : table[op].state \notin {"absent", "pending"}
    /\ \A op \in Outpoints : table[op].state = "pending" => op \in DOMAIN p.live

Sync(p, table) == Exact(p) /\ Anchored(p, table) /\ Settled(p, table)

-----------------------------------------------------------------------------
LEMMA PartialScores ==
    ASSUME NEW f \in Partial(Scores)
    PROVE  /\ DOMAIN f \subseteq Outpoints
           /\ \A op \in DOMAIN f : f[op] \in Scores /\ f[op] \in Nat
<1>1. PICK D \in SUBSET Outpoints : f \in [D -> Scores]
  BY DEF Partial
<1>2. QED  BY <1>1, ScoresAssumption

LEMMA MakePartialScores ==
    ASSUME NEW D \in SUBSET Outpoints, NEW f \in [D -> Scores]
    PROVE  f \in Partial(Scores)
BY DEF Partial

LEMMA RestrictedScores ==
    ASSUME NEW f \in Partial(Scores), NEW D \in SUBSET DOMAIN f
    PROVE  /\ Restricted(f, D) \in Partial(Scores)
           /\ DOMAIN Restricted(f, D) = D
           /\ \A op \in D : Restricted(f, D)[op] = f[op]
<1>1. D \in SUBSET Outpoints /\ \A op \in D : f[op] \in Scores
  BY PartialScores
<1>2. Restricted(f, D) \in [D -> Scores]
  BY <1>1 DEF Restricted
<1>3. QED  BY <1>1, <1>2, MakePartialScores DEF Restricted

LEMMA MaturityNat ==
    ASSUME NEW score \in Scores
    PROVE  /\ score \in Nat /\ Maturity(score) \in Nat
           /\ Maturity(score) = score + Required
BY ScoresAssumption DEF Maturity

LEMMA EmptyTyped ==
    /\ Empty \in Projection
    /\ Empty.live \in Partial(Scores) /\ DOMAIN Empty.live = {}
    /\ Empty.virtual_daa = NoScore
<1>1. [op \in {} |-> 0] \in [{} -> Scores]
  OBVIOUS
<1>2. [op \in {} |-> 0] \in Partial(Scores)
  BY <1>1, MakePartialScores
<1>3. QED  BY <1>2 DEF Empty, Projection

-----------------------------------------------------------------------------
(* bootstrap_addresses.                                                    *)
LEMMA BootstrapTyped ==
    ASSUME NEW p \in Projection, NEW daa \in Scores, NEW utxos \in Partial(Scores),
           NEW r, r = Bootstrap(p, daa, utxos)
    PROVE  /\ r.ok
           /\ r.next \in Projection /\ r.next.virtual_daa = daa
           /\ r.next.live = utxos
           /\ r.observed = utxos /\ r.observed \in Partial(Scores)
           /\ r.confirmed \in Partial(Scores)
           /\ DOMAIN r.confirmed = r.next.mature
           /\ \A op \in DOMAIN r.confirmed : r.confirmed[op] = utxos[op]
           /\ r.disappeared \subseteq Outpoints
           /\ Exact(r.next)
           /\ \A s \in r.next.schedule :
                 s[2] \in DOMAIN utxos /\ s[1] = Maturity(utxos[s[2]])
<1> DEFINE mature == {op \in DOMAIN utxos : Maturity(utxos[op]) <= daa}
           schedule == {<<Maturity(utxos[op]), op>> : op \in DOMAIN utxos \ mature}
           next == [virtual_daa |-> daa, live |-> utxos, schedule |-> schedule,
                    mature |-> mature, unobserved |-> {}]
<1>1. r = [ok |-> TRUE, next |-> next, observed |-> utxos,
           confirmed |-> Restricted(utxos, mature),
           disappeared |-> DOMAIN p.live \ DOMAIN utxos]
  BY DEF Bootstrap, FullSnapshot
<1>2. /\ DOMAIN utxos \subseteq Outpoints
      /\ \A op \in DOMAIN utxos : utxos[op] \in Scores /\ Maturity(utxos[op]) \in Nat
  BY PartialScores, MaturityNat
<1>3. mature \subseteq DOMAIN utxos
  OBVIOUS
<1>4. schedule \subseteq Nat \X Outpoints
  BY <1>2
<1>5. /\ Restricted(utxos, mature) \in Partial(Scores)
      /\ DOMAIN Restricted(utxos, mature) = mature
      /\ \A op \in mature : Restricted(utxos, mature)[op] = utxos[op]
  <2> HIDE DEF mature
  <2> QED  BY <1>3, RestrictedScores
<1>6. Exact(next)
  <2>1. daa # NoScore
    BY ScoresAssumption
  <2>2. \A op \in DOMAIN utxos \ mature : <<Maturity(utxos[op]), op>> \in schedule
    OBVIOUS
  <2>3. QED  BY <2>1, <2>2 DEF Exact
<1>7. \A s \in schedule : s[2] \in DOMAIN utxos /\ s[1] = Maturity(utxos[s[2]])
  OBVIOUS
<1>8. DOMAIN p.live \subseteq Outpoints
  BY PartialScores DEF Projection
<1>9. next \in Projection
  <2> HIDE DEF mature, schedule
  <2> QED  BY <1>2, <1>3, <1>4 DEF Projection
<1> HIDE DEF next, mature, schedule
<1>10. next.mature = mature /\ next.schedule = schedule /\ next.virtual_daa = daa
       /\ next.live = utxos
  BY DEF next
<1>11. QED
  BY <1>1, <1>5, <1>6, <1>7, <1>8, <1>9, <1>10

(* The ledger need not have been in step with anything before.             *)
LEMMA BootstrapSync ==
    ASSUME NEW p \in Projection, NEW daa \in Scores, NEW utxos \in Partial(Scores),
           NEW r, r = Bootstrap(p, daa, utxos),
           NEW before, NEW after, NEW disappeared,
           Changes(before, after, daa, r.observed, r.confirmed, disappeared),
           \A op \in Outpoints : before[op].state = "pending" =>
              op \in DOMAIN utxos \cup disappeared
    PROVE  Sync(r.next, after)
<1>1. /\ r.next.live = utxos /\ r.observed = utxos
      /\ DOMAIN r.confirmed = r.next.mature
      /\ r.next.mature \subseteq Outpoints
      /\ DOMAIN utxos \subseteq Outpoints
      /\ Exact(r.next)
      /\ \A s \in r.next.schedule : s[2] \in DOMAIN utxos /\ s[1] = Maturity(utxos[s[2]])
  BY BootstrapTyped, PartialScores DEF Projection
<1>2. Anchored(r.next, after)
  BY <1>1 DEF Anchored, Changes
<1>3. Settled(r.next, after)
  BY <1>1 DEF Settled, Changes
<1>4. QED  BY <1>1, <1>2, <1>3 DEF Sync

-----------------------------------------------------------------------------
(* VirtualDaaScoreChanged.                                                 *)
LEMMA DaaResult ==
    ASSUME NEW p \in Projection, NEW daa \in Scores, NEW r, r = ApplyDaa(p, daa), r.ok
    PROVE  /\ p.virtual_daa # NoScore => p.virtual_daa <= daa
           /\ r.next \in Projection
           /\ r.next.virtual_daa = daa /\ r.next.live = p.live
           /\ r.next.unobserved = {}
           /\ r.next.schedule = p.schedule \ Due(p.schedule, daa)
           /\ r.next.mature = p.mature \cup DOMAIN r.confirmed
           /\ r.observed \in Partial(Scores) /\ r.confirmed \in Partial(Scores)
           /\ DOMAIN r.observed = p.unobserved \cap DOMAIN p.live
           /\ \A op \in DOMAIN r.observed : r.observed[op] = p.live[op]
           /\ DOMAIN r.confirmed = {op \in DOMAIN p.live \ p.mature :
                                       \E s \in p.schedule : s[1] <= daa /\ s[2] = op}
           /\ \A op \in DOMAIN r.confirmed : r.confirmed[op] = p.live[op]
           /\ r.disappeared = {}
<1> DEFINE due == Due(p.schedule, daa)
           observed == p.unobserved \cap DOMAIN p.live
           confirmed == {op \in DOMAIN p.live \ p.mature : \E s \in due : s[2] = op}
           next == [virtual_daa |-> daa, live |-> p.live, schedule |-> p.schedule \ due,
                    mature |-> p.mature \cup confirmed, unobserved |-> {}]
<1>1. ~(p.virtual_daa # NoScore /\ daa < p.virtual_daa)
  BY DEF ApplyDaa, Err
<1>2. r = [ok |-> TRUE, next |-> next, observed |-> Restricted(p.live, observed),
           confirmed |-> Restricted(p.live, confirmed), disappeared |-> {}]
  BY <1>1 DEF ApplyDaa
<1>3. p.virtual_daa # NoScore => p.virtual_daa <= daa
  <2>1. p.virtual_daa \in Scores \cup {NoScore}
    BY DEF Projection
  <2>2. daa \in Nat /\ Scores \subseteq Nat
    BY ScoresAssumption
  <2>3. p.virtual_daa # NoScore => p.virtual_daa \in Nat
    BY <2>1, <2>2
  <2>4. QED  BY <1>1, <2>2, <2>3
<1>4. confirmed = {op \in DOMAIN p.live \ p.mature :
                     \E s \in p.schedule : s[1] <= daa /\ s[2] = op}
  BY DEF Due
<1>5. /\ p.live \in Partial(Scores)
      /\ observed \in SUBSET DOMAIN p.live /\ confirmed \in SUBSET DOMAIN p.live
      /\ DOMAIN p.live \subseteq Outpoints
  BY PartialScores DEF Projection
<1> HIDE DEF observed, confirmed, due
<1>6. next \in Projection
  BY <1>5 DEF Projection
<1>7. /\ next.virtual_daa = daa /\ next.live = p.live /\ next.unobserved = {}
      /\ next.schedule = p.schedule \ due /\ next.mature = p.mature \cup confirmed
  OBVIOUS
<1> HIDE DEF next
<1>8. QED
  BY <1>2, <1>3, <1>4, <1>5, <1>6, <1>7, RestrictedScores DEF due, observed

(* UtxosChanged, once there is a score and with no outpoint on both sides. *)
LEMMA UtxosResult ==
    ASSUME NEW p \in Projection, NEW removed \in Partial(Scores),
           NEW added \in Partial(Scores),
           NEW r, r = ApplyUtxos(p, removed, added), r.ok
    PROVE  /\ r.next \in Projection
           /\ r.next.virtual_daa = p.virtual_daa
           /\ DOMAIN r.next.live = (DOMAIN p.live \ DOMAIN removed) \cup DOMAIN added
           /\ \A op \in DOMAIN p.live \ DOMAIN removed : r.next.live[op] = p.live[op]
           /\ \A op \in DOMAIN added : r.next.live[op] = added[op]
           /\ r.observed \in Partial(Scores) /\ r.confirmed \in Partial(Scores)
           /\ r.disappeared \subseteq Outpoints
           /\ \A op \in DOMAIN r.observed : op \in DOMAIN added /\ r.observed[op] = added[op]
           /\ \A op \in DOMAIN r.confirmed : op \in DOMAIN added /\ r.confirmed[op] = added[op]
           /\ r.next.mature = (p.mature \ (DOMAIN removed \cap DOMAIN p.live))
                                 \cup DOMAIN r.confirmed
           /\ p.virtual_daa # NoScore =>
                /\ r.next.unobserved = p.unobserved \ (DOMAIN removed \cap DOMAIN p.live)
                /\ DOMAIN r.observed = DOMAIN added \ (DOMAIN p.live \ DOMAIN removed)
                /\ r.next.schedule = p.schedule \cup
                     {<<Maturity(added[op]), op>> : op \in DOMAIN r.observed}
                /\ DOMAIN r.confirmed =
                     {op \in DOMAIN r.observed \ (p.mature \ (DOMAIN removed \cap DOMAIN p.live)) :
                         Maturity(added[op]) <= p.virtual_daa}
                /\ r.disappeared = (DOMAIN removed \ p.unobserved)
                                     \cup (DOMAIN removed \ DOMAIN p.live)
           /\ p.virtual_daa = NoScore =>
                /\ IsNoOp(r)
                /\ r.next.unobserved = (p.unobserved \ (DOMAIN removed \cap DOMAIN p.live))
                     \cup (DOMAIN added \ (DOMAIN p.live \ DOMAIN removed))
                /\ r.next.schedule = p.schedule \cup
                     {<<Maturity(added[op]), op>> :
                        op \in DOMAIN added \ (DOMAIN p.live \ DOMAIN removed)}
<1> DEFINE known  == DOMAIN removed \cap DOMAIN p.live
           stay   == DOMAIN p.live \ known
           kept   == Restricted(p.live, stay)
           new    == DOMAIN added \ DOMAIN kept
           scored == p.virtual_daa # NoScore
           mature == p.mature \ known
           deep   == {op \in new \ mature :
                        scored /\ Maturity(added[op]) <= p.virtual_daa}
           seen   == IF scored THEN new ELSE {}
           live   == [op \in DOMAIN kept \cup new |->
                        IF op \in new THEN added[op] ELSE kept[op]]
           schedule == p.schedule \cup {<<Maturity(added[op]), op>> : op \in new}
           waiting == (p.unobserved \ known) \cup (IF scored THEN {} ELSE new)
           gone   == IF scored THEN DOMAIN removed \ (known \cap p.unobserved) ELSE {}
           next   == [virtual_daa |-> p.virtual_daa, live |-> live, schedule |-> schedule,
                      mature |-> mature \cup deep, unobserved |-> waiting]
<1>1. /\ ~(\E op \in DOMAIN added \cap DOMAIN kept : kept[op] # added[op])
      /\ r = [ok |-> TRUE, next |-> next, observed |-> Restricted(added, seen),
              confirmed |-> Restricted(added, deep), disappeared |-> gone]
  BY DEF ApplyUtxos, Err
<1>2. /\ DOMAIN p.live \subseteq Outpoints /\ DOMAIN added \subseteq Outpoints
      /\ DOMAIN removed \subseteq Outpoints
      /\ \A op \in DOMAIN added : added[op] \in Scores /\ Maturity(added[op]) \in Nat
      /\ p.live \in Partial(Scores)
  BY PartialScores, MaturityNat DEF Projection
<1>3. /\ stay = DOMAIN p.live \ DOMAIN removed
      /\ kept \in Partial(Scores) /\ DOMAIN kept = stay
      /\ \A op \in stay : kept[op] = p.live[op] /\ kept[op] \in Scores
  BY <1>2, RestrictedScores, PartialScores
<1> HIDE DEF kept
<1>4. /\ new \subseteq DOMAIN added /\ deep \subseteq new
      /\ seen \in SUBSET DOMAIN added /\ deep \in SUBSET DOMAIN added
  OBVIOUS
<1>5. /\ Restricted(added, seen) \in Partial(Scores)
      /\ DOMAIN Restricted(added, seen) = seen
      /\ \A op \in seen : Restricted(added, seen)[op] = added[op]
      /\ Restricted(added, deep) \in Partial(Scores)
      /\ DOMAIN Restricted(added, deep) = deep
      /\ \A op \in deep : Restricted(added, deep)[op] = added[op]
  <2> HIDE DEF seen, deep
  <2> QED  BY <1>4, RestrictedScores
<1>6. /\ DOMAIN live = stay \cup DOMAIN added
      /\ \A op \in stay : live[op] = p.live[op]
      /\ \A op \in DOMAIN added : live[op] = added[op]
      /\ live \in [stay \cup DOMAIN added -> Scores]
  BY <1>1, <1>2, <1>3
<1>7. live \in Partial(Scores)
  <2>1. stay \cup DOMAIN added \in SUBSET Outpoints
    BY <1>2
  <2> HIDE DEF live, stay
  <2> QED  BY <1>6, <2>1, MakePartialScores
<1>8. schedule \subseteq Nat \X Outpoints
  BY <1>2 DEF Projection
<1>9. mature \cup deep \subseteq Outpoints /\ waiting \subseteq Outpoints
      /\ gone \subseteq Outpoints
  BY <1>2 DEF Projection
<1>10. scored => /\ waiting = p.unobserved \ known
                 /\ seen = DOMAIN added \ (DOMAIN p.live \ DOMAIN removed)
                 /\ seen = new
                 /\ schedule = p.schedule \cup {<<Maturity(added[op]), op>> : op \in new}
                 /\ deep = {op \in new \ mature : Maturity(added[op]) <= p.virtual_daa}
                 /\ gone = (DOMAIN removed \ p.unobserved)
                              \cup (DOMAIN removed \ DOMAIN p.live)
  BY <1>3
<1>11. ~scored => seen = {} /\ deep = {} /\ gone = {}
  OBVIOUS
<1>12. ~scored => /\ waiting = (p.unobserved \ known)
                                  \cup (DOMAIN added \ (DOMAIN p.live \ DOMAIN removed))
                  /\ schedule = p.schedule \cup
                       {<<Maturity(added[op]), op>> :
                          op \in DOMAIN added \ (DOMAIN p.live \ DOMAIN removed)}
  BY <1>3
<1> HIDE DEF live, schedule, waiting, gone, deep, seen
<1>13. next \in Projection
  BY <1>7, <1>8, <1>9 DEF Projection
<1>14. /\ next.virtual_daa = p.virtual_daa /\ next.live = live
       /\ next.schedule = schedule /\ next.mature = mature \cup deep
       /\ next.unobserved = waiting
  OBVIOUS
<1> HIDE DEF next
<1>15. ~scored => IsNoOp(r)
  BY <1>1, <1>5, <1>11 DEF IsNoOp
<1>16. ~scored => r.next.unobserved = waiting /\ r.next.schedule = schedule
  BY <1>1, <1>14
<1>17. QED
  BY <1>1, <1>3, <1>4, <1>5, <1>6, <1>9, <1>10, <1>12, <1>13, <1>14, <1>15, <1>16

-----------------------------------------------------------------------------
(* Apply is one of the two, on a frame that decodes.                       *)
LEMMA ApplyCases ==
    ASSUME NEW p \in Projection, NEW frame \in Notifications,
           NEW r, r = Apply(p, frame), r.ok
    PROVE  \/ \E daa \in Scores : frame = DaaChanged(daa) /\ r = ApplyDaa(p, daa)
           \/ \E removed, added \in Partial(Scores) :
                /\ frame = UtxosChanged(removed, added)
                /\ DOMAIN removed \cap DOMAIN added = {}
                /\ r = ApplyUtxos(p, removed, added)
<1>1. Decodable(frame)
  BY DEF Apply, Err
<1>2. CASE \E daa \in Scores : frame = DaaChanged(daa)
  <2>1. PICK daa \in Scores : frame = DaaChanged(daa)
    BY <1>2
  <2>2. frame.kind = "daa" /\ frame.daa = daa
    BY <2>1 DEF DaaChanged
  <2>3. QED  BY <1>1, <2>1, <2>2 DEF Apply
<1>3. CASE \E removed, added \in Partial(Scores) : frame = UtxosChanged(removed, added)
  <2>1. PICK removed \in Partial(Scores), added \in Partial(Scores) :
              frame = UtxosChanged(removed, added)
    BY <1>3
  <2>2. frame.kind = "utxos" /\ frame.removed = removed /\ frame.added = added
    BY <2>1 DEF UtxosChanged
  <2>3. DOMAIN removed \cap DOMAIN added = {}
    BY <1>1, <2>2 DEF Decodable
  <2>4. QED  BY <1>1, <2>1, <2>2, <2>3 DEF Apply
<1>4. QED  BY <1>2, <1>3 DEF Notifications

(* What apply_addresses returns can be handed to the ledger.               *)
LEMMA ApplyTyped ==
    ASSUME NEW p \in Projection, NEW frame \in Notifications, NEW r, r = Apply(p, frame)
    PROVE  /\ r.next \in Projection
           /\ r.observed \in Partial(Scores) /\ r.confirmed \in Partial(Scores)
           /\ r.disappeared \subseteq Outpoints
           /\ p.virtual_daa # NoScore \/ ~IsNoOp(r) => r.next.virtual_daa \in Scores
           /\ ~r.ok => r.next = p
<1>1. CASE r.ok
  <2>1. CASE \E daa \in Scores : r = ApplyDaa(p, daa)
    BY <1>1, <2>1, DaaResult
  <2>2. CASE \E removed, added \in Partial(Scores) : r = ApplyUtxos(p, removed, added)
    <3>1. /\ r.next \in Projection /\ r.next.virtual_daa = p.virtual_daa
          /\ r.observed \in Partial(Scores) /\ r.confirmed \in Partial(Scores)
          /\ r.disappeared \subseteq Outpoints
          /\ p.virtual_daa = NoScore => IsNoOp(r)
      BY <1>1, <2>2, UtxosResult
    <3>2. p.virtual_daa # NoScore => p.virtual_daa \in Scores
      BY DEF Projection
    <3>3. QED  BY <1>1, <3>1, <3>2
  <2>3. QED  BY <1>1, <2>1, <2>2, ApplyCases
<1>2. CASE ~r.ok
  <2>1. r = Err(p)
    BY <1>2 DEF Apply, ApplyDaa, ApplyUtxos
  <2>2. p.virtual_daa # NoScore => p.virtual_daa \in Scores
    BY DEF Projection
  <2>3. QED  BY <2>1, <2>2, EmptyTyped DEF Err, IsNoOp
<1>3. QED  BY <1>1, <1>2 DEF Apply, ApplyDaa, ApplyUtxos, Err

(* A projection that was exact, and said what the ledger says, is exact    *)
(* after every frame it accepts: a schedule entry of an output that was    *)
(* replaced fires at the maturity of the new one, as both are the          *)
(* ledger's.                                                               *)
LEMMA ApplyExact ==
    ASSUME NEW p \in Projection, NEW frame \in Notifications,
           NEW r, r = Apply(p, frame), r.ok,
           NEW table, Exact(p), Anchored(p, table)
    PROVE  /\ Exact(r.next)
           /\ \A op \in DOMAIN r.confirmed :
                 Maturity(r.confirmed[op]) <= r.next.virtual_daa
<1>1. p.virtual_daa \in Scores /\ p.virtual_daa # NoScore /\ p.unobserved = {}
  BY DEF Exact, Projection
<1>2. /\ p.live \in Partial(Scores)
      /\ \A op \in DOMAIN p.live :
            p.live[op] \in Scores /\ Maturity(p.live[op]) \in Nat
      /\ p.mature \subseteq DOMAIN p.live
  BY PartialScores, MaturityNat DEF Projection, Exact
<1>3. CASE \E daa \in Scores : frame = DaaChanged(daa) /\ r = ApplyDaa(p, daa)
  <2>1. PICK daa \in Scores : r = ApplyDaa(p, daa)
    BY <1>3
  <2>2. /\ p.virtual_daa <= daa
        /\ r.next.virtual_daa = daa /\ r.next.live = p.live /\ r.next.unobserved = {}
        /\ r.next.schedule = p.schedule \ Due(p.schedule, daa)
        /\ r.next.mature = p.mature \cup DOMAIN r.confirmed
        /\ DOMAIN r.confirmed = {op \in DOMAIN p.live \ p.mature :
                                    \E s \in p.schedule : s[1] <= daa /\ s[2] = op}
        /\ \A op \in DOMAIN r.confirmed : r.confirmed[op] = p.live[op]
    BY <1>1, <2>1, DaaResult
  <2>3. daa \in Nat /\ p.virtual_daa \in Nat /\ daa # NoScore
    BY <1>1, ScoresAssumption
  <2>4. \A op \in DOMAIN r.confirmed : Maturity(p.live[op]) <= daa
    BY <2>2 DEF Anchored
  <2>5. \A op \in DOMAIN p.live \ p.mature :
          Maturity(p.live[op]) <= daa => op \in DOMAIN r.confirmed
    <3> SUFFICES ASSUME NEW op \in DOMAIN p.live \ p.mature, Maturity(p.live[op]) <= daa
                 PROVE  op \in DOMAIN r.confirmed
      OBVIOUS
    <3>1. <<Maturity(p.live[op]), op>> \in p.schedule
      BY DEF Exact
    <3>2. QED  BY <2>2, <3>1
  <2>6. r.next.mature = {op \in DOMAIN p.live : Maturity(p.live[op]) <= daa}
    <3>1. \A op \in p.mature : op \in DOMAIN p.live /\ Maturity(p.live[op]) <= p.virtual_daa
      BY DEF Exact
    <3>2. \A op \in p.mature : op \in DOMAIN p.live /\ Maturity(p.live[op]) <= daa
      BY <1>2, <2>2, <2>3, <3>1
    <3>3. QED  BY <2>2, <2>4, <2>5, <3>2
  <2>7. \A op \in DOMAIN p.live \ r.next.mature :
          <<Maturity(p.live[op]), op>> \in r.next.schedule
    BY <2>2, <2>6 DEF Exact, Due
  <2>8. QED  BY <2>2, <2>3, <2>4, <2>6, <2>7 DEF Exact
<1>4. CASE \E removed, added \in Partial(Scores) :
             /\ DOMAIN removed \cap DOMAIN added = {}
             /\ r = ApplyUtxos(p, removed, added)
  <2>1. PICK removed \in Partial(Scores), added \in Partial(Scores) :
             /\ DOMAIN removed \cap DOMAIN added = {}
             /\ r = ApplyUtxos(p, removed, added)
    BY <1>4
  <2> DEFINE stay == DOMAIN p.live \ DOMAIN removed
             new  == DOMAIN r.observed
             known == DOMAIN removed \cap DOMAIN p.live
  <2>2. /\ r.next.virtual_daa = p.virtual_daa
        /\ DOMAIN r.next.live = stay \cup DOMAIN added
        /\ \A op \in stay : r.next.live[op] = p.live[op]
        /\ \A op \in DOMAIN added : r.next.live[op] = added[op]
        /\ r.next.unobserved = {}
        /\ new = DOMAIN added \ stay
        /\ r.next.schedule = p.schedule \cup {<<Maturity(added[op]), op>> : op \in new}
        /\ DOMAIN r.confirmed = {op \in new \ (p.mature \ known) :
                                    Maturity(added[op]) <= p.virtual_daa}
        /\ \A op \in DOMAIN r.confirmed : r.confirmed[op] = added[op]
        /\ r.next.mature = (p.mature \ known) \cup DOMAIN r.confirmed
    BY <1>1, <2>1, UtxosResult
  <2>3. p.mature \ known \subseteq stay /\ p.mature \cap stay = p.mature \ known
    BY <1>2
  <2>4. DOMAIN r.next.live = stay \cup new /\ stay \cap new = {}
        /\ \A op \in new : r.next.live[op] = added[op]
    BY <2>2
  <2>5. DOMAIN r.confirmed = {op \in new : Maturity(added[op]) <= p.virtual_daa}
    BY <2>2, <2>3, <2>4
  <2>6. \A op \in stay : op \in p.mature <=> Maturity(p.live[op]) <= p.virtual_daa
    BY DEF Exact
  <2> HIDE DEF stay, new, known
  <2>7. r.next.mature = {op \in DOMAIN r.next.live :
                           Maturity(r.next.live[op]) <= p.virtual_daa}
    BY <2>2, <2>3, <2>4, <2>5, <2>6
  <2>8. \A op \in DOMAIN r.next.live \ r.next.mature :
          <<Maturity(r.next.live[op]), op>> \in r.next.schedule
    <3> SUFFICES ASSUME NEW op \in DOMAIN r.next.live \ r.next.mature
                 PROVE  <<Maturity(r.next.live[op]), op>> \in r.next.schedule
      OBVIOUS
    <3>1. CASE op \in new
      BY <2>2, <2>4, <3>1
    <3>2. CASE op \in stay
      <4>1. op \in DOMAIN p.live \ p.mature
        BY <2>2, <2>3, <3>2 DEF stay
      <4>2. QED  BY <2>2, <3>2, <4>1 DEF Exact
    <3>3. QED  BY <2>4, <3>1, <3>2
  <2>9. r.next.virtual_daa = p.virtual_daa
    BY <2>2
  <2>10. Exact(r.next)
    BY <1>1, <2>2, <2>7, <2>8, <2>9 DEF Exact
  <2>11. \A op \in DOMAIN r.confirmed :
           Maturity(r.confirmed[op]) <= r.next.virtual_daa
    BY <2>2, <2>5, <2>9
  <2>12. QED  BY <2>10, <2>11
<1>5. \/ \E daa \in Scores : frame = DaaChanged(daa) /\ r = ApplyDaa(p, daa)
      \/ \E removed, added \in Partial(Scores) :
           /\ DOMAIN removed \cap DOMAIN added = {}
           /\ r = ApplyUtxos(p, removed, added)
  BY ApplyCases
<1>6. QED  BY <1>3, <1>4, <1>5

(* What the ledger has accepted of a frame it says for ever: rows keep     *)
(* their facts.                                                            *)
LEMMA AnchoredStable ==
    ASSUME NEW p \in Projection, NEW before, NEW after,
           Anchored(p, before),
           \A op \in Outpoints : before[op].state # "absent" =>
              after[op].state # "absent" /\ after[op].facts = before[op].facts
    PROVE  Anchored(p, after)
<1>1. DOMAIN p.live \subseteq Outpoints /\ \A s \in p.schedule : s[2] \in Outpoints
  BY PartialScores DEF Projection
<1>2. QED  BY <1>1 DEF Anchored

(* One frame, applied and reconciled, keeps projection and ledger in step. *)
LEMMA ApplyAnchored ==
    ASSUME NEW p \in Projection, NEW frame \in Notifications,
           NEW r, r = Apply(p, frame), r.ok,
           NEW before, NEW after, Exact(p), Anchored(p, before),
           Changes(before, after, r.next.virtual_daa, r.observed, r.confirmed, r.disappeared)
    PROVE  Anchored(r.next, after)
<1>1. p.virtual_daa # NoScore /\ p.unobserved = {}
  BY DEF Exact
<1>2. Anchored(p, after)
  BY AnchoredStable DEF Changes
<1>3. DOMAIN r.observed \subseteq Outpoints
  BY ApplyTyped, PartialScores
<1>4. CASE \E daa \in Scores : frame = DaaChanged(daa) /\ r = ApplyDaa(p, daa)
  <2>1. r.next.live = p.live /\ r.next.schedule \subseteq p.schedule
    BY <1>4, DaaResult
  <2>2. QED  BY <1>2, <2>1 DEF Anchored
<1>5. CASE \E removed, added \in Partial(Scores) :
             /\ DOMAIN removed \cap DOMAIN added = {}
             /\ r = ApplyUtxos(p, removed, added)
  <2>1. PICK removed \in Partial(Scores), added \in Partial(Scores) :
             r = ApplyUtxos(p, removed, added)
    BY <1>5
  <2> DEFINE stay == DOMAIN p.live \ DOMAIN removed
  <2>2. /\ DOMAIN r.next.live = stay \cup DOMAIN added
        /\ \A op \in stay : r.next.live[op] = p.live[op]
        /\ \A op \in DOMAIN added : r.next.live[op] = added[op]
        /\ DOMAIN r.observed = DOMAIN added \ stay
        /\ \A op \in DOMAIN r.observed : r.observed[op] = added[op]
        /\ r.next.schedule = p.schedule
                              \cup {<<Maturity(added[op]), op>> : op \in DOMAIN r.observed}
    BY <1>1, <2>1, UtxosResult
  <2>3. \A op \in DOMAIN r.observed :
          after[op].state # "absent" /\ after[op].facts = added[op]
    BY <1>3, <2>2 DEF Changes
  <2>4. \A op \in DOMAIN r.next.live :
          after[op].state # "absent" /\ after[op].facts = r.next.live[op]
    BY <1>2, <2>2, <2>3 DEF Anchored
  <2>5. \A s \in r.next.schedule :
          after[s[2]].state # "absent" /\ s[1] = Maturity(after[s[2]].facts)
    BY <1>2, <2>2, <2>3 DEF Anchored
  <2>6. QED  BY <2>4, <2>5 DEF Anchored
<1>6. QED  BY <1>4, <1>5, ApplyCases

LEMMA ApplySync ==
    ASSUME NEW p \in Projection, NEW frame \in Notifications,
           NEW r, r = Apply(p, frame), r.ok,
           NEW before, NEW after, Sync(p, before),
           Changes(before, after, r.next.virtual_daa, r.observed, r.confirmed, r.disappeared)
    PROVE  Sync(r.next, after)
<1>1. Exact(r.next) /\ Anchored(r.next, after)
  BY ApplyExact, ApplyAnchored DEF Sync
<1>2. p.virtual_daa # NoScore /\ p.unobserved = {}
  BY DEF Sync, Exact
<1>3. /\ DOMAIN p.live \subseteq Outpoints /\ p.mature \subseteq Outpoints
      /\ DOMAIN r.confirmed \subseteq Outpoints
  BY ApplyTyped, PartialScores DEF Projection
<1>4. /\ r.next.mature \subseteq p.mature \cup DOMAIN r.confirmed
      /\ \A op \in DOMAIN p.live \ r.disappeared : op \in DOMAIN r.next.live
      /\ DOMAIN r.observed \subseteq DOMAIN r.next.live
  <2>1. CASE \E daa \in Scores : frame = DaaChanged(daa) /\ r = ApplyDaa(p, daa)
    BY <2>1, DaaResult
  <2>2. CASE \E removed, added \in Partial(Scores) :
               /\ DOMAIN removed \cap DOMAIN added = {}
               /\ r = ApplyUtxos(p, removed, added)
    <3>1. PICK removed \in Partial(Scores), added \in Partial(Scores) :
               r = ApplyUtxos(p, removed, added)
      BY <2>2
    <3>2. /\ DOMAIN r.next.live = (DOMAIN p.live \ DOMAIN removed) \cup DOMAIN added
          /\ DOMAIN r.observed \subseteq DOMAIN added
          /\ r.next.mature \subseteq p.mature \cup DOMAIN r.confirmed
          /\ DOMAIN removed \subseteq r.disappeared
      BY <1>2, <3>1, UtxosResult
    <3>3. QED  BY <3>2
  <2>3. QED  BY <2>1, <2>2, ApplyCases
<1>5. \A op \in r.next.mature : after[op].state \notin {"absent", "pending"}
  BY <1>3, <1>4 DEF Sync, Settled, Changes
<1>6. ASSUME NEW op \in Outpoints, after[op].state = "pending"
      PROVE  op \in DOMAIN r.next.live
  <2>1. op \notin r.disappeared /\ before[op].state \in {"absent", "pending"}
    BY <1>6 DEF Changes
  <2>2. CASE before[op].state = "pending"
    BY <1>4, <2>1, <2>2 DEF Sync, Settled
  <2>3. CASE before[op].state = "absent"
    BY <1>4, <1>6, <2>3 DEF Changes
  <2>4. QED  BY <2>1, <2>2, <2>3
<1>7. QED  BY <1>1, <1>5, <1>6 DEF Sync, Settled
=============================================================================
