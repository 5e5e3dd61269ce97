------------------------ MODULE DepositLedger_proofs ------------------------
(***************************************************************************)
(* Proofs about DepositLedger for every set of outpoints, facts and DAA    *)
(* scores.                                                                 *)
(***************************************************************************)
EXTENDS DepositLedger, TLAPS

(* An entry of an argument list carries facts.                             *)
LEMMA BatchFacts ==
  ASSUME NEW batch \in Batch, NEW op \in DOMAIN batch
  PROVE  op \in Outpoints /\ batch[op] \in Facts
<1>1. PICK S \in SUBSET Outpoints : batch \in [S -> Facts]
  BY DEF Batch
<1>2. QED  BY <1>1

(* The three loops of reconcile, each a total function on rows.            *)
LEMMA ReconcileTables ==
  ASSUME TypeOK, NEW daa \in Daa, NEW observed \in Batch,
         NEW confirmed \in Batch, NEW disappeared \in SUBSET Outpoints
  PROVE  LET seen  == Observe(daa, observed)
             deep  == Confirm(seen, daa, confirmed)
             final == Disappear(deep, disappeared)
         IN  /\ seen \in [Outpoints -> Row]
             /\ deep \in [Outpoints -> Row]
             /\ final \in [Outpoints -> Row]
<1> DEFINE seen  == Observe(daa, observed)
           deep  == Confirm(seen, daa, confirmed)
           final == Disappear(deep, disappeared)
<1>1. seen \in [Outpoints -> Row]
  BY BatchFacts DEF Observe, TypeOK, Row, States, Reasons
<1>2. deep \in [Outpoints -> Row]
  <2> HIDE DEF seen
  <2> QED  BY <1>1 DEF Confirm, Row, States
<1>3. final \in [Outpoints -> Row]
  <2> HIDE DEF deep
  <2> QED  BY <1>2 DEF Disappear, Row, States, Reasons
<1>4. QED  BY <1>1, <1>2, <1>3

-----------------------------------------------------------------------------
(* Each loop keeps the columns of a row in agreement.                      *)
LEMMA ReconcileWellFormed ==
  ASSUME TypeOK, RowsWellFormed, NEW daa \in Daa, NEW observed \in Batch,
         NEW confirmed \in Batch, NEW disappeared \in SUBSET Outpoints,
         NEW op \in Outpoints
  PROVE  LET seen  == Observe(daa, observed)
             deep  == Confirm(seen, daa, confirmed)
             final == Disappear(deep, disappeared)
         IN  /\ WellFormed(seen[op])
             /\ WellFormed(deep[op])
             /\ WellFormed(final[op])
<1> DEFINE seen  == Observe(daa, observed)
           deep  == Confirm(seen, daa, confirmed)
           final == Disappear(deep, disappeared)
<1>0. /\ seen \in [Outpoints -> Row]
      /\ deep \in [Outpoints -> Row]
      /\ final \in [Outpoints -> Row]
  BY ReconcileTables
<1>1. WellFormed(seen[op])
  <2>1. CASE op \in DOMAIN observed /\ deposits[op].state = "absent"
    <3>1. observed[op] \in Facts
      BY <2>1, BatchFacts
    <3>2. QED
      BY <2>1, <3>1, NoFactsAssumption, NoDaaAssumption DEF Observe, WellFormed
  <2>2. CASE ~(op \in DOMAIN observed /\ deposits[op].state = "absent")
    BY <2>2 DEF Observe, RowsWellFormed
  <2>3. QED  BY <2>1, <2>2
<1>2. WellFormed(deep[op])
  <2> DEFINE row == seen[op]
  <2>1. row \in Row /\ WellFormed(row)
    BY <1>0, <1>1
  <2>2. deep[op] = IF op \in DOMAIN confirmed /\ row.state = "pending"
                   THEN [row EXCEPT !.state = "credited", !.credited_daa = daa]
                   ELSE row
    BY DEF Confirm
  <2> HIDE DEF row, deep
  <2>3. CASE op \in DOMAIN confirmed /\ row.state = "pending"
    <3>1. /\ deep[op].state = "credited" /\ deep[op].credited_daa = daa
          /\ deep[op].facts = row.facts
          /\ deep[op].reversal_reason = row.reversal_reason
      BY <2>1, <2>2, <2>3 DEF Row
    <3>2. QED  BY <2>1, <2>3, <3>1, NoDaaAssumption DEF WellFormed
  <2>4. QED  BY <2>1, <2>2, <2>3
<1>3. WellFormed(final[op])
  <2> DEFINE row == deep[op]
  <2>1. row \in Row /\ WellFormed(row)
    BY <1>0, <1>2
  <2>2. final[op] = IF op \in disappeared /\ row.state = "pending"
                    THEN [row EXCEPT !.state = "reversed",
                            !.reversal_reason = "disappeared before confirmation"]
                    ELSE row
    BY DEF Disappear
  <2> HIDE DEF row, final
  <2>3. CASE op \in disappeared /\ row.state = "pending"
    <3>1. /\ final[op].state = "reversed"
          /\ final[op].reversal_reason = "disappeared before confirmation"
          /\ final[op].facts = row.facts
          /\ final[op].credited_daa = row.credited_daa
      BY <2>1, <2>2, <2>3 DEF Row
    <3>2. QED  BY <2>1, <2>3, <3>1 DEF WellFormed
  <2>4. QED  BY <2>1, <2>2, <2>3
<1>4. QED  BY <1>1, <1>2, <1>3

(* The net effect of the three loops on one row, in terms of the events    *)
(* that are inserted for it.                                               *)
LEMMA ReconcileRow ==
  ASSUME TypeOK, RowsWellFormed, NEW daa \in Daa, NEW observed \in Batch,
         NEW confirmed \in Batch, NEW disappeared \in SUBSET Outpoints,
         NEW op \in Outpoints
  PROVE  LET seen    == Observe(daa, observed)
             deep    == Confirm(seen, daa, confirmed)
             final   == Disappear(deep, disappeared)
             credits == seen[op].state = "pending" /\ deep[op].state = "credited"
             revokes == deep[op].state = "pending" /\ final[op].state = "reversed"
         IN  /\ deposits[op].state # "absent" => final[op].facts = deposits[op].facts
             /\ final[op].state = "reversed"
                  <=> deposits[op].state = "reversed" \/ revokes
             /\ final[op].credited_daa # NoDaa
                  <=> \/ deposits[op].credited_daa # NoDaa
                      \/ credits
                      \/ /\ deposits[op].state = "absent"
                         /\ op \in legacy /\ op \in DOMAIN observed
             /\ credits \/ revokes
                  => /\ deposits[op].state \in {"absent", "pending"}
                     /\ final[op].facts \in Facts
             /\ deposits[op].state = "credited" => final[op].state = "credited"
             /\ deposits[op].state = "absent" /\ op \in legacy
                  => ~credits /\ ~revokes
<1> DEFINE seen  == Observe(daa, observed)
           deep  == Confirm(seen, daa, confirmed)
           final == Disappear(deep, disappeared)
<1>0. /\ seen \in [Outpoints -> Row]
      /\ deep \in [Outpoints -> Row]
      /\ final \in [Outpoints -> Row]
  BY ReconcileTables
<1>1. WellFormed(seen[op]) /\ WellFormed(deep[op]) /\ WellFormed(final[op])
  BY ReconcileWellFormed
<1>2. WellFormed(deposits[op]) /\ deposits[op] \in Row
  BY DEF RowsWellFormed, TypeOK
<1>3. /\ deposits[op].state # "absent" => seen[op] = deposits[op]
      /\ deposits[op].state = "absent" =>
           \/ seen[op] = deposits[op] /\ op \notin DOMAIN observed
           \/ /\ op \in DOMAIN observed
              /\ seen[op].state = IF op \in legacy THEN "credited" ELSE "pending"
              /\ seen[op].credited_daa = IF op \in legacy THEN daa ELSE NoDaa
  BY DEF Observe
<1>4. \/ deep[op] = seen[op]
      \/ /\ seen[op].state = "pending" /\ deep[op].state = "credited"
         /\ deep[op].facts = seen[op].facts /\ deep[op].credited_daa = daa
  <2> HIDE DEF seen
  <2> QED  BY <1>0 DEF Confirm, Row
<1>5. \/ final[op] = deep[op]
      \/ /\ deep[op].state = "pending" /\ final[op].state = "reversed"
         /\ final[op].facts = deep[op].facts
         /\ final[op].credited_daa = deep[op].credited_daa
  <2> HIDE DEF deep
  <2> QED  BY <1>0 DEF Disappear, Row
<1> HIDE DEF seen, deep, final
<1>6. seen[op] \in Row /\ deep[op] \in Row /\ final[op] \in Row
  BY <1>0
<1>7. QED
  BY <1>1, <1>2, <1>3, <1>4, <1>5, <1>6, NoDaaAssumption
  DEF WellFormed, Row, seen, deep, final

-----------------------------------------------------------------------------
(* The inductive invariant: types, agreement of the columns of a row, and  *)
(* agreement of the two tables.  OutboxMirrorsLedger alone is not          *)
(* inductive: that an INSERT OR IGNORE is never ignored needs the columns. *)
IInv == TypeOK /\ RowsWellFormed /\ OutboxMirrorsLedger

LEMMA ReconcileInv ==
  ASSUME IInv, NEW daa \in Daa, NEW observed \in Batch,
         NEW confirmed \in Batch, NEW disappeared \in SUBSET Outpoints,
         Reconcile(daa, observed, confirmed, disappeared)
  PROVE  IInv'
<1> DEFINE seen  == Observe(daa, observed)
           deep  == Confirm(seen, daa, confirmed)
           final == Disappear(deep, disappeared)
           credit == {op \in Outpoints : /\ seen[op].state = "pending"
                                         /\ deep[op].state = "credited"}
           revoke == {op \in Outpoints : /\ deep[op].state = "pending"
                                         /\ final[op].state = "reversed"}
           events == {[kind |-> "credit", outpoint |-> op, facts |-> final[op].facts] :
                        op \in credit}
                     \cup
                     {[kind |-> "reverse", outpoint |-> op, facts |-> final[op].facts] :
                        op \in revoke}
<1>1. TypeOK /\ RowsWellFormed /\ OutboxMirrorsLedger
  BY DEF IInv
<1>2. deposits' = final /\ legacy' = legacy /\ InsertOutbox(events)
  BY DEF Reconcile
<1>3. /\ final \in [Outpoints -> Row]
      /\ \A op \in Outpoints : WellFormed(final[op])
  BY <1>1, ReconcileTables, ReconcileWellFormed
<1>4. \A op \in Outpoints :
        /\ deposits[op].state # "absent" => final[op].facts = deposits[op].facts
        /\ final[op].state = "reversed"
             <=> deposits[op].state = "reversed" \/ op \in revoke
        /\ final[op].credited_daa # NoDaa
             => \/ deposits[op].credited_daa # NoDaa
                \/ op \in credit
                \/ op \in legacy
        /\ deposits[op].credited_daa # NoDaa => final[op].credited_daa # NoDaa
        /\ op \in credit => final[op].credited_daa # NoDaa
        /\ op \in credit \cup revoke
             => /\ deposits[op].state \in {"absent", "pending"}
                /\ final[op].facts \in Facts
  BY <1>1, ReconcileRow
<1>5. \A op \in Outpoints :
        /\ deposits[op].state \in {"absent", "pending"} => deposits[op].credited_daa = NoDaa
        /\ deposits[op].state = "absent" => deposits[op].facts = NoFacts
  BY <1>1 DEF RowsWellFormed, WellFormed
<1> HIDE DEF seen, deep, final, credit, revoke
<1>6. /\ credit \subseteq Outpoints
      /\ revoke \subseteq Outpoints
  BY DEF credit, revoke
<1>7. outbox' = outbox \cup events
  <2>1. ASSUME NEW e \in events, NEW f \in outbox
        PROVE  <<f.kind, f.outpoint>> # <<e.kind, e.outpoint>>
    <3>1. CASE e.kind = "credit"
      <4>1. e.outpoint \in credit
        BY <3>1
      <4>2. ~Emitted("credit", e.outpoint)
        BY <1>1, <1>4, <1>5, <1>6, <4>1 DEF OutboxMirrorsLedger
      <4>3. QED  BY <3>1, <4>2 DEF Emitted
    <3>2. CASE e.kind = "reverse"
      <4>1. e.outpoint \in revoke
        BY <3>2
      <4>2. ~Emitted("reverse", e.outpoint)
        BY <1>1, <1>4, <1>6, <4>1 DEF OutboxMirrorsLedger
      <4>3. QED  BY <3>2, <4>2 DEF Emitted
    <3>3. QED  BY <3>1, <3>2
  <2>2. QED  BY <1>2, <2>1 DEF InsertOutbox
<1>8. TypeOK'
  <2>1. events \subseteq Event
    BY <1>4, <1>6 DEF Event
  <2>2. QED
    BY <1>1, <1>2, <1>3, <1>7, <2>1 DEF TypeOK
<1>9. RowsWellFormed'
  BY <1>2, <1>3 DEF RowsWellFormed
<1>10. OutboxMirrorsLedger'
  <2>1. \A op \in Outpoints :
          /\ Emitted("credit", op)' <=> Emitted("credit", op) \/ op \in credit
          /\ Emitted("reverse", op)' <=> Emitted("reverse", op) \/ op \in revoke
    <3>1. ASSUME NEW op \in Outpoints
          PROVE  /\ op \in credit => \E e \in events : e.kind = "credit" /\ e.outpoint = op
                 /\ op \in revoke => \E e \in events : e.kind = "reverse" /\ e.outpoint = op
      <4>1. ASSUME op \in credit
            PROVE  \E e \in events : e.kind = "credit" /\ e.outpoint = op
        <5>1. [kind |-> "credit", outpoint |-> op, facts |-> final[op].facts] \in events
          BY <4>1
        <5>2. QED  BY <5>1
      <4>2. ASSUME op \in revoke
            PROVE  \E e \in events : e.kind = "reverse" /\ e.outpoint = op
        <5>1. [kind |-> "reverse", outpoint |-> op, facts |-> final[op].facts] \in events
          BY <4>2
        <5>2. QED  BY <5>1
      <4>3. QED  BY <4>1, <4>2
    <3>2. ASSUME NEW e \in events
          PROVE  /\ e.kind = "credit" => e.outpoint \in credit
                 /\ e.kind = "reverse" => e.outpoint \in revoke
      OBVIOUS
    <3> HIDE DEF events
    <3>3. QED  BY <1>7, <3>1, <3>2 DEF Emitted
  <2>2. ASSUME NEW e \in outbox'
        PROVE  e.facts = deposits'[e.outpoint].facts
    <3>1. CASE e \in outbox
      <4>1. e.outpoint \in Outpoints /\ e.facts \in Facts
        BY <1>1, <3>1 DEF TypeOK, Event
      <4>2. e.facts = deposits[e.outpoint].facts
        BY <1>1, <3>1 DEF OutboxMirrorsLedger
      <4>3. deposits[e.outpoint].state # "absent"
        BY <1>5, <4>1, <4>2, NoFactsAssumption
      <4>4. QED  BY <1>2, <1>4, <4>1, <4>2, <4>3
    <3>2. CASE e \in events
      BY <1>2, <3>2
    <3>3. QED  BY <1>7, <2>2, <3>1, <3>2
  <2>3. QED
    BY <1>1, <1>2, <1>4, <1>6, <2>1, <2>2 DEF OutboxMirrorsLedger
<1>11. QED  BY <1>8, <1>9, <1>10 DEF IInv

LEMMA ReverseInv ==
  ASSUME IInv, NEW op \in Outpoints, ReverseCreditedOnReorg(op)
  PROVE  IInv'
<1> DEFINE event == [kind |-> "reverse", outpoint |-> op,
                     facts |-> deposits[op].facts]
<1>1. TypeOK /\ RowsWellFormed /\ OutboxMirrorsLedger
  BY DEF IInv
<1>2. /\ deposits[op].state = "credited"
      /\ deposits' = [deposits EXCEPT ![op] =
            [deposits[op] EXCEPT !.state = "reversed",
                                 !.reversal_reason = "reorg evidence"]]
      /\ legacy' = legacy
  BY DEF ReverseCreditedOnReorg
<1>3. /\ deposits'[op].state = "reversed"
      /\ deposits'[op].reversal_reason = "reorg evidence"
      /\ deposits'[op].facts = deposits[op].facts
      /\ deposits'[op].credited_daa = deposits[op].credited_daa
      /\ deposits'[op] \in Row
      /\ \A o \in Outpoints \ {op} : deposits'[o] = deposits[o]
      /\ deposits' \in [Outpoints -> Row]
  BY <1>1, <1>2 DEF TypeOK, Row, States, Reasons
<1>4. WellFormed(deposits[op]) /\ deposits[op].facts \in Facts
  BY <1>1, <1>2 DEF TypeOK, RowsWellFormed, WellFormed, Row
<1>5. outbox' = outbox \cup {event}
  <2>1. ~Emitted("reverse", op)
    BY <1>1, <1>2 DEF OutboxMirrorsLedger
  <2>2. \A f \in outbox : <<f.kind, f.outpoint>> # <<"reverse", op>>
    BY <2>1 DEF Emitted
  <2>3. InsertOutbox({event})
    BY DEF ReverseCreditedOnReorg
  <2>4. event.kind = "reverse" /\ event.outpoint = op
    OBVIOUS
  <2> HIDE DEF event
  <2>5. QED  BY <2>2, <2>3, <2>4 DEF InsertOutbox
<1>6. TypeOK'
  <2>1. event \in Event
    BY <1>4 DEF Event
  <2>2. QED  BY <1>1, <1>2, <1>3, <1>5, <2>1 DEF TypeOK
<1>7. RowsWellFormed'
  <2>1. WellFormed(deposits'[op])
    BY <1>2, <1>3, <1>4 DEF WellFormed
  <2>2. QED  BY <1>1, <1>3, <2>1 DEF RowsWellFormed
<1>8. OutboxMirrorsLedger'
  <2>1. /\ event.kind = "reverse" /\ event.outpoint = op
        /\ event.facts = deposits[op].facts
    OBVIOUS
  <2> HIDE DEF event
  <2>2. \A o \in Outpoints :
          /\ Emitted("credit", o)' <=> Emitted("credit", o)
          /\ Emitted("reverse", o)' <=> Emitted("reverse", o) \/ o = op
    BY <1>5, <2>1 DEF Emitted
  <2>3. \A o \in Outpoints : deposits'[o].facts = deposits[o].facts
    BY <1>3
  <2>4. ASSUME NEW e \in outbox' PROVE e.facts = deposits'[e.outpoint].facts
    <3>1. CASE e \in outbox
      BY <1>1, <2>3, <3>1 DEF OutboxMirrorsLedger, TypeOK, Event
    <3>2. CASE e = event
      BY <1>3, <2>1, <3>2
    <3>3. QED  BY <1>5, <3>1, <3>2
  <2>5. QED
    BY <1>1, <1>2, <1>3, <1>4, <2>2, <2>4 DEF OutboxMirrorsLedger, WellFormed
<1>9. QED  BY <1>6, <1>7, <1>8 DEF IInv

(* What a reconcile does to the rows, for the programs that call it.       *)
Effect(daa, observed, confirmed, disappeared) ==
    /\ legacy' = legacy
    /\ \A op \in Outpoints :
        /\ op \in DOMAIN observed =>
             deposits'[op].state # "absent" /\ deposits'[op].facts = observed[op]
        /\ op \in DOMAIN confirmed =>
             /\ deposits'[op].state \notin {"absent", "pending"}
             /\ deposits'[op].facts = confirmed[op]
        /\ deposits[op].state = "absent" /\ op \notin DOMAIN observed =>
             deposits'[op].state = "absent"
        /\ deposits[op].state # "absent" =>
             /\ deposits'[op].state # "absent"
             /\ deposits'[op].facts = deposits[op].facts
        /\ deposits[op].state \in {"credited", "reversed"} =>
             deposits'[op] = deposits[op]
        /\ deposits'[op].state = "pending" =>
             /\ op \notin disappeared
             /\ deposits[op].state \in {"absent", "pending"}
        /\ deposits'[op].state = "credited" /\ deposits[op].state # "credited" =>
             /\ deposits'[op].credited_daa = daa
             /\ op \in DOMAIN confirmed \/ op \in legacy

LEMMA ReconcileEffect ==
  ASSUME IInv, NEW daa \in Daa, NEW observed \in Batch,
         NEW confirmed \in Batch, NEW disappeared \in SUBSET Outpoints,
         Reconcile(daa, observed, confirmed, disappeared)
  PROVE  Effect(daa, observed, confirmed, disappeared)
<1> SUFFICES ASSUME NEW op \in Outpoints
             PROVE  /\ legacy' = legacy
                    /\ op \in DOMAIN observed =>
                         /\ deposits'[op].state # "absent"
                         /\ deposits'[op].facts = observed[op]
                    /\ op \in DOMAIN confirmed =>
                         /\ deposits'[op].state \notin {"absent", "pending"}
                         /\ deposits'[op].facts = confirmed[op]
                    /\ deposits[op].state = "absent" /\ op \notin DOMAIN observed =>
                         deposits'[op].state = "absent"
                    /\ deposits[op].state # "absent" =>
                         /\ deposits'[op].state # "absent"
                         /\ deposits'[op].facts = deposits[op].facts
                    /\ deposits[op].state \in {"credited", "reversed"} =>
                         deposits'[op] = deposits[op]
                    /\ deposits'[op].state = "pending" =>
                         /\ op \notin disappeared
                         /\ deposits[op].state \in {"absent", "pending"}
                    /\ deposits'[op].state = "credited" /\ deposits[op].state # "credited" =>
                         /\ deposits'[op].credited_daa = daa
                         /\ op \in DOMAIN confirmed \/ op \in legacy
  BY DEF Effect, Reconcile
<1> DEFINE seen  == Observe(daa, observed)
           deep  == Confirm(seen, daa, confirmed)
           final == Disappear(deep, disappeared)
<1>1. /\ deposits' = final /\ legacy' = legacy
      /\ ObservedFactsAgree(observed) /\ ConfirmedFactsAgree(seen, confirmed)
  BY DEF Reconcile
<1>2. seen \in [Outpoints -> Row] /\ deep \in [Outpoints -> Row]
  BY ReconcileTables DEF IInv
<1>3. /\ deposits[op].state # "absent" => seen[op] = deposits[op]
      /\ op \in DOMAIN observed => seen[op].facts = observed[op]
      /\ deposits[op].state = "absent" =>
           \/ seen[op] = deposits[op] /\ op \notin DOMAIN observed
           \/ /\ op \in DOMAIN observed
              /\ seen[op].state = IF op \in legacy THEN "credited" ELSE "pending"
              /\ seen[op].credited_daa = IF op \in legacy THEN daa ELSE NoDaa
  BY <1>1 DEF Observe, ObservedFactsAgree
<1>4. /\ op \in DOMAIN confirmed =>
           seen[op].state # "absent" /\ seen[op].facts = confirmed[op]
      /\ op \in DOMAIN confirmed => deep[op].state # "pending"
      /\ \/ deep[op] = seen[op]
         \/ /\ op \in DOMAIN confirmed
            /\ seen[op].state = "pending" /\ deep[op].state = "credited"
            /\ deep[op].facts = seen[op].facts /\ deep[op].credited_daa = daa
  <2> HIDE DEF seen
  <2> QED  BY <1>1, <1>2 DEF Confirm, Row, ConfirmedFactsAgree
<1>5. /\ op \in disappeared => final[op].state # "pending"
      /\ \/ final[op] = deep[op]
         \/ /\ deep[op].state = "pending" /\ final[op].state = "reversed"
            /\ final[op].facts = deep[op].facts
  <2> HIDE DEF deep
  <2> QED  BY <1>2 DEF Disappear, Row
<1> HIDE DEF seen, deep, final
<1>6. QED  BY <1>1, <1>3, <1>4, <1>5

(* A batch without arguments, which the callers skip.                      *)
LEMMA NoEffect ==
  ASSUME IInv, UNCHANGED <<deposits, legacy, outbox>>,
         NEW daa, NEW observed, NEW confirmed,
         DOMAIN observed = {}, DOMAIN confirmed = {}
  PROVE  IInv' /\ Effect(daa, observed, confirmed, {})
BY DEF IInv, TypeOK, RowsWellFormed, OutboxMirrorsLedger, Emitted, Effect

(* A batch that was reconciled already is accepted and changes nothing.    *)
Done(table, observed, confirmed, disappeared) ==
    /\ \A op \in DOMAIN observed :
          table[op].state # "absent" /\ table[op].facts = observed[op]
    /\ \A op \in DOMAIN confirmed :
          /\ table[op].state \notin {"absent", "pending"}
          /\ table[op].facts = confirmed[op]
    /\ \A op \in disappeared : table[op].state # "pending"

LEMMA EffectDone ==
  ASSUME NEW daa, NEW observed \in Batch, NEW confirmed \in Batch,
         NEW disappeared \in SUBSET Outpoints,
         Effect(daa, observed, confirmed, disappeared)
  PROVE  Done(deposits', observed, confirmed, disappeared)
BY BatchFacts DEF Effect, Done

LEMMA ReconcileAgain ==
  ASSUME TypeOK, NEW daa, NEW observed \in Batch, NEW confirmed \in Batch,
         NEW disappeared \in SUBSET Outpoints,
         Done(deposits, observed, confirmed, disappeared)
  PROVE  /\ ObservedFactsAgree(observed)
         /\ ConfirmedFactsAgree(Observe(daa, observed), confirmed)
         /\ Reconcile(daa, observed, confirmed, disappeared)
              => UNCHANGED <<deposits, legacy, outbox>>
<1>1. deposits = [op \in Outpoints |-> deposits[op]]
  BY DEF TypeOK
<1>2. Observe(daa, observed) = deposits
  <2>1. \A op \in Outpoints : ~(op \in DOMAIN observed /\ deposits[op].state = "absent")
    BY DEF Done
  <2>2. QED  BY <1>1, <2>1 DEF Observe
<1>3. Confirm(deposits, daa, confirmed) = deposits
  <2>1. \A op \in Outpoints : ~(op \in DOMAIN confirmed /\ deposits[op].state = "pending")
    BY DEF Done
  <2>2. QED  BY <1>1, <2>1 DEF Confirm
<1>4. Disappear(deposits, disappeared) = deposits
  <2>1. \A op \in Outpoints : ~(op \in disappeared /\ deposits[op].state = "pending")
    BY DEF Done
  <2>2. QED  BY <1>1, <2>1 DEF Disappear
<1>5. ObservedFactsAgree(observed) /\ ConfirmedFactsAgree(deposits, confirmed)
  BY DEF ObservedFactsAgree, ConfirmedFactsAgree, Done
<1>6. ASSUME Reconcile(daa, observed, confirmed, disappeared)
      PROVE  UNCHANGED <<deposits, legacy, outbox>>
  BY <1>2, <1>3, <1>4, <1>6 DEF Reconcile, InsertOutbox
<1>7. QED  BY <1>2, <1>5, <1>6

LEMMA ImportInv ==
  ASSUME IInv, NEW op \in Outpoints, ImportLegacyCredit(op)
  PROVE  IInv'
BY DEF IInv, ImportLegacyCredit, TypeOK, RowsWellFormed, OutboxMirrorsLedger,
       Emitted

LEMMA InitInv == Init => IInv
<1> SUFFICES ASSUME Init PROVE IInv
  OBVIOUS
<1>1. /\ NoRow \in Row
      /\ NoRow.state = "absent" /\ NoRow.facts = NoFacts
      /\ NoRow.credited_daa = NoDaa /\ NoRow.reversal_reason = "none"
  BY DEF NoRow, Row, States, Reasons
<1>2. \A op \in Outpoints : deposits[op] = NoRow
  BY DEF Init
<1>3. TypeOK
  BY <1>1 DEF Init, TypeOK
<1>4. RowsWellFormed
  BY <1>1, <1>2 DEF RowsWellFormed, WellFormed
<1>5. OutboxMirrorsLedger
  BY <1>1, <1>2 DEF Init, OutboxMirrorsLedger, Emitted
<1>6. QED  BY <1>3, <1>4, <1>5 DEF IInv

LEMMA NextInv == IInv /\ [Next]_vars => IInv'
<1> SUFFICES ASSUME IInv, [Next]_vars PROVE IInv'
  OBVIOUS
<1>1. CASE \E daa \in Daa, observed, confirmed \in Batch,
              disappeared \in SUBSET Outpoints :
                Reconcile(daa, observed, confirmed, disappeared)
  BY <1>1, ReconcileInv
<1>2. CASE \E op \in Outpoints : ReverseCreditedOnReorg(op)
  BY <1>2, ReverseInv
<1>3. CASE \E op \in Outpoints : ImportLegacyCredit(op)
  BY <1>3, ImportInv
<1>4. CASE UNCHANGED vars
  BY <1>4 DEF vars, IInv, TypeOK, RowsWellFormed, OutboxMirrorsLedger, Emitted
<1>5. QED  BY <1>1, <1>2, <1>3, <1>4 DEF Next

-----------------------------------------------------------------------------
(* The inductive invariant holds in every reachable state.                 *)
THEOREM LedgerInvariant == Spec => []IInv
BY InitInv, NextInv, PTL DEF Spec

(* Every table stays well typed.                                           *)
THEOREM TypeCorrect == Spec => []TypeOK
<1>1. IInv => TypeOK
  BY DEF IInv
<1>2. QED  BY <1>1, LedgerInvariant, PTL

(* The columns of a row agree with one another.                            *)
THEOREM RowsAgree == Spec => []RowsWellFormed
<1>1. IInv => RowsWellFormed
  BY DEF IInv
<1>2. QED  BY LedgerInvariant, <1>1, PTL

(* The outbox and the deposit table agree after every transaction.         *)
THEOREM OutboxFaithful == Spec => []OutboxMirrorsLedger
<1>1. IInv => OutboxMirrorsLedger
  BY DEF IInv
<1>2. QED  BY <1>1, LedgerInvariant, PTL

-----------------------------------------------------------------------------
(* One ledger transaction is one Commit of the consumer's contract.        *)
LEMMA StepImplementsCommit ==
  IInv /\ [Next]_vars => [Consumer!Next]_Standing
<1> SUFFICES ASSUME IInv, [Next]_vars PROVE [Consumer!Next]_Standing
  OBVIOUS
<1> DEFINE credit == {op \in Outpoints : /\ Standing[op] # "credited"
                                         /\ Standing'[op] = "credited"}
           revoke == {op \in Outpoints : /\ Standing[op] # "revoked"
                                         /\ Standing'[op] = "revoked"}
<1>1. ASSUME NEW op \in Outpoints
      PROVE  /\ deposits[op].state = "reversed" => deposits'[op].state = "reversed"
             /\ deposits[op].state = "credited"
                  => deposits'[op].state \in {"credited", "reversed"}
  <2>1. ASSUME NEW daa \in Daa, NEW observed \in Batch, NEW confirmed \in Batch,
               NEW disappeared \in SUBSET Outpoints,
               Reconcile(daa, observed, confirmed, disappeared)
        PROVE  /\ deposits[op].state = "reversed" => deposits'[op].state = "reversed"
               /\ deposits[op].state = "credited" => deposits'[op].state = "credited"
    <3>1. deposits' = Disappear(Confirm(Observe(daa, observed), daa, confirmed),
                                disappeared)
      BY <2>1 DEF Reconcile
    <3>2. QED  BY <3>1, ReconcileRow DEF IInv
  <2>2. ASSUME NEW o \in Outpoints, ReverseCreditedOnReorg(o)
        PROVE  \/ deposits'[op].state = deposits[op].state
               \/ /\ deposits[op].state = "credited"
                  /\ deposits'[op].state = "reversed"
    BY <2>2 DEF ReverseCreditedOnReorg, IInv, TypeOK, Row
  <2>3. ASSUME NEW o \in Outpoints, ImportLegacyCredit(o)
        PROVE  deposits' = deposits
    BY <2>3 DEF ImportLegacyCredit
  <2>4. ASSUME UNCHANGED vars
        PROVE  deposits' = deposits
    BY <2>4 DEF vars
  <2>5. QED  BY <2>1, <2>2, <2>3, <2>4 DEF Next
<1>2. ASSUME NEW op \in Outpoints
      PROVE  /\ Standing[op] \in {"unknown", "credited", "revoked"}
             /\ Standing'[op] \in {"unknown", "credited", "revoked"}
             /\ Standing[op] = "revoked" => Standing'[op] = "revoked"
             /\ Standing[op] = "credited" => Standing'[op] \in {"credited", "revoked"}
  BY <1>1 DEF Standing
<1>3. /\ credit \in SUBSET Outpoints /\ revoke \in SUBSET Outpoints
      /\ credit \cap revoke = {}
      /\ \A op \in credit : Standing[op] = "unknown"
      /\ \A op \in revoke : Standing[op] # "revoked"
  BY <1>2
<1>4. Standing' = [op \in Outpoints |->
                     IF op \in credit THEN "credited"
                     ELSE IF op \in revoke THEN "revoked"
                     ELSE Standing[op]]
  <2>1. \A op \in Outpoints :
          Standing'[op] = IF op \in credit THEN "credited"
                          ELSE IF op \in revoke THEN "revoked"
                          ELSE Standing[op]
    BY <1>2
  <2>2. Standing' = [op \in Outpoints |-> Standing'[op]]
    BY DEF Standing
  <2> HIDE DEF credit, revoke
  <2>3. QED  BY <2>1, <2>2
<1>5. Consumer!Commit(credit, revoke)
  <2> HIDE DEF credit, revoke
  <2> QED  BY <1>3, <1>4 DEF Consumer!Commit
<1>6. Consumer!Next
  <2> HIDE DEF credit, revoke
  <2> QED  BY <1>3, <1>5 DEF Consumer!Next
<1>7. QED  BY <1>6

(* The ledger implements the contract an exchange relies on.               *)
THEOREM Refinement == Spec => ImplementsCreditLifecycle
<1>1. Init => Consumer!Init
  BY DEF Init, Consumer!Init, Standing, NoRow
<1>2. IInv /\ [Next]_vars => [Consumer!Next]_Standing
  BY StepImplementsCommit
<1>3. QED
  BY <1>1, <1>2, LedgerInvariant, PTL DEF Spec, ImplementsCreditLifecycle, Consumer!Spec

-----------------------------------------------------------------------------
(* An outpoint paid by an older process and not yet on this ledger's books *)
(* is settled: from then on it has no credit event and is never pending.   *)
Settled(op) ==
    /\ op \in legacy
    /\ deposits[op].state # "pending"
    /\ ~Emitted("credit", op)

LEMMA SettledStable ==
  ASSUME NEW op \in Outpoints
  PROVE  IInv /\ Settled(op) /\ [Next]_vars => Settled(op)'
<1> SUFFICES ASSUME IInv, Settled(op), [Next]_vars PROVE Settled(op)'
  OBVIOUS
<1>1. ASSUME NEW daa \in Daa, NEW observed \in Batch, NEW confirmed \in Batch,
             NEW disappeared \in SUBSET Outpoints,
             Reconcile(daa, observed, confirmed, disappeared)
      PROVE  Settled(op)'
  <2> DEFINE seen  == Observe(daa, observed)
             deep  == Confirm(seen, daa, confirmed)
             final == Disappear(deep, disappeared)
  <2>1. seen[op].state # "pending" /\ seen \in [Outpoints -> Row]
    BY ReconcileTables DEF Observe, Settled, IInv
  <2>2. deep[op] = seen[op]
    <3> HIDE DEF seen
    <3> QED  BY <2>1 DEF Confirm
  <2>3. final[op] = deep[op]
    <3> HIDE DEF deep
    <3> QED  BY <2>1, <2>2 DEF Disappear
  <2>4. deposits' = final /\ legacy' = legacy
    BY <1>1 DEF Reconcile
  <2>5. ASSUME NEW e \in outbox', e.kind = "credit"
        PROVE  e.outpoint # op
    <3> DEFINE credit == {o \in Outpoints : /\ seen[o].state = "pending"
                                            /\ deep[o].state = "credited"}
               revoke == {o \in Outpoints : /\ deep[o].state = "pending"
                                            /\ final[o].state = "reversed"}
               events == {[kind |-> "credit", outpoint |-> o, facts |-> final[o].facts] :
                            o \in credit}
                         \cup
                         {[kind |-> "reverse", outpoint |-> o, facts |-> final[o].facts] :
                            o \in revoke}
    <3>1. op \notin credit
      BY <2>1
    <3>2. InsertOutbox(events)
      BY <1>1 DEF Reconcile
    <3> HIDE DEF seen, deep, final, credit, revoke
    <3>3. CASE e \in outbox
      BY <2>5, <3>3 DEF Settled, Emitted
    <3>4. CASE e \in events
      BY <2>5, <3>1, <3>4
    <3>5. QED  BY <3>2, <3>3, <3>4 DEF InsertOutbox
  <2> HIDE DEF seen, deep, final
  <2>6. QED  BY <2>1, <2>2, <2>3, <2>4, <2>5 DEF Settled, Emitted
<1>2. ASSUME NEW o \in Outpoints, ReverseCreditedOnReorg(o)
      PROVE  Settled(op)'
  <2>1. deposits'[op].state \in {deposits[op].state, "reversed"} /\ legacy' = legacy
    BY <1>2 DEF ReverseCreditedOnReorg, IInv, TypeOK, Row
  <2>2. \A e \in outbox' : e \in outbox \/ e.kind = "reverse"
    <3> DEFINE event == [kind |-> "reverse", outpoint |-> o,
                         facts |-> deposits[o].facts]
    <3>1. InsertOutbox({event}) /\ event.kind = "reverse"
      BY <1>2 DEF ReverseCreditedOnReorg
    <3> HIDE DEF event
    <3>2. QED  BY <3>1 DEF InsertOutbox
  <2>3. QED  BY <2>1, <2>2 DEF Settled, Emitted
<1>3. ASSUME NEW o \in Outpoints, ImportLegacyCredit(o)
      PROVE  Settled(op)'
  BY <1>3 DEF ImportLegacyCredit, Settled, Emitted
<1>4. CASE UNCHANGED vars
  BY <1>4 DEF vars, Settled, Emitted
<1>5. QED  BY <1>1, <1>2, <1>3, <1>4 DEF Next

(* What an older process paid is never credited a second time.             *)
THEOREM LegacySafe == Spec => LegacyNeverPaidAgain
<1> SUFFICES ASSUME NEW op \in Outpoints
             PROVE  Spec => [](op \in legacy /\ deposits[op].state = "absent"
                                 => []~Emitted("credit", op))
  BY DEF LegacyNeverPaidAgain
<1>1. IInv /\ op \in legacy /\ deposits[op].state = "absent" => Settled(op)
  BY DEF IInv, RowsWellFormed, WellFormed, OutboxMirrorsLedger, Settled
<1>2. IInv /\ Settled(op) /\ [Next]_vars => Settled(op)'
  BY SettledStable
<1>3. Settled(op) => ~Emitted("credit", op)
  BY DEF Settled
<1>4. QED  BY <1>1, <1>2, <1>3, LedgerInvariant, PTL DEF Spec
=============================================================================
