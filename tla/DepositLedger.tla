---------------------------- MODULE DepositLedger ----------------------------
(***************************************************************************)
(* The SQLite deposit ledger (src/deposit_ledger.rs).  Every operation is  *)
(* one IMMEDIATE transaction, so it is one action; an operation that       *)
(* returns Err rolls back and is therefore no step at all: its error       *)
(* conditions are the guards below.                                        *)
(*                                                                         *)
(* A row's address, amount, block DAA score and coinbase flag are compared *)
(* only as a whole; they are one value of Facts.                           *)
(***************************************************************************)
CONSTANTS
    Outpoints,  \* the (transaction id, output index) keys of the table
    Facts,      \* what a UTXO entry says about an outpoint
    NoFacts,    \* the facts of a row that does not exist
    Daa,        \* virtual DAA scores a caller may report
    NoDaa       \* the SQL NULL of credited_daa

ASSUME NoFactsAssumption == NoFacts \notin Facts
ASSUME NoDaaAssumption == NoDaa \notin Daa

VARIABLES
    deposits,   \* table deposits: outpoint -> row
    legacy,     \* table legacy_credits: outpoints paid by an older process
    outbox      \* table deposit_outbox: the events inserted so far

vars == <<deposits, legacy, outbox>>

States  == {"absent", "pending", "credited", "reversed"}
Reasons == {"none", "disappeared before confirmation", "reorg evidence"}

Row == [state : States, facts : Facts \cup {NoFacts},
        credited_daa : Daa \cup {NoDaa}, reversal_reason : Reasons]

Event == [kind : {"credit", "reverse"}, outpoint : Outpoints, facts : Facts]

NoRow == [state |-> "absent", facts |-> NoFacts,
          credited_daa |-> NoDaa, reversal_reason |-> "none"]

(* The argument lists of reconcile: at most one entry per outpoint.        *)
Batch == UNION {[S -> Facts] : S \in SUBSET Outpoints}

TypeOK ==
    /\ deposits \in [Outpoints -> Row]
    /\ legacy \subseteq Outpoints
    /\ outbox \subseteq Event

Init ==
    /\ deposits = [op \in Outpoints |-> NoRow]
    /\ legacy = {}
    /\ outbox = {}

-----------------------------------------------------------------------------
(* Mutant: the event key forgets the kind.                                 *)
InsertOutboxByOutpoint(events) ==
    outbox' = outbox \cup {e \in events : \A f \in outbox : f.outpoint # e.outpoint}

(* INSERT OR IGNORE into deposit_outbox, whose event_key kind:tx:vout is   *)
(* UNIQUE: an event whose key is taken is dropped.                         *)
InsertOutbox(events) ==
    outbox' = outbox \cup {e \in events :
                \A f \in outbox : <<f.kind, f.outpoint>> # <<e.kind, e.outpoint>>}

(* Mutant: legacy_credits is not consulted.                                *)
ObserveLegacyToo(daa, observed) ==
    [op \in Outpoints |->
        IF op \in DOMAIN observed /\ deposits[op].state = "absent"
        THEN [NoRow EXCEPT !.state = "pending", !.facts = observed[op]]
        ELSE deposits[op]]

(* First loop of reconcile: an unknown outpoint becomes a pending row, or  *)
(* a credited one, with no event, if an older process already paid it.     *)
Observe(daa, observed) ==
    [op \in Outpoints |->
        IF op \in DOMAIN observed /\ deposits[op].state = "absent"
        THEN [state |-> IF op \in legacy THEN "credited" ELSE "pending",
              facts |-> observed[op],
              credited_daa |-> IF op \in legacy THEN daa ELSE NoDaa,
              reversal_reason |-> "none"]
        ELSE deposits[op]]

(* Mutants: the state was read before the batch; the UPDATE forgets        *)
(* state='pending'.                                                        *)
ConfirmStale(table, daa, confirmed) ==
    [op \in Outpoints |->
        IF op \in DOMAIN confirmed /\ deposits[op].state = "pending"
        THEN [table[op] EXCEPT !.state = "credited", !.credited_daa = daa]
        ELSE table[op]]
ConfirmAnyState(table, daa, confirmed) ==
    [op \in Outpoints |->
        IF op \in DOMAIN confirmed
        THEN [table[op] EXCEPT !.state = "credited", !.credited_daa = daa]
        ELSE table[op]]

(* Second loop: UPDATE ... WHERE state='pending'.                          *)
Confirm(table, daa, confirmed) ==
    [op \in Outpoints |->
        IF op \in DOMAIN confirmed /\ table[op].state = "pending"
        THEN [table[op] EXCEPT !.state = "credited", !.credited_daa = daa]
        ELSE table[op]]

(* Third loop: only a row that is still pending is reversed.               *)
Disappear(table, disappeared) ==
    [op \in Outpoints |->
        IF op \in disappeared /\ table[op].state = "pending"
        THEN [table[op] EXCEPT !.state = "reversed",
                 !.reversal_reason = "disappeared before confirmation"]
        ELSE table[op]]

(* "outpoint facts changed" and, for a confirmation, "was never observed"  *)
(* or "confirmation facts changed" fail the whole batch.                   *)
ObservedFactsAgree(observed) ==
    \A op \in DOMAIN observed :
        deposits[op].state # "absent" => deposits[op].facts = observed[op]

ConfirmedFactsAgree(table, confirmed) ==
    \A op \in DOMAIN confirmed :
        table[op].state # "absent" /\ table[op].facts = confirmed[op]

Reconcile(daa, observed, confirmed, disappeared) ==
    LET seen   == Observe(daa, observed)
        deep   == Confirm(seen, daa, confirmed)
        final  == Disappear(deep, disappeared)
        credit == {op \in Outpoints : /\ seen[op].state = "pending"
                                      /\ deep[op].state = "credited"}
        revoke == {op \in Outpoints : /\ deep[op].state = "pending"
                                      /\ final[op].state = "reversed"}
    IN  /\ ObservedFactsAgree(observed)
        /\ ConfirmedFactsAgree(seen, confirmed)
        /\ deposits' = final
        /\ InsertOutbox(
             {[kind |-> "credit", outpoint |-> op, facts |-> final[op].facts] :
                op \in credit}
             \cup
             {[kind |-> "reverse", outpoint |-> op, facts |-> final[op].facts] :
                op \in revoke})
        /\ UNCHANGED legacy

(* Mutant: any live row is reversed.                                       *)
ReversePending(op) ==
    /\ deposits[op].state \in {"pending", "credited"}
    /\ deposits' = [deposits EXCEPT ![op].state = "reversed",
                                    ![op].reversal_reason = "reorg evidence"]
    /\ InsertOutbox({[kind |-> "reverse", outpoint |-> op,
                      facts |-> deposits[op].facts]})
    /\ UNCHANGED legacy

(* An operator reverses a credited deposit with reorg evidence; the call   *)
(* is an accepted no-op on a reversed row and an error on any other.       *)
ReverseCreditedOnReorg(op) ==
    /\ deposits[op].state = "credited"
    /\ deposits' = [deposits EXCEPT ![op].state = "reversed",
                                    ![op].reversal_reason = "reorg evidence"]
    /\ InsertOutbox({[kind |-> "reverse", outpoint |-> op,
                      facts |-> deposits[op].facts]})
    /\ UNCHANGED legacy

(* --import-text of tn10-deposits; INSERT OR IGNORE, in any state of the row. *)
ImportLegacyCredit(op) ==
    /\ legacy' = legacy \cup {op}
    /\ UNCHANGED <<deposits, outbox>>

Next ==
    \/ \E daa \in Daa, observed, confirmed \in Batch,
          disappeared \in SUBSET Outpoints :
            Reconcile(daa, observed, confirmed, disappeared)
    \/ \E op \in Outpoints : ReverseCreditedOnReorg(op)
    \/ \E op \in Outpoints : ImportLegacyCredit(op)

Spec == Init /\ [][Next]_vars

-----------------------------------------------------------------------------
Emitted(kind, op) == \E e \in outbox : e.kind = kind /\ e.outpoint = op

WellFormed(row) ==
    /\ row.facts = NoFacts <=> row.state = "absent"
    /\ row.state \in {"absent", "pending"} => row.credited_daa = NoDaa
    /\ row.state = "credited" => row.credited_daa # NoDaa
    /\ row.state # "reversed" <=> row.reversal_reason = "none"
    /\ row.reversal_reason = "disappeared before confirmation"
          => row.credited_daa = NoDaa
    /\ row.reversal_reason = "reorg evidence" => row.credited_daa # NoDaa

(* The columns of a row agree with one another: credited_daa is set exactly *)
(* on rows that were credited at some time, and the reversal reason tells   *)
(* whether a reversed row had been.                                         *)
RowsWellFormed == \A op \in Outpoints : WellFormed(deposits[op])

(* Folding the outbox gives the ledger: a row is reversed exactly when its *)
(* reverse event exists, a row was credited exactly when its credit event  *)
(* exists or an older process had paid it, and every event carries the     *)
(* facts its row still has.  A lost or a spurious insert in any of the     *)
(* three operations that touch both tables breaks it.                      *)
OutboxMirrorsLedger ==
    /\ \A op \in Outpoints :
        /\ Emitted("reverse", op) <=> deposits[op].state = "reversed"
        /\ Emitted("credit", op) => deposits[op].credited_daa # NoDaa
        /\ deposits[op].credited_daa # NoDaa => Emitted("credit", op) \/ op \in legacy
    /\ \A e \in outbox : e.facts = deposits[e.outpoint].facts

(* What an older process paid before this ledger first saw the outpoint is *)
(* never announced as a credit, whatever is observed, confirmed or         *)
(* reversed later (import_legacy_credit, first loop of reconcile).         *)
LegacyNeverPaidAgain ==
    \A op \in Outpoints :
        [](op \in legacy /\ deposits[op].state = "absent"
               => []~Emitted("credit", op))

(* What the books say of an outpoint: paid, revoked, or nothing yet.       *)
Standing ==
    [op \in Outpoints |->
        CASE deposits[op].state = "reversed" -> "revoked"
          [] deposits[op].state = "credited" -> "credited"
          [] OTHER -> "unknown"]

Consumer == INSTANCE CreditLifecycle WITH standing <- Standing

(* The ledger implements the consumer's contract: standings only move      *)
(* forward, and nothing is credited after it was revoked, whatever order   *)
(* observations, confirmations, disappearances and reorg evidence come in. *)
ImplementsCreditLifecycle == Consumer!Spec
=============================================================================
