------------------------------ MODULE CexWallet ------------------------------
(***************************************************************************)
(* The exchange's view of its addresses (src/cex.rs): snapshots of their   *)
(* balances computed from one DAA score and the REST service's UTXO rows,  *)
(* and OutpointSpendGuard, through which payments take their inputs.       *)
(***************************************************************************)
EXTENDS Integers, Sequences, FiniteSets, Functions

CONSTANTS
    Outpoints,
    Coinbase,               \* the outpoints that are coinbase outputs
    Amount,                 \* outpoint -> sompi
    Addresses,              \* the requested addresses
    Foreign,                \* an address that was not requested
    Payments,
    Daa,                    \* DAA scores
    MaxRows,                \* bound: rows of an answer
    MaxSompi,               \* u64::MAX; small in TLC's instances
    DepositConfirmations,
    CoinbaseMaturity        \* COINBASE_MATURITY_DAA

CexAssumption ==
    /\ Coinbase \subseteq Outpoints /\ Amount \in [Outpoints -> Nat]
    /\ IsFiniteSet(Addresses) /\ Foreign \notin Addresses /\ Daa \subseteq Nat
    /\ {MaxRows, MaxSompi, DepositConfirmations, CoinbaseMaturity} \subseteq Nat

VARIABLES
    virtual_daa, utxos,     \* the answers: the score, the rows
    spent,                  \* the guard's set
    held                    \* payment -> inputs granted to it and not released
                            \* since, by it or by another

guard == <<spent, held>>
vars  == <<virtual_daa, utxos, guard>>

Rows == [op : Outpoints, address : Addresses \cup {Foreign}, daa : Daa]

TypeOK ==
    /\ virtual_daa \in Daa /\ utxos \in Seq(Rows) /\ Len(utxos) <= MaxRows
    /\ spent \subseteq Outpoints /\ held \in [Payments -> SUBSET Outpoints]

Init ==
    /\ virtual_daa \in Daa /\ utxos = <<>>
    /\ spent = {} /\ held = [p \in Payments |-> {}]

-----------------------------------------------------------------------------
(* block_dag_info and utxos_for_addresses: any answers; they are kept      *)
(* until the caller drops the snapshots.                                   *)
Fetch(daa, rows) ==
    /\ utxos = <<>>
    /\ virtual_daa' = daa /\ utxos' = rows
    /\ UNCHANGED guard

Drop == utxos' = <<>> /\ UNCHANGED <<virtual_daa, guard>>

(* Mutant: an outpoint is looked for among the rows of one address only.   *)
ValidPerAddress(rows) ==
    /\ \A i \in DOMAIN rows : rows[i].address \in Addresses
    /\ \A i, j \in DOMAIN rows :
        i # j /\ rows[i].address = rows[j].address => rows[i].op # rows[j].op

(* fetch_address_snapshots refuses rows of an address nobody asked for and *)
(* a repeated outpoint.                                                    *)
Valid(rows) ==
    /\ \A i \in DOMAIN rows : rows[i].address \in Addresses
    /\ \A i, j \in DOMAIN rows : i # j => rows[i].op # rows[j].op

Maximum(a, b) == IF a >= b THEN a ELSE b

RequiredDepth(row) ==
    LET confirmations == Maximum(DepositConfirmations, 1) IN
    IF row.op \in Coinbase THEN Maximum(confirmations, CoinbaseMaturity) ELSE confirmations

(* saturating_sub: a block above the score has no confirmations.           *)
Confirmations(row) == Maximum(virtual_daa - row.daa, 0)

Mature(row) == Confirmations(row) >= RequiredDepth(row)

(* Rows are known by their places in the answer.                           *)
Sompi(rows) == SumFunctionOnSet([i \in DOMAIN utxos |-> Amount[utxos[i].op]], rows)

RowsOf(address) == {i \in DOMAIN utxos : utxos[i].address = address}

Snapshot(address) ==
    LET mature   == {i \in RowsOf(address) : Mature(utxos[i])}
        immature == RowsOf(address) \ mature
    IN  [confirmed_sompi |-> Sompi(mature),
         pending_sompi |-> Sompi(immature),
         immature_coinbase_sompi |-> Sompi({i \in immature : utxos[i].op \in Coinbase}),
         spendable |-> {utxos[i].op : i \in mature}]

(* An Err of one address is the Err of all.                                *)
Accepted ==
    /\ Valid(utxos)
    /\ \A a \in Addresses : LET s == Snapshot(a) IN
        s.confirmed_sompi <= MaxSompi /\ s.pending_sompi <= MaxSompi

Spendable == UNION {Snapshot(a).spendable : a \in Addresses}

(* Mutant: what is free is granted, the rest is left out.                  *)
ReservePartly(p, inputs) ==
    /\ inputs \ spent # {}
    /\ spent' = spent \cup inputs
    /\ held' = [held EXCEPT ![p] = @ \cup inputs]
    /\ UNCHANGED <<virtual_daa, utxos>>

(* All the inputs or none.                                                 *)
Reserve(p, inputs) ==
    /\ inputs \cap spent = {}
    /\ spent' = spent \cup inputs
    /\ held' = [held EXCEPT ![p] = @ \cup inputs]
    /\ UNCHANGED <<virtual_daa, utxos>>

(* Whatever outpoints are passed are free again, whoever reserved them.    *)
Release(inputs) ==
    /\ spent' = spent \ inputs
    /\ held' = [p \in Payments |-> held[p] \ inputs]
    /\ UNCHANGED <<virtual_daa, utxos>>

Next ==
    \/ Drop
    \/ \E daa \in Daa, n \in 0 .. MaxRows : \E rows \in [1 .. n -> Rows] : Fetch(daa, rows)
    \/ /\ Accepted
       /\ \E p \in Payments, inputs \in SUBSET Spendable \ {{}} : Reserve(p, inputs)
    \/ \E inputs \in SUBSET Outpoints \ {{}} : Release(inputs)

Spec == Init /\ [][Next]_vars

-----------------------------------------------------------------------------
(* The balances of accepted answers count every outpoint once, under one   *)
(* address, and split it: all of it confirmed is spendable and all of it   *)
(* spendable has the depth its kind needs, coinbase outputs their maturity *)
(* even when the exchange asks for no confirmations at all.                *)
BalancesSound ==
    Accepted =>
        /\ Sompi(DOMAIN utxos) = SumFunction(
              [a \in Addresses |-> Snapshot(a).confirmed_sompi + Snapshot(a).pending_sompi])
        /\ \A a, b \in Addresses :
              a # b => Snapshot(a).spendable \cap Snapshot(b).spendable = {}
        /\ \A a \in Addresses : LET s == Snapshot(a) IN
              /\ s.confirmed_sompi = SumFunctionOnSet(Amount, s.spendable)
              /\ s.immature_coinbase_sompi <= s.pending_sompi
        /\ \A i \in DOMAIN utxos : utxos[i].op \in Spendable =>
              /\ utxos[i].daa < virtual_daa
              /\ utxos[i].op \in Coinbase => utxos[i].daa + CoinbaseMaturity <= virtual_daa

(* No outpoint is granted to a payment while another has it, and what is   *)
(* reserved is some payment's, however reservations and releases follow    *)
(* one another, those of outpoints the caller does not hold included: such *)
(* a release frees them for others at once.                                *)
InputsExclusive ==
    /\ \A p, q \in Payments : p # q => held[p] \cap held[q] = {}
    /\ spent = UNION {held[p] : p \in Payments}
=============================================================================
