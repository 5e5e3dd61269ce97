----------------------------- MODULE DepositChain -----------------------------
(***************************************************************************)
(* External: the chain as the deposit watchers see it over REST and wRPC.  *)
(* A UTXO is its block's DAA score; amount, address and script never       *)
(* change for an outpoint.  The virtual DAA score only grows.              *)
(***************************************************************************)
EXTENDS Naturals

CONSTANTS
    Outpoints,
    MaxDaa,         \* bound: the virtual DAA scores are 1 .. MaxDaa
    Required,       \* DEFAULT_DEPOSIT_CONFIRMATIONS
    Reinclusion     \* TRUE: a reorg may drop or move each transaction (bound: once)

ASSUME ChainAssumption ==
    {MaxDaa, Required} \subseteq Nat \ {0} /\ Reinclusion \in BOOLEAN

VARIABLES
    daa, utxo,      \* virtual DAA score; outpoint -> DAA score of its block
    gone,           \* outpoints that will not be accepted (again)
    buried,         \* ghost: <<outpoint, block DAA>> once Required deep
    moved           \* ghost: outpoints a reorg dropped or moved

chain == <<daa, utxo, gone, buried, moved>>

Scores == 1 .. MaxDaa
Utxos == UNION {[S -> Scores] : S \in SUBSET Outpoints}
NoUtxos == [op \in {} |-> 0]

ChainTypeOK ==
    /\ daa \in Scores /\ utxo \in Utxos
    /\ gone \subseteq Outpoints /\ moved \subseteq Outpoints
    /\ buried \subseteq Outpoints \X Scores

ChainInit ==
    /\ daa = 1 /\ utxo = NoUtxos
    /\ gone = {} /\ buried = {} /\ moved = {}

Bury == buried' = buried \cup {<<op, utxo'[op]>> : op \in
                                  {o \in DOMAIN utxo' : utxo'[o] + Required <= daa'}}

AdvanceDaa ==
    /\ daa < MaxDaa /\ daa' = daa + 1
    /\ UNCHANGED <<utxo, gone, moved>>
    /\ Bury

Put(op, score) == utxo' = [o \in DOMAIN utxo \cup {op} |-> IF o = op THEN score ELSE utxo[o]]
Remove(op) == utxo' = [o \in DOMAIN utxo \ {op} |-> utxo[o]]

Accept(op) ==
    /\ op \notin DOMAIN utxo \cup gone
    /\ Put(op, daa)
    /\ UNCHANGED <<daa, gone, moved>>
    /\ Bury

(* The owner spends the output, or a double spend replaces it.             *)
Spend(op) ==
    /\ op \in DOMAIN utxo
    /\ Remove(op)
    /\ gone' = gone \cup {op}
    /\ UNCHANGED <<daa, moved>>
    /\ Bury

(* A reorg, shallower than Required, drops the transaction's block: the    *)
(* transaction is accepted by a later block at once, or may be in time.    *)
Reorg(op) ==
    /\ Reinclusion /\ op \notin moved
    /\ op \in DOMAIN utxo /\ daa < utxo[op] + Required
    /\ \/ Remove(op)
       \/ utxo[op] < daa /\ Put(op, daa)
    /\ moved' = moved \cup {op}
    /\ UNCHANGED <<daa, gone>>
    /\ Bury

ChainNext ==
    \/ AdvanceDaa
    \/ \E op \in Outpoints : Accept(op) \/ Spend(op) \/ Reorg(op)
=============================================================================
