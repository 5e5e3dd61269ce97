----------------------------- MODULE ReturnAddress -----------------------------
(***************************************************************************)
(* Where a deposit came from (src/return_address.rs): a walk from the      *)
(* deposit along first inputs, two REST requests a hop, while the REST     *)
(* server prunes old transactions; and the fee of one transaction.  REST   *)
(* may serve an input without the address of the output it spends, or      *)
(* with one that is not a testnet address, and an output without its       *)
(* address.                                                                *)
(***************************************************************************)
EXTENDS Integers, Sequences, FiniteSets, Functions, Folds

CONSTANTS
    Deposit,        \* the transactions are 1 .. Deposit, the oldest first
    MaxChainWalk,   \* MAX_CHAIN_WALK
    FeeTxs,         \* for the fee: [ins, outs], of [amount, given]
    MaxU64,
    None,           \* no address, no fee
    Failed          \* an error

ReturnAddressAssumption ==
    /\ Deposit \in Nat \ {0} /\ MaxChainWalk \in Nat \ {0}
    /\ MaxU64 \in Nat /\ {None, Failed} \cap Nat = {}

VARIABLES
    spends,         \* transaction -> the output its first input spends, or None
    address,        \* output -> "shown", "hidden", or "foreign": not testnet
    enriched,       \* transactions whose first input is served with an address
    horizon,        \* transactions up to this one are pruned
    walk,           \* the request: [kind, pc, tx, hops]
    report          \* what is returned: None, Failed or [from, hops] / [fee]

vars == <<spends, address, enriched, horizon, walk, report>>
chain == <<spends, address, enriched>>

Txs     == 1 .. Deposit
Outputs == Txs \X {0, 1}

TypeOK ==
    /\ spends \in [Txs -> Outputs \cup {None}]
    /\ address \in [Outputs -> {"shown", "hidden", "foreign"}]
    /\ enriched \subseteq Txs /\ horizon \in 0 .. Deposit
    /\ walk.pc \in {"fee", "child", "parent", "done"}
    /\ CASE walk.kind = "return" -> walk.tx \in Txs
         [] walk.kind = "fee"    -> walk.tx \in FeeTxs
    /\ walk.hops \in 0 .. MaxChainWalk

(* The oldest transaction is a coinbase; the others spend what is older.   *)
Init ==
    /\ spends \in [Txs -> Outputs \cup {None}]
    /\ \A t \in Txs : IF t = 1 THEN spends[t] = None
                               ELSE spends[t] # None /\ spends[t][1] < t
    /\ address \in [Outputs -> {"shown", "hidden", "foreign"}]
    /\ \A o \in Outputs : (\A t \in Txs : spends[t] # o) => address[o] = "shown"
    /\ enriched \in SUBSET {t \in Txs : spends[t] # None /\ address[spends[t]] # "hidden"}
    /\ horizon = 0 /\ report = None
    /\ walk \in [kind : {"return"}, pc : {"child"}, tx : {Deposit}, hops : {0}]
           \cup [kind : {"fee"}, pc : {"fee"}, tx : FeeTxs, hops : {0}]
    /\ walk.kind = "fee" => enriched = {} /\ \A o \in Outputs : address[o] = "shown"

(* The REST server forgets its oldest transaction.                         *)
Prune ==
    /\ walk.pc \in {"child", "parent"} /\ horizon < Deposit /\ horizon' = horizon + 1
    /\ UNCHANGED <<chain, walk, report>>

Ends(result) ==
    /\ report' = result /\ walk' = [walk EXCEPT !.pc = "done"]
    /\ UNCHANGED <<chain, horizon>>

Served(t) == t > horizon

(* validate_testnet_address, then the report.                              *)
Answers(o) ==
    Ends(IF address[o] = "foreign" THEN Failed ELSE [from |-> o, hops |-> walk.hops])

(* The REST client gives up on a request.                                  *)
RestFails == walk.pc # "done" /\ Ends(Failed)

-----------------------------------------------------------------------------
(* resolve_return_address: the transaction, unless it is missing or has no *)
(* input; its first input's address if that is there.                      *)
FetchChild ==
    /\ walk.pc = "child" /\ walk.hops < MaxChainWalk
    /\ LET hop == [walk EXCEPT !.hops = @ + 1]
           t   == walk.tx
       IN  \/ /\ ~Served(t) \/ spends[t] = None
              /\ Ends(Failed)
           \/ /\ Served(t) /\ spends[t] # None /\ t \in enriched
              /\ report' = IF address[spends[t]] = "foreign" THEN Failed
                           ELSE [from |-> spends[t], hops |-> hop.hops]
              /\ walk' = [hop EXCEPT !.pc = "done"]
              /\ UNCHANGED <<chain, horizon>>
           \/ /\ Served(t) /\ spends[t] # None /\ t \notin enriched
              /\ walk' = [hop EXCEPT !.pc = "parent"]
              /\ UNCHANGED <<chain, horizon, report>>

(* Mutant: the parent's first output, whichever one was spent.             *)
FirstOutput(t) == <<spends[t][1], 0>>

(* parent.outputs.get(parent_index)                                        *)
ParentOutput(t) == spends[t]

(* Then the parent, for the address of the output that was spent; if the   *)
(* output is served without one, the walk goes on from the parent.         *)
FetchParent ==
    /\ walk.pc = "parent"
    /\ LET parent == spends[walk.tx][1]
           output == ParentOutput(walk.tx)
       IN  \/ ~Served(parent) /\ Ends(Failed)
           \/ Served(parent) /\ address[output] # "hidden" /\ Answers(output)
           \/ /\ Served(parent) /\ address[output] = "hidden"
              /\ walk' = [walk EXCEPT !.pc = "child", !.tx = parent]
              /\ UNCHANGED <<chain, horizon, report>>

(* rest.chain_walk_exhausted                                               *)
Exhausted ==
    /\ walk.pc = "child" /\ walk.hops = MaxChainWalk
    /\ Ends(None)

-----------------------------------------------------------------------------
Amounts(entries) == [i \in DOMAIN entries |-> entries[i].amount]
Sum(amounts)     == FoldFunction(+, 0, amounts)

(* Mutant: the amounts that are given are all there are.                   *)
TotalGiven(entries) ==
    LET sum == Sum(Amounts(SelectSeq(entries, LAMBDA e : e.given)))
    IN  IF sum > MaxU64 THEN None ELSE sum

(* No total when an amount is not given or the sum overflows a u64.        *)
Total(entries) ==
    IF \E i \in DOMAIN entries : ~entries[i].given THEN None
    ELSE LET sum == Sum(Amounts(entries)) IN IF sum > MaxU64 THEN None ELSE sum

(* estimate_tx_fee_from_toccata                                            *)
EstimateFee ==
    /\ walk.pc = "fee"
    /\ LET ins == Total(walk.tx.ins) outs == Total(walk.tx.outs)
       IN  Ends([fee |-> IF ins # None /\ outs # None /\ ins >= outs
                         THEN ins - outs ELSE None])

Next ==
    \/ Prune \/ RestFails \/ FetchChild \/ FetchParent \/ Exhausted \/ EstimateFee

Spec == Init /\ [][Next]_vars

-----------------------------------------------------------------------------
(* The transaction after n first inputs.                                   *)
Ancestor(n) ==
    LET up[k \in Nat] == IF k = 0 THEN Deposit ELSE spends[up[k - 1]][1] IN up[n]

Found(kind) ==
    walk.kind = kind /\ walk.pc = "done" /\ report \notin {None, Failed}

(* "First input of the funding transaction -> previous outpoint -> sender  *)
(* address" (src/return_address.rs): the address returned is that of the   *)
(* output the deposit's first input spends, whichever of the two requests  *)
(* it came from and whatever is pruned in between; only when that address  *)
(* is hidden is it the nearest one along first inputs that is not.         *)
NearestSender ==
    Found("return") =>
        /\ report.from = spends[Ancestor(report.hops - 1)]
        /\ address[report.from] = "shown"
        /\ \A n \in 0 .. report.hops - 2 : address[spends[Ancestor(n)]] = "hidden"

(* A fee that is reported is what the inputs have over the outputs: no     *)
(* amount is missing from it, and no sum has wrapped.                      *)
FeeExact ==
    Found("fee") /\ report.fee # None =>
        report.fee = Sum(Amounts(walk.tx.ins)) - Sum(Amounts(walk.tx.outs))
=============================================================================
