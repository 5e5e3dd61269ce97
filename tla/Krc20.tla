-------------------------------- MODULE Krc20 --------------------------------
(***************************************************************************)
(* The in-memory KRC-20 state engine (src/krc20.rs).  An operation that    *)
(* returns Err changes nothing and is no step: its error conditions are    *)
(* the guards below.  An absent balance is 0.                              *)
(***************************************************************************)
EXTENDS Integers, FiniteSets, Functions

CONSTANTS
    Spellings,      \* ticks as payloads spell them
    Ticker,         \* normalize_tick: spelling -> the ticker in upper case
    Addresses,
    Testnet, Mainnet,   \* classify_address; other addresses are unknown
    TxIds,
    MaxAmount,      \* u128::MAX; small in TLC's instances
    Null            \* no token; an omitted amount

Amounts == 0 .. MaxAmount

TokenState == [max_supply : Amounts, minted_supply : Amounts,
               limit_per_mint : Amounts, balances : [Addresses -> Amounts]]

AmountAssumption == MaxAmount \in Nat /\ Null \notin Amounts \cup TokenState

(* A network has finitely many addresses.                                  *)
AddressAssumption == IsFiniteSet(Addresses) /\ Testnet \cup Mainnet \subseteq Addresses

VARIABLES
    tokens,         \* ticker -> TokenState
    seen_txids,
    applied         \* ghost: txid -> how many payloads took effect under it

krc20 == <<tokens, seen_txids, applied>>

Tickers == {Ticker[s] : s \in Spellings}

TypeOK ==
    /\ tokens \in [Tickers -> TokenState \cup {Null}]
    /\ seen_txids \subseteq TxIds
    /\ applied \in [TxIds -> Nat]

Init ==
    /\ tokens = [t \in Tickers |-> Null]
    /\ seen_txids = {} /\ applied = [t \in TxIds |-> 0]

-----------------------------------------------------------------------------
(* Mutant: only a mint is remembered.                                      *)
AcceptMintOnly(txid, op) ==
    /\ txid \notin seen_txids
    /\ seen_txids' = IF op = "mint" THEN seen_txids \cup {txid} ELSE seen_txids
    /\ applied' = [applied EXCEPT ![txid] = @ + 1]

(* A transaction id is used up by the payload that succeeds, only.         *)
Accept(txid, op) ==
    /\ txid \notin seen_txids
    /\ seen_txids' = seen_txids \cup {txid}
    /\ applied' = [applied EXCEPT ![txid] = @ + 1]

(* Mutant: the spelling is not normalised before the lookup, so that a     *)
(* second spelling deploys the ticker again.                               *)
DeploySpelling(txid, tick, max, lim) ==
    /\ tokens[Ticker[tick]] = Null \/ tick # Ticker[tick]
    /\ tokens' = [tokens EXCEPT ![Ticker[tick]] =
          [max_supply |-> max, minted_supply |-> 0, limit_per_mint |-> lim,
           balances |-> [a \in Addresses |-> 0]]]
    /\ Accept(txid, "deploy")

Deploy(txid, tick, max, lim) ==
    /\ tokens[Ticker[tick]] = Null
    /\ tokens' = [tokens EXCEPT ![Ticker[tick]] =
          [max_supply |-> max, minted_supply |-> 0, limit_per_mint |-> lim,
           balances |-> [a \in Addresses |-> 0]]]
    /\ Accept(txid, "deploy")

Mintable(token, amount) ==
    /\ amount \in 1 .. token.limit_per_mint
    /\ amount <= token.max_supply - token.minted_supply

Minted(token, sender, amount) ==
    [max_supply |-> token.max_supply,
     minted_supply |-> token.minted_supply + amount,
     limit_per_mint |-> token.limit_per_mint,
     balances |-> [token.balances EXCEPT ![sender] = @ + amount]]

(* Without an amount, as Kasplex writes it, a mint is of the whole limit.  *)
Mint(txid, sender, tick, amt) ==
    LET token  == tokens[Ticker[tick]]
        amount == IF amt = Null THEN token.limit_per_mint ELSE amt
    IN  /\ token # Null
        /\ Mintable(token, amount)
        /\ tokens' = [tokens EXCEPT ![Ticker[tick]] = Minted(token, sender, amount)]
        /\ Accept(txid, "mint")

CrossNetwork(sender, to) ==
    \/ sender \in Testnet /\ to \in Mainnet
    \/ sender \in Mainnet /\ to \in Testnet

(* Mutant: both balances are read before either is written.                *)
MovedFromCopies(balances, sender, to, amount) ==
    [balances EXCEPT ![sender] = @ - amount, ![to] = balances[to] + amount]

(* The sender's balance is written before the recipient's is read: the two *)
(* may be one.                                                             *)
Moved(balances, sender, to, amount) ==
    [balances EXCEPT ![sender] = @ - amount, ![to] = @ + amount]

(* Mutant: the transfer is covered by what was minted to anybody.          *)
CoveredBySupply(token, sender, amount) == token.minted_supply >= amount

Covered(token, sender, amount) == token.balances[sender] >= amount

Transfer(txid, sender, tick, amount, to) ==
    LET token == tokens[Ticker[tick]] IN
    /\ ~CrossNetwork(sender, to)
    /\ amount > 0 /\ token # Null
    /\ Covered(token, sender, amount)
    /\ tokens' = [tokens EXCEPT ![Ticker[tick]] =
          [token EXCEPT !.balances = Moved(@, sender, to, amount)]]
    /\ Accept(txid, "transfer")

Next ==
    \E txid \in TxIds, tick \in Spellings :
        \/ \E max, lim \in Amounts : Deploy(txid, tick, max, lim)
        \/ \E sender \in Addresses, amt \in Amounts \cup {Null} :
            Mint(txid, sender, tick, amt)
        \/ \E sender, to \in Addresses, amount \in Amounts :
            Transfer(txid, sender, tick, amount, to)

Spec == Init /\ [][Next]_krc20

-----------------------------------------------------------------------------
Total(balances) == SumFunction(balances)

(* Mints and transfers, to oneself too, keep what the holders have equal   *)
(* to what was minted, within the cap of the deployment; so none of the    *)
(* checked additions of apply, which would fail after the first of two     *)
(* writes, can overflow.                                                   *)
Conservation ==
    \A t \in Tickers : tokens[t] # Null =>
        /\ Total(tokens[t].balances) = tokens[t].minted_supply
        /\ tokens[t].minted_supply <= tokens[t].max_supply

(* A ticker is deployed once, under whatever spelling: its cap and limit   *)
(* stay, and what was minted is never forgotten.                           *)
DeploymentKept ==
    \A t \in Tickers : tokens[t] # Null =>
        /\ tokens'[t] # Null
        /\ tokens'[t].max_supply = tokens[t].max_supply
        /\ tokens'[t].limit_per_mint = tokens[t].limit_per_mint
        /\ tokens'[t].minted_supply >= tokens[t].minted_supply

DeploymentFinal == [][DeploymentKept]_krc20

(* A transaction takes effect once, whatever payload is replayed under its *)
(* id, although a payload that failed may be tried again.                  *)
AppliedOnce == \A txid \in TxIds : applied[txid] <= 1
=============================================================================
