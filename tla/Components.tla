------------------------------ MODULE Components ------------------------------
(* A bench for the components that share no state with one another: a        *)
(* behaviour is of one of them, chosen to begin with.  The journal has its   *)
(* own variables; the others keep theirs, under their own names, in the      *)
(* registers v1, v2, ..., of which those that are not needed stay Null.      *)
EXTENDS WrpcJournal, Integers

CONSTANTS
    Null, Failed, Torn,
    Spellings, Ticker, Holders, Testnet, Mainnet, TxIds, MaxAmount,    \* Krc
    Outpoints, Coinbase, Amount, Addresses, Foreign, Payments,         \* Cex
    Scores, MaxRows, MaxSompi, DepositConfirmations, CoinbaseMaturity,
    Ids, Parties, MaxDaa, MaxFunds,                                    \* Covenant
    MaxScore, MaxBlocks, MaxPeers, MaxDaaLag, MaxGap, MaxDelta,        \* Node
    Receivers, MaxInteger, MaxCrashes,                                 \* Receiver
    Urls, Loopback, DefaultUrl, DualUrls, MaxUrls, MaxLag,             \* Pool
    Clients, Environments, Events, Bodies, Watchable, MaxRequests,     \* Api
    Programs, MaxKills,                                                \* SchemaOf
    Count, Concurrency, Attempts, MaxVersion,                          \* Rest
    Deposit, MaxChainWalk, MaxU64, FeeTxs,                             \* Walk
    Deposits, MaxSeen, ClampLimit, MaxOffset, ExportMaxRows, Limits,   \* Listing
    MaxTx, ProofFiles                                                  \* Proof

VARIABLES component, v1, v2, v3, v4, v5, v6, v7, v8, v9, v10, v11, v12

None   == <<v1, v2, v3, v4, v5, v6, v7, v8, v9, v10, v11, v12>>
After3 == <<v4, v5, v6, v7, v8, v9, v10, v11, v12>>
After4 == <<v5, v6, v7, v8, v9, v10, v11, v12>>
After5 == <<v6, v7, v8, v9, v10, v11, v12>>
After6 == <<v7, v8, v9, v10, v11, v12>>

all == <<component, vars, None>>

-----------------------------------------------------------------------------
Krc == INSTANCE Krc20 WITH
    Addresses <- Holders, tokens <- v1, seen_txids <- v2, applied <- v3

Cex == INSTANCE CexWallet WITH
    Daa <- Scores,
    virtual_daa <- v1, utxos <- v2, spent <- v3, held <- v4

Covenant == INSTANCE Covenants WITH
    engine <- v1, daa <- v2, utxos <- v3, funded <- v4, paid <- v5

Node == INSTANCE OwnedNode WITH
    MaxDaa <- MaxScore,
    public_daa <- v1, server <- v2, dag <- v3, peers <- v4, failed <- v5

Receiver == INSTANCE OutboxReceiver WITH
    Outpoints <- Events, MaxSompi <- MaxInteger,
    version <- v1, table <- v2, inbox <- v3, pc <- v4, last <- v5, crashes <- v6

Pool == INSTANCE OwnedNodeFailover WITH
    urls <- v1, min_healthy <- v2, pc <- v3, seen <- v4, node_index <- v5,
    chosen <- v6

Api == INSTANCE IntegratorApi WITH
    config <- v1, gate <- v2, events <- v3, withdrawal_db <- v4, file <- v5,
    request <- v6, answer <- v7, child <- v8, made <- v9, green <- v10,
    acks <- v11, disturbed <- v12

SchemaOf == INSTANCE LedgerSchema WITH
    None <- Null, db <- v1, pc <- v2, kills <- v3

Rest == INSTANCE RestClient WITH
    holds <- v1, slots <- v2, task <- v3, outcome <- v4, since <- v5

Proof == INSTANCE CovenantProof WITH
    prev <- v1, fresh <- v2, accepted <- v3, mistaken <- v4, proof <- v5,
    pc <- v6, mode <- v7, rows <- v8, rest_file <- v9, kascov_file <- v10,
    report <- v11, was_whole <- v12

Walk == INSTANCE ReturnAddress WITH
    None <- Null, spends <- v1, address <- v2, enriched <- v3, horizon <- v4, walk <- v5,
    report <- v6

Listing == INSTANCE DepositListing WITH
    Rows <- Deposits, MaxDaa <- MaxSeen, None <- Null,
    deposits <- v1, reader <- v2, read <- v3, kept <- v4

ASSUME ComponentsAssumption ==
    /\ SchemaOf!LedgerSchemaAssumption
    /\ Walk!ReturnAddressAssumption /\ Listing!DepositListingAssumption
    /\ Krc!AmountAssumption /\ Krc!AddressAssumption /\ Cex!CexAssumption
    /\ Covenant!CovenantAssumption /\ Node!OwnedNodeAssumption
    /\ Rest!RestClientAssumption /\ Receiver!ReceiverAssumption
    /\ Pool!OwnedNodeFailoverAssumption /\ Api!IntegratorApiAssumption
    /\ Proof!CovenantProofAssumption

-----------------------------------------------------------------------------
Null6 == v7 = Null /\ v8 = Null /\ v9 = Null /\ v10 = Null /\ v11 = Null /\ v12 = Null
Null5 == v6 = Null /\ Null6
Null4 == v5 = Null /\ Null5
Null3 == v4 = Null /\ Null4
Null0 == v1 = Null /\ v2 = Null /\ v3 = Null /\ Null3

BenchInit ==
    /\ Init     \* of the journal
    /\ \/ component = "journal"  /\ Null0
       \/ component = "krc20"    /\ Krc!Init      /\ Null3
       \/ component = "cex"      /\ Cex!Init      /\ Null4
       \/ component = "covenant" /\ Covenant!Init /\ Null5
       \/ component = "node"     /\ Node!Init     /\ Null5
       \/ component = "rest"     /\ Rest!Init     /\ Null5
       \/ component = "receiver" /\ Receiver!Init /\ Null6
       \/ component = "pool"     /\ Pool!Init     /\ Null6
       \/ component = "schema"   /\ SchemaOf!Init /\ Null3
       \/ component = "walk"     /\ Walk!Init     /\ Null6
       \/ component = "listing"  /\ Listing!Init  /\ Null4
       \/ component = "api"      /\ Api!Init
       \/ component = "proof"    /\ Proof!Init

BenchNext ==
    \/ component = "journal"  /\ Next          /\ UNCHANGED <<component, None>>
    \/ component = "krc20"    /\ Krc!Next      /\ UNCHANGED <<component, vars, After3>>
    \/ component = "cex"      /\ Cex!Next      /\ UNCHANGED <<component, vars, After4>>
    \/ component = "covenant" /\ Covenant!Next /\ UNCHANGED <<component, vars, After5>>
    \/ component = "node"     /\ Node!Next     /\ UNCHANGED <<component, vars, After5>>
    \/ component = "rest"     /\ Rest!Next     /\ UNCHANGED <<component, vars, After5>>
    \/ component = "receiver" /\ Receiver!Next /\ UNCHANGED <<component, vars, After6>>
    \/ component = "pool"     /\ Pool!Next     /\ UNCHANGED <<component, vars, After6>>
    \/ component = "schema"   /\ SchemaOf!Next /\ UNCHANGED <<component, vars, After3>>
    \/ component = "walk"     /\ Walk!Next     /\ UNCHANGED <<component, vars, After6>>
    \/ component = "listing"  /\ Listing!Next  /\ UNCHANGED <<component, vars, After4>>
    \/ component = "api"      /\ Api!Next      /\ UNCHANGED <<component, vars>>
    \/ component = "proof"    /\ Proof!Next    /\ UNCHANGED <<component, vars>>

(* The fairness of the supervisor loop, of the REST client and of every    *)
(* program that opens the ledger.                                          *)
Fairness ==
    /\ \A p \in Programs : WF_all(component = "schema" /\ SchemaOf!Open(p)
                                      /\ UNCHANGED <<component, vars, After3>>)
    /\ WF_all(component = "pool" /\ Pool!Step /\ UNCHANGED <<component, vars, After6>>)
    /\ WF_all(component = "rest" /\ Rest!Step /\ UNCHANGED <<component, vars, After5>>)

BenchSpec == BenchInit /\ [][BenchNext]_all /\ Fairness

-----------------------------------------------------------------------------
(* The properties of the components; their parts are explained where they  *)
(* are defined.                                                            *)

(* Money: the holders of a token have what was minted, within its cap; an  *)
(* exchange's snapshot counts every outpoint once and at the depth it      *)
(* needs.                                                                  *)
MoneyAddsUp ==
    /\ component = "krc20" => Krc!TypeOK /\ Krc!Conservation
    /\ component = "cex" => Cex!TypeOK /\ Cex!BalancesSound

(* What can be used once is used once: a transaction id by a token         *)
(* operation, an outpoint as an input of a payment.                        *)
TakenOnce ==
    /\ component = "krc20" => Krc!AppliedOnce
    /\ component = "cex" => Cex!InputsExclusive

(* Covenants: a registration pays once, exactly one of two windows is open *)
(* at any score, and nobody settles an escrow alone before its timeout.    *)
CovenantsSound ==
    component = "covenant" =>
        Covenant!TypeOK /\ Covenant!PaidOnce /\ Covenant!OneWindowOpen /\ Covenant!TwoOfThree

(* Owned nodes: the stage names the fault a node is refused for, both      *)
(* views of a healthy node are near the public score, and a pool that      *)
(* starts has the nodes its gate waits for.                                *)
NodesSound ==
    /\ component = "node" => Node!TypeOK /\ Node!StageExplainsAssessment /\ Node!LagBounded
    /\ component = "pool" => Pool!TypeOK /\ Pool!GateReachable

(* Receiver: an inbox of another version is never served, 2xx means that   *)
(* the inbox has the facts of the request, filed under their own key.      *)
ReceiverSound ==
    component = "receiver" =>
        Receiver!TypeOK /\ Receiver!OwnSchemaServed /\ Receiver!AnswerTrue /\ Receiver!KeyNamesFacts

(* HTTP API: no custody request is served without a green gate, an event   *)
(* is acknowledged to one request or process, and the watchlist file is,   *)
(* undisturbed, one whole list.                                            *)
ApiSound ==
    component = "api" =>
        Api!TypeOK /\ Api!FailClosed /\ Api!AcknowledgedOnce /\ Api!QuietFileWhole

(* Proof: what is accepted was the covenant's whole story, and verified    *)
(* transactions are accepted ones that spend each other.                   *)
ProofSound ==
    component = "proof" => Proof!TypeOK /\ Proof!AcceptedWasWhole /\ Proof!VerifiedIsChain

(* REST: a batch has an answer for every address or is an error; a return  *)
(* address is the nearest sender shown; a fee is exact or unknown; and a   *)
(* client that pages to the end misses no row that was left alone.         *)
AnswersSound ==
    /\ component = "rest" => Rest!TypeOK /\ Rest!SnapshotComplete
    /\ component = "walk" => Walk!TypeOK /\ Walk!NearestSender /\ Walk!FeeExact
    /\ component = "listing" => Listing!TypeOK /\ Listing!PagingMissesNothing

(* Ledger file: it is never left between two schema versions.              *)
LedgerFileSound ==
    component = "schema" => SchemaOf!TypeOK /\ SchemaOf!VersionTrue

(* What is done stays done: a ticker's terms, a stored delivery; and a     *)
(* watchlist that is served is a whole list that passes the checks.        *)
NothingUndone ==
    [][/\ component = "krc20"    => Krc!DeploymentKept
       /\ component = "receiver" => Receiver!RowsKept
       /\ component = "api"      => Api!ServesLists]_all

(* Node pool: a failover is to the healthy node with the smallest lag, and *)
(* leaves the failed one whenever another is healthy.                      *)
FailoverSound ==
    [][component = "pool" => Pool!BestChosen /\ Pool!LeftUnlessLast]_all

(* Every REST call ends, a node pool that failed connects again, and a     *)
(* program that lost a race for the ledger file opens it in the end.       *)
AllSettle ==
    /\ component = "rest" ~> component = "rest" /\ v4 # Null
    /\ component = "pool" /\ v3 = "failed" ~> component = "pool" /\ v3 = "connect"
    /\ \A p \in Programs :
          component = "schema" /\ SchemaOf!Ours ~> component = "schema" /\ v2[p] = "open"
=============================================================================
