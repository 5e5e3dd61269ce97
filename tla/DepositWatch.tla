----------------------------- MODULE DepositWatch -----------------------------
(***************************************************************************)
(* REST deposit polling: the process of src/bin/tn10_deposits.rs with its  *)
(* DepositWatch (src/watch.rs) and DepositTracker (src/exchange.rs) over   *)
(* the deposit ledger.  What it has seen is in memory only: a restart sees *)
(* every output anew and has no memory of those that vanished meanwhile.   *)
(***************************************************************************)
EXTENDS DepositChain

CONSTANTS
    MaxFaults,      \* bound: crashes and failed polls
    NoFacts         \* absent row, answer not received yet

ASSUME BoundsAssumption == MaxFaults \in Nat /\ NoFacts \notin Nat

VARIABLES
    pc,                             \* "start" (imports) or "poll"
    fetched_daa, fetched_utxos,     \* answers of the poll in progress
    seen, tracker, credited,        \* DepositWatch; tracker: outpoint -> block DAA
    deposits, legacy, outbox,       \* the ledger
    faults

Ledger == INSTANCE DepositLedger
            WITH Facts <- Scores, Daa <- Scores, NoDaa <- NoFacts

scan   == <<fetched_daa, fetched_utxos>>
watch  == <<seen, tracker, credited>>
ledger == <<deposits, legacy, outbox>>
vars   == <<chain, pc, scan, watch, ledger, faults>>

TypeOK ==
    /\ ChainTypeOK
    /\ pc \in {"start", "poll"}
    /\ fetched_daa \in Scores \cup {NoFacts}
    /\ fetched_utxos \in Utxos \cup {NoFacts}
    /\ seen \subseteq Outpoints /\ credited \subseteq Outpoints
    /\ tracker \in UNION {[S -> Scores] : S \in SUBSET seen}
    /\ Ledger!TypeOK
    /\ faults \in 0 .. MaxFaults

NoScan == fetched_daa' = NoFacts /\ fetched_utxos' = NoFacts

Init ==
    /\ ChainInit /\ Ledger!Init
    /\ pc = "start"
    /\ fetched_daa = NoFacts /\ fetched_utxos = NoFacts
    /\ seen = {} /\ tracker = NoUtxos /\ credited = {}
    /\ faults = 0

Fault == faults < MaxFaults /\ faults' = faults + 1

ChainMoves == ChainNext /\ UNCHANGED <<pc, scan, watch, ledger, faults>>

(* --import-text: one transaction per line, then the loop begins.          *)
Import(op) ==
    /\ pc = "start" /\ op \notin legacy
    /\ Ledger!ImportLegacyCredit(op)
    /\ UNCHANGED <<chain, pc, scan, watch, faults>>

Start ==
    /\ pc = "start" /\ pc' = "poll"
    /\ UNCHANGED <<chain, scan, watch, ledger, faults>>

(* Mutant: the seen set survives, as if it had been stored.                *)
ForgetTracker == tracker' = NoUtxos /\ UNCHANGED <<seen, credited>>

(* DepositWatch::new in the next process.                                  *)
Forget == seen' = {} /\ tracker' = NoUtxos /\ credited' = {}

Crash ==
    /\ Fault
    /\ pc' = "start" /\ NoScan /\ Forget
    /\ UNCHANGED <<chain, ledger>>

-----------------------------------------------------------------------------
(* address_snapshot: the requests run concurrently.                        *)
FetchDaa ==
    /\ pc = "poll" /\ fetched_daa = NoFacts
    /\ fetched_daa' = daa
    /\ UNCHANGED <<chain, pc, fetched_utxos, watch, ledger, faults>>

FetchUtxos ==
    /\ pc = "poll" /\ fetched_utxos = NoFacts
    /\ fetched_utxos' = utxo
    /\ UNCHANGED <<chain, pc, fetched_daa, watch, ledger, faults>>

(* A request fails or an answer is refused: the watch keeps its memory.    *)
PollFails ==
    /\ pc = "poll" /\ Fault /\ NoScan
    /\ UNCHANGED <<chain, pc, watch, ledger>>

Only(f, S) == [op \in DOMAIN f \cap S |-> f[op]]

(* Mutant: one confirmation fewer is enough.                               *)
DeepInclusive(score) == score + Required - 1 <= fetched_daa

(* on_utxo_added: already deep at its first sight.                         *)
Deep(score) == score + Required <= fetched_daa

(* Mutant: due only once the depth is exceeded.                            *)
DueLate(tracked) == {op \in DOMAIN tracked : tracked[op] + Required < fetched_daa}

(* on_virtual_daa.                                                         *)
Due(tracked) == {op \in DOMAIN tracked : tracked[op] + Required <= fetched_daa}

(* Mutant: only what is seen now can disappear.                            *)
VanishedNone == {}

Vanished == seen \ DOMAIN fetched_utxos

(* The tracker after on_utxo_added and on_utxo_removed.                    *)
Tracked(fresh) ==
    [op \in (DOMAIN tracker \ Vanished) \cup {o \in fresh : ~Deep(fetched_utxos[o])} |->
        IF op \in fresh THEN fetched_utxos[op] ELSE tracker[op]]

(* DepositWatch::apply on the snapshot, then reconcile; an Err of the      *)
(* latter ends the process.                                                *)
Tick ==
    LET fresh     == DOMAIN fetched_utxos \ seen
        tracked   == Tracked(fresh)
        due       == Due(tracked)
        immediate == {op \in fresh : Deep(fetched_utxos[op])}
        confirmed == [op \in (due \cup immediate) \ credited |->
                        IF op \in due THEN tracked[op] ELSE fetched_utxos[op]]
    IN  /\ pc = "poll" /\ fetched_daa # NoFacts /\ fetched_utxos # NoFacts
        /\ \/ /\ Ledger!Reconcile(fetched_daa, fetched_utxos, confirmed, Vanished)
              /\ seen' = DOMAIN fetched_utxos
              /\ tracker' = Only(tracked, DOMAIN tracked \ due)
              /\ credited' = credited \cup DOMAIN confirmed
              /\ UNCHANGED pc
           \/ /\ ~ /\ Ledger!ObservedFactsAgree(fetched_utxos)
                   /\ Ledger!ConfirmedFactsAgree(
                        Ledger!Observe(fetched_daa, fetched_utxos), confirmed)
              /\ pc' = "start" /\ Forget
              /\ UNCHANGED ledger
        /\ NoScan
        /\ UNCHANGED <<chain, faults>>

Next ==
    \/ ChainMoves
    \/ \E op \in Outpoints : Import(op)
    \/ Start \/ FetchDaa \/ FetchUtxos \/ Tick \/ PollFails \/ Crash

(* The loop sleeps at most 30 s between polls, a supervisor restarts the   *)
(* process and REST answers again in the end.                              *)
Spec ==
    /\ Init /\ [][Next]_vars
    /\ WF_vars(Start) /\ WF_vars(FetchDaa) /\ WF_vars(FetchUtxos) /\ WF_vars(Tick)

-----------------------------------------------------------------------------
(* No deposit is credited before the reported score is Required above its  *)
(* block, at first sight or later, whichever answers the poll combined;    *)
(* credits of an older process excepted.                                   *)
DepthRespected ==
    \A op \in Outpoints :
        deposits[op].state = "credited" /\ op \notin legacy
            => deposits[op].credited_daa >= deposits[op].facts + Required

(* What watch.rs keeps in three places and the ledger in a fourth agrees:  *)
(* a seen output whose row is pending is tracked with the row's facts, or  *)
(* it would be confirmed never, or with facts reconcile refuses; and no    *)
(* output counted as credited is pending, as it would be filtered out.     *)
WatchAgreement ==
    \A op \in Outpoints :
        deposits[op].state = "pending" =>
            /\ op \in seen => op \in DOMAIN tracker /\ tracker[op] = deposits[op].facts
            /\ op \notin credited

(* What must hold between any two steps.                                   *)
Consistent == TypeOK /\ WatchAgreement

(* A transaction that gets Required deep and stays unspent is credited,    *)
(* whatever polls fail and however often the process restarts; unless a    *)
(* reorg touched a deposit.                                                *)
EventuallyCredited ==
    \A op \in Outpoints :
        <>[](op \in DOMAIN utxo /\ utxo[op] + Required <= daa /\ moved = {})
            => <>(deposits[op].state = "credited")

(* A deposit whose output vanishes for good does not stay pending, as long *)
(* as the process that saw it runs (the next one would not know it).       *)
VanishedSettles ==
    \A op \in Outpoints :
        op \in seen /\ [](op \notin DOMAIN utxo /\ pc = "poll")
            ~> deposits[op].state # "pending"
=============================================================================
