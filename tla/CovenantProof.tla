----------------------------- MODULE CovenantProof -----------------------------
(***************************************************************************)
(* tn10-proof (src/proof.rs, src/bin/tn10_proof.rs): is a proof file of    *)
(* two transactions what happened to a covenant?  The transactions are     *)
(* asked for one after the other from an API that prunes, then the lineage *)
(* from an indexer, while the chain goes on; or all of it is read from two *)
(* fixture files that an earlier run captured.  (The counter app has three *)
(* steps and fixtures compiled in; the other apps are as here.)  A         *)
(* transaction has one output, its covenant's: to spend the transaction is *)
(* to spend the output at the step's output_index.                         *)
(***************************************************************************)
EXTENDS Integers, Sequences, FiniteSets, Functions

CONSTANTS
    MaxTx,          \* bound: transactions, numbered as they spend each other
    ProofFiles,     \* bound: the proof files looked at
    Torn,           \* a file that is there and does not parse
    Null            \* nothing found, no file, no report

CovenantProofAssumption ==
    /\ MaxTx \in Nat /\ {Torn, Null} \cap Nat = {}
    /\ ProofFiles \subseteq [txids : [1 .. 2 -> 1 .. MaxTx], covenant_id : 1 .. MaxTx]

VARIABLES
    prev,           \* tx -> the transaction its authorizing input spends, or 0
    fresh,          \* those that start a covenant whatever they spend
    accepted,       \* those the chain has accepted
    mistaken,       \* the indexer confirms what it is asked about
    proof,          \* the proof file: [txids, covenant_id]
    pc, mode,       \* where the program is; its flag, or Null when none runs
    rows,           \* what it found of the steps, in their order: Row or Null
    rest_file, kascov_file,     \* fixtures: Null, Torn or what was captured
    report,         \* the last report: [mode, rest_verified]
    was_whole       \* ghost: at some time the proof was the whole lineage

chain == <<prev, fresh, mistaken, proof>>
files == <<rest_file, kascov_file>>
vars  == <<chain, accepted, pc, mode, rows, files, report, was_whole>>

Txs == 1 .. MaxTx
Modes == {"online", "kascov_only", "capture", "offline"}
Row   == [txid : Txs, is_accepted : BOOLEAN]
Coins == [covenant_id : Txs, events : Seq(Txs), lineage_complete : BOOLEAN, live : BOOLEAN]

(* Of those, what from_path and is_complete let through: the steps of the  *)
(* app with their counts, none missing; of covenant_id, one for both.      *)
Proofs == {p \in ProofFiles : Len(p.txids) = 2}

TypeOK ==
    /\ prev \in [Txs -> 0 .. MaxTx] /\ {fresh, accepted} \subseteq SUBSET Txs
    /\ mistaken \in BOOLEAN /\ proof \in Proofs
    /\ pc \in {"idle", "fetch", "snapshot", "write_rest", "write_kascov"}
    /\ mode \in Modes \cup {Null} /\ rows \in Seq(Row \cup {Null})
    /\ rest_file \in Seq(Row) \cup {Null, Torn}
    /\ kascov_file \in Coins \cup {Null, Torn}
    /\ report \in [mode : Modes, rest_verified : BOOLEAN] \cup {Null}

-----------------------------------------------------------------------------
(* A covenant is named after the transaction that starts it.               *)
Covenant[t \in Txs] == IF prev[t] = 0 \/ t \in fresh THEN t ELSE Covenant[prev[t]]

InputCovenant(t) == IF prev[t] = 0 THEN 0 ELSE Covenant[prev[t]]

OfCovenant(id) == {t \in accepted : Covenant[t] = id}

InOrder(s) == \A i, j \in DOMAIN s : i < j => s[i] < s[j]

Lineage(id) ==
    CHOOSE s \in [1 .. Cardinality(OfCovenant(id)) -> OfCovenant(id)] : InOrder(s)

Spent(t) == \E u \in accepted : prev[u] = t

(* The proof tells the covenant's whole story up to now.                   *)
Whole ==
    /\ Lineage(proof.covenant_id) = proof.txids
    /\ ~Spent(proof.txids[2])

Init ==
    /\ prev \in {p \in [Txs -> 0 .. MaxTx] :
                    \A t \in Txs : p[t] < t /\ \A u \in Txs : t # u /\ p[t] # 0 => p[t] # p[u]}
    /\ fresh \in SUBSET {t \in Txs : prev[t] # 0}
    /\ accepted = {}
    /\ mistaken \in BOOLEAN /\ proof \in Proofs
    /\ pc = "idle" /\ mode = Null /\ rows = <<>>
    /\ rest_file = Null /\ kascov_file = Null
    /\ report = Null /\ was_whole = FALSE

Accept(t) ==
    /\ t \notin accepted /\ (prev[t] = 0 \/ prev[t] \in accepted)
    /\ accepted' = accepted \cup {t}
    /\ UNCHANGED <<chain, pc, mode, rows, files, report>>
    /\ was_whole' = (was_whole \/ Whole')

-----------------------------------------------------------------------------
MatchesStep(row, i) ==
    /\ row # Null /\ row.txid = proof.txids[i] /\ row.is_accepted
    /\ Covenant[row.txid] = proof.covenant_id

(* Mutant: each transaction alone, and not what it spends.                 *)
RestMatchesEach(found) ==
    Len(found) = 2 /\ \A i \in 1 .. 2 : MatchesStep(found[i], i)

verify_rest_txs(found) ==
    /\ Len(found) = 2 /\ \A i \in 1 .. 2 : MatchesStep(found[i], i)
    /\ InputCovenant(found[2].txid) = proof.covenant_id
    /\ prev[found[2].txid] = found[1].txid

(* The indexer's answer: of what it knows, maybe not from the beginning;   *)
(* or, mistaken, what the proof says.                                      *)
CoinsOf(id) ==
    IF mistaken
    THEN {[covenant_id |-> id, events |-> proof.txids, lineage_complete |-> TRUE, live |-> TRUE]}
    ELSE {[covenant_id |-> id, events |-> Lineage(id), lineage_complete |-> complete,
           live |-> \E t \in Range(Lineage(id)) : ~Spent(t)] : complete \in BOOLEAN}

(* Mutant: events beyond the proof's steps are not looked at.              *)
KascovKnowsSteps(coin) ==
    /\ coin.covenant_id = proof.covenant_id /\ coin.lineage_complete /\ coin.live
    /\ Range(proof.txids) \subseteq Range(coin.events)

verify_kascov(coin) ==
    /\ coin.covenant_id = proof.covenant_id /\ coin.lineage_complete /\ coin.live
    /\ coin.events = proof.txids

-----------------------------------------------------------------------------
Start(m) ==
    /\ pc = "idle" /\ m # "offline"
    /\ m = "capture" => rest_file # Torn
    /\ pc' = "fetch" /\ mode' = m /\ rows' = <<>> /\ report' = Null
    /\ UNCHANGED <<chain, accepted, files, was_whole>>

Cached(t) == IF rest_file = Null THEN {} ELSE {row \in Range(rest_file) : row.txid = t}

Stop == pc' = "idle" /\ mode' = Null /\ rows' = <<>>

(* One transaction: served, be it accepted or not, or not found.  Then a   *)
(* capture falls back on the fixture of an earlier one, --kascov-only goes *)
(* on without; else it is an error.                                        *)
Fetch ==
    /\ pc = "fetch"
    /\ LET t == proof.txids[Len(rows) + 1]
           Found(row) == /\ rows' = Append(rows, row) /\ UNCHANGED mode
                         /\ pc' = IF Len(rows) = 1 THEN "snapshot" ELSE "fetch"
       IN  \/ Found([txid |-> t, is_accepted |-> t \in accepted])
           \/ mode = "capture" /\ \E row \in Cached(t) : Found(row)
           \/ mode = "kascov_only" /\ Found(Null)
           \/ Stop
    /\ UNCHANGED <<chain, accepted, files, report, was_whole>>

Conclude(rest_verified) ==
    report' = [mode |-> mode, rest_verified |-> rest_verified]

(* The indexer's snapshot, and the verdict of the two modes that are live. *)
Snapshot ==
    /\ pc = "snapshot" /\ mode # "capture"
    /\ Stop
    /\ \/ /\ mode = "online" => verify_rest_txs(rows)
          /\ \E coin \in CoinsOf(proof.covenant_id) : verify_kascov(coin)
          /\ Conclude(verify_rest_txs(rows))
       \/ UNCHANGED report
    /\ UNCHANGED <<chain, accepted, files, was_whole>>

(* A capture asks for the coin and writes the two files one after the      *)
(* other, without looking whether they prove anything.                     *)
CaptureCoin ==
    /\ pc = "snapshot" /\ mode = "capture"
    /\ \/ pc' = "write_rest" /\ UNCHANGED <<mode, rows>>
       \/ Stop
    /\ UNCHANGED <<chain, accepted, files, report, was_whole>>

WriteRest ==
    /\ pc = "write_rest" /\ rest_file' = rows
    /\ pc' = "write_kascov"
    /\ UNCHANGED <<chain, accepted, mode, rows, kascov_file, report, was_whole>>

WriteKascov ==
    /\ pc = "write_kascov" /\ kascov_file' \in CoinsOf(proof.covenant_id)
    /\ Stop
    /\ UNCHANGED <<chain, accepted, rest_file, report, was_whole>>

(* Killed while a file is being written, or between the two.               *)
Kill ==
    /\ \/ pc = "write_rest" /\ rest_file' = Torn /\ UNCHANGED kascov_file
       \/ pc = "write_kascov" /\ kascov_file' = Torn /\ UNCHANGED rest_file
       \/ pc # "idle" /\ UNCHANGED files
    /\ Stop
    /\ UNCHANGED <<chain, accepted, report, was_whole>>

(* --offline: the two files and no network.                                *)
Offline ==
    /\ pc = "idle"
    /\ \/ /\ Null \notin {rest_file, kascov_file} /\ Torn \notin {rest_file, kascov_file}
          /\ verify_rest_txs(rest_file) /\ verify_kascov(kascov_file)
          /\ report' = [mode |-> "offline", rest_verified |-> TRUE]
       \/ report' = Null
    /\ UNCHANGED <<chain, accepted, pc, mode, rows, files, was_whole>>

Next ==
    \/ \E t \in Txs : Accept(t)
    \/ \E m \in Modes : Start(m)
    \/ Fetch \/ Snapshot \/ CaptureCoin \/ WriteRest \/ WriteKascov \/ Kill \/ Offline

Spec == Init /\ [][Next]_vars

-----------------------------------------------------------------------------
(* Whatever the mode: a proof accepted on the word of an indexer that is   *)
(* right was at some time the covenant's whole story, from the transaction *)
(* that started it to the one that holds it, also when the chain went on   *)
(* between two answers, rows came from an old fixture, or a capture died   *)
(* between its two files.                                                  *)
AcceptedWasWhole == report # Null /\ ~mistaken => was_whole

(* A report that says the transactions were verified is, whatever the      *)
(* indexer says, of two accepted ones of the covenant, the second of which *)
(* spends the first.                                                       *)
VerifiedIsChain ==
    report # Null /\ report.rest_verified =>
        /\ Range(proof.txids) \subseteq accepted
        /\ prev[proof.txids[2]] = proof.txids[1]
================================================================================
