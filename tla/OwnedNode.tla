------------------------------- MODULE OwnedNode -------------------------------
(***************************************************************************)
(* One health probe of an owned node (src/owned_node.rs): three requests   *)
(* on one connection, their answers in any order, and the two judgements   *)
(* made of them, the stage for monitoring and the assessment that decides. *)
(***************************************************************************)
EXTENDS Integers, Sequences, FiniteSetsExt

CONSTANTS
    MaxDaa, MaxBlocks, MaxPeers,    \* bounds of what a node answers
    MaxDaaLag,      \* --max-daa-lag
    MaxGap,         \* MAX_HEADER_BODY_GAP
    MaxDelta,       \* MAX_INTERNAL_DAA_DELTA
    Null            \* no answer yet

OwnedNodeAssumption ==
    /\ {MaxDaa, MaxBlocks, MaxPeers, MaxDaaLag, MaxGap, MaxDelta} \subseteq Nat
    /\ MaxDaaLag > 0

VARIABLES
    public_daa,     \* the public score the node is compared with: REST's,
                    \* read once before the probe begins
    server, dag, peers,     \* the decoded answers
    failed          \* a timeout, a closed socket or an answer out of place

answers == <<server, dag, peers>>
vars    == <<public_daa, answers, failed>>

Networks == {"tn10", "other"}

ServerInfos == [network : Networks, has_utxo_index : BOOLEAN, daa : 0 .. MaxDaa,
                is_synced : BOOLEAN, recent : BOOLEAN]

DagInfos == [network : Networks, daa : 0 .. MaxDaa,
             headers : 0 .. MaxBlocks, blocks : 0 .. MaxBlocks]

PeerInfos == {p \in [connected : 0 .. MaxPeers, ibd : 0 .. MaxPeers] :
                 p.ibd <= p.connected}

TypeOK ==
    /\ public_daa \in 0 .. MaxDaa + MaxDaaLag
    /\ server \in ServerInfos \cup {Null}
    /\ dag \in DagInfos \cup {Null}
    /\ peers \in PeerInfos \cup {Null}
    /\ failed \in BOOLEAN

Init ==
    /\ public_daa \in 1 .. MaxDaa + MaxDaaLag
    /\ server = Null /\ dag = Null /\ peers = Null
    /\ failed = FALSE

-----------------------------------------------------------------------------
Waiting == ~failed /\ Null \in {server, dag, peers}

ServerAnswer ==
    /\ Waiting /\ server = Null
    /\ server' \in ServerInfos
    /\ UNCHANGED <<public_daa, dag, peers, failed>>

DagAnswer ==
    /\ Waiting /\ dag = Null
    /\ dag' \in DagInfos
    /\ UNCHANGED <<public_daa, server, peers, failed>>

PeersAnswer ==
    /\ Waiting /\ peers = Null
    /\ peers' \in PeerInfos
    /\ UNCHANGED <<public_daa, server, dag, failed>>

(* A timeout, a close or binary frame, a notification, an answer that does *)
(* not decode, a second answer to the same request.                        *)
ProbeFails ==
    /\ Waiting /\ failed' = TRUE
    /\ UNCHANGED <<public_daa, answers>>

Next == ServerAnswer \/ DagAnswer \/ PeersAnswer \/ ProbeFails

Spec == Init /\ [][Next]_vars

-----------------------------------------------------------------------------
Answered == ~failed /\ Null \notin {server, dag, peers}

(* saturating_sub and abs_diff of the code.                                *)
Above(a, b) == IF a > b THEN a - b ELSE 0
Apart(a, b) == Above(a, b) + Above(b, a)

(* The name of the first check that fails.                                 *)
First(checks) ==
    LET failing == {i \in DOMAIN checks : checks[i][2]}
    IN  IF failing = {} THEN "healthy" ELSE checks[Min(failing)][1]

(* Mutant: a node that says it is synchronised is not looked at further.   *)
StageTrusting ==
    IF server.is_synced THEN "healthy"
    ELSE First(<<
        <<"missing_utxoindex", ~server.has_utxo_index>>,
        <<"utxo_commit",       0 \in {server.daa, dag.daa}>>,
        <<"no_peers",          peers.connected = 0>>,
        <<"finishing_sync",    ~server.is_synced>> >>)

(* The checks of owned_node_stage, in the order of the code.               *)
StageChecks ==
    << <<"missing_utxoindex", ~server.has_utxo_index>>,
       <<"utxo_commit",       0 \in {server.daa, dag.daa}>>,
       <<"dag_incomplete",    dag.headers = 0>>,
       <<"body_sync",         Above(dag.headers, dag.blocks) > MaxGap>>,
       <<"ibd_peers",         peers.ibd > 0>>,
       <<"no_peers",          peers.connected = 0>>,
       <<"finishing_sync",    ~server.is_synced>> >>

owned_node_stage == First(StageChecks)

LocalDaa == Max({server.daa, dag.daa})

(* Mutant: the two answers are not compared with each other.               *)
AssessOneView ==
    First(<<
        <<"network",           {server.network, dag.network} # {"tn10"}>>,
        <<"missing_utxoindex", ~server.has_utxo_index>>,
        <<"utxo_commit",       0 \in {server.daa, dag.daa}>>,
        <<"dag_incomplete",    dag.headers = 0>>,
        <<"body_sync",         Above(dag.headers, dag.blocks) > MaxGap>>,
        <<"ibd_peers",         peers.ibd > 0>>,
        <<"no_peers",          peers.connected = 0>>,
        <<"finishing_sync",    ~server.is_synced>>,
        <<"version",           ~server.recent>>,
        <<"lag",               Above(public_daa, LocalDaa) > MaxDaaLag>> >>)

(* The checks of assess_owned_node.                                        *)
AssessChecks ==
    << <<"network",           {server.network, dag.network} # {"tn10"}>>,
       <<"missing_utxoindex", ~server.has_utxo_index>>,
       <<"utxo_commit",       0 \in {server.daa, dag.daa}>>,
       <<"dag_incomplete",    dag.headers = 0>>,
       <<"body_sync",         Above(dag.headers, dag.blocks) > MaxGap>>,
       <<"ibd_peers",         peers.ibd > 0>>,
       <<"no_peers",          peers.connected = 0>>,
       <<"finishing_sync",    ~server.is_synced>>,
       <<"version",           ~server.recent>>,
       <<"disagreement",      Apart(server.daa, dag.daa) > MaxDelta>>,
       <<"lag",               Above(public_daa, LocalDaa) > MaxDaaLag>> >>

assess_owned_node == First(AssessChecks)

(* report_from_probe                                                       *)
Healthy == Answered /\ assess_owned_node = "healthy"
StageOf == IF Answered THEN owned_node_stage ELSE "unreachable"

-----------------------------------------------------------------------------
(* Two functions of the code make the same judgement twice: a supervisor   *)
(* that reads the stage is never told a stage other than the fault the     *)
(* gate refused the node for, and no healthy stage but for the faults that *)
(* no stage names.                                                         *)
StageExplainsAssessment ==
    Answered =>
        LET fault == assess_owned_node IN
        owned_node_stage # fault =>
            \/ fault = "network"
            \/ /\ fault \in {"version", "disagreement", "lag"}
               /\ owned_node_stage = "healthy"

(* Both views of an accepted node, the server's and the DAG's, are near    *)
(* the public score: the lag is taken of the larger of the two.            *)
LagBounded ==
    Healthy => \A daa \in {server.daa, dag.daa} :
                  Above(public_daa, daa) <= MaxDaaLag + MaxDelta
=============================================================================
