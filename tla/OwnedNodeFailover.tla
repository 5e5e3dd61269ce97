--------------------------- MODULE OwnedNodeFailover ---------------------------
(***************************************************************************)
(* The pool of owned nodes: the options of the gate                        *)
(* (src/owned_node_gate.rs), the gate itself, and the supervisor loop of   *)
(* src/bin/tn10_wrpc_live.rs that selects a node, subscribes to it and     *)
(* fails over.  What a probe finds (OwnedNode) is arbitrary here: the lag  *)
(* of a healthy node, or Null.  What a connection does is WrpcIngest.  A   *)
(* program without --resnapshot-only and --max-live-seconds.               *)
(***************************************************************************)
EXTENDS Integers, Sequences, FiniteSetsExt, Functions

CONSTANTS
    Urls,           \* what a --url may say
    Loopback,       \* those require_loopback_wrpc_url accepts
    DefaultUrl, DualUrls,       \* the node without options, the pair of --dual
    MaxUrls,        \* MAX_OWNED_NODE_URLS
    MaxLag,         \* bound: the lag of a healthy node
    Null            \* an unhealthy node; no selection

Lists(S) == UNION {[1 .. n -> S] : n \in 0 .. MaxUrls}

OwnedNodeFailoverAssumption ==
    /\ Loopback \subseteq Urls /\ DefaultUrl \in Loopback
    /\ DualUrls \in Lists(Loopback)
    /\ {MaxUrls, MaxLag} \subseteq Nat /\ MaxUrls > 0
    /\ Null \notin Nat

VARIABLES
    urls, min_healthy,      \* the options in force
    pc,             \* where the supervisor is
    seen,           \* node -> its lag or Null, as last evaluated
    node_index,     \* the node in use
    chosen          \* the last evaluation selected it

options == <<urls, min_healthy>>
vars    == <<options, pc, seen, node_index, chosen>>

Nodes == DOMAIN urls

TypeOK ==
    /\ urls \in Lists(Urls) /\ min_healthy \in 0 .. MaxUrls
    /\ pc \in {"startup", "gate", "select", "connect", "connected", "failed",
               "resnapshot", "exited"}
    /\ seen \in [Nodes -> 0 .. MaxLag \cup {Null}]
    /\ node_index \in Nodes \cup {Null} /\ chosen \in BOOLEAN

-----------------------------------------------------------------------------
(* finish_gate_options.  The environment stands in for flags not given,    *)
(* --dual drops both.                                                      *)
ResolveUrls(flags, env, dual) ==
    CASE dual                      -> DualUrls
      [] ~dual /\ flags # <<>>     -> flags
      [] ~dual /\ flags = <<>>     -> IF env # <<>> THEN env ELSE <<DefaultUrl>>

ResolveMin(flag, env) == IF flag = 0 THEN env ELSE flag

(* Mutant: the flag is checked, and not what the environment put for it.   *)
ValidFlagOnly(resolved, min) ==
    /\ Len(resolved) \in 1 .. MaxUrls /\ Range(resolved) \subseteq Loopback
    /\ IsInjective(resolved)

ValidOptions(resolved, min) ==
    /\ Len(resolved) \in 1 .. MaxUrls /\ Range(resolved) \subseteq Loopback
    /\ IsInjective(resolved)
    /\ min <= Len(resolved)

UrlLists == Lists(Urls)

Init ==
    /\ \E flags \in UrlLists, dual \in BOOLEAN, flag, min \in 0 .. MaxUrls :
          /\ \E env \in IF flags = <<>> THEN UrlLists ELSE {<<>>, <<DefaultUrl>>} :
                urls = ResolveUrls(flags, env, dual)
          /\ min_healthy = ResolveMin(flag, min)
    /\ pc = IF ValidOptions(urls, min_healthy) THEN "startup" ELSE "exited"
    /\ seen = [n \in Nodes |-> Null]
    /\ node_index = Null /\ chosen = FALSE

-----------------------------------------------------------------------------
HealthyIn(lags) == {n \in Nodes : lags[n] # Null}

(* Mutant: the earliest healthy node, whatever its lag.                    *)
SelectFirst(lags) == IF HealthyIn(lags) = {} THEN Null ELSE Min(HealthyIn(lags))

(* The smallest lag, then the earliest in the configured order.            *)
select_primary(lags) ==
    LET healthy == HealthyIn(lags)
        least   == Min({lags[n] : n \in healthy})
    IN  IF healthy = {} THEN Null ELSE Min({n \in healthy : lags[n] = least})

Evaluate(lags) == seen' = lags
Goto(where) == pc' = where

(* The startup resnapshot; its failure ends the program.                   *)
Startup ==
    /\ pc = "startup"
    /\ \E ok \in BOOLEAN :
          Goto(IF ~ok THEN "exited" ELSE IF min_healthy > 0 THEN "gate" ELSE "select")
    /\ UNCHANGED <<options, seen, node_index, chosen>>

(* run_owned_node_gate, once                                               *)
Gate ==
    /\ pc = "gate"
    /\ \/ \E lags \in [Nodes -> 0 .. MaxLag \cup {Null}] :
             /\ Evaluate(lags)
             /\ Goto(IF Cardinality(HealthyIn(lags)) >= min_healthy
                     THEN "select" ELSE "exited")
       \/ Goto("exited") /\ UNCHANGED seen
    /\ UNCHANGED <<options, node_index, chosen>>

(* Before the first connection: until a node is healthy.                   *)
Select ==
    /\ pc = "select"
    /\ \E lags \in [Nodes -> 0 .. MaxLag \cup {Null}] :
          /\ Evaluate(lags)
          /\ node_index' = select_primary(lags)
          /\ chosen' = (HealthyIn(lags) # {})
          /\ Goto(IF HealthyIn(lags) # {} THEN "connect" ELSE "select")
    /\ UNCHANGED options

(* run_connection up to both acknowledgements                              *)
Connect ==
    /\ pc = "connect"
    /\ Goto("connected") \/ Goto("failed")
    /\ UNCHANGED <<options, seen, node_index, chosen>>

Disconnect ==
    /\ pc = "connected" /\ Goto("failed")
    /\ UNCHANGED <<options, seen, node_index, chosen>>

(* Mutant: the node that just failed may be selected.                      *)
SkipNone(lags) == lags

SkipFailed(lags) == [lags EXCEPT ![node_index] = Null]

(* next_owned_node.  No healthy node left, or no public score to compare   *)
(* with: the index is held.                                                *)
NextOwnedNode ==
    /\ pc = "failed"
    /\ \/ \E lags \in [Nodes -> 0 .. MaxLag \cup {Null}] :
             LET healthy == SkipFailed(lags) IN
             /\ Evaluate(lags)
             /\ chosen' = (HealthyIn(healthy) # {})
             /\ node_index' = IF HealthyIn(healthy) # {}
                              THEN select_primary(healthy) ELSE node_index
       \/ chosen' = FALSE /\ UNCHANGED <<seen, node_index>>
    /\ Goto("resnapshot")
    /\ UNCHANGED options

(* Mutant: a resnapshot that fails makes the loop look for a node anew.    *)
ResnapshotFirst ==
    /\ pc = "resnapshot"
    /\ Goto("connect") \/ Goto("failed")
    /\ UNCHANGED <<options, seen, node_index, chosen>>

(* Whether the resnapshot and the replay work or not: the loop goes on to  *)
(* the connection either way, which makes a scan of its own.               *)
Resnapshot ==
    /\ pc = "resnapshot" /\ Goto("connect")
    /\ UNCHANGED <<options, seen, node_index, chosen>>

Step ==
    \/ Startup \/ Gate \/ Select \/ Connect
    \/ NextOwnedNode \/ Resnapshot

Next == Step \/ Disconnect

(* The loop is one task that sleeps between its steps, never waiting on    *)
(* anything without a timeout; only an established connection may last.    *)
Fairness == WF_vars(Step)

Spec == Init /\ [][Next]_vars /\ Fairness

-----------------------------------------------------------------------------
(* A pool that starts can pass its gate: wherever the urls and the count   *)
(* came from, the program does not wait for more healthy nodes than it has *)
(* distinct nodes.                                                         *)
GateReachable ==
    pc # "exited" => min_healthy <= Cardinality(Range(urls))

(* A node taken over on purpose is one that was healthy when the pool was  *)
(* last evaluated, with no healthier one before it but the one that        *)
(* failed.                                                                 *)
BestChosen ==
    chosen' /\ pc \in {"select", "failed"} =>
        /\ seen'[node_index'] # Null
        /\ \A n \in Nodes \ {node_index, node_index'} :
              seen'[n] # Null => seen'[node_index'] <= seen'[n]

FailoverToBest == [][BestChosen]_vars

(* A failed node is left whenever another one is healthy.                  *)
LeftUnlessLast ==
    pc = "failed" /\ node_index' = node_index =>
        \/ seen' = seen
        \/ \A n \in Nodes \ {node_index} : seen'[n] = Null

FailedNodeLeft == [][LeftUnlessLast]_vars

(* Neither a pool without a healthy node nor a public API that is down     *)
(* keeps the loop from connecting again.                                   *)
ReconnectsAlways == pc = "failed" ~> pc = "connect"
=============================================================================
