------------------------------ MODULE RestClient ------------------------------
(***************************************************************************)
(* The client of the public REST API (src/rest.rs) at its hardest use:     *)
(* utxos_for_addresses, which asks for many addresses, a chunk of them at  *)
(* a time and concurrently, each request retried and, should the server    *)
(* not like the encoded path, made again with the raw one.  Meanwhile the  *)
(* chain changes what the addresses hold.                                  *)
(***************************************************************************)
EXTENDS Integers, Sequences, Functions

CONSTANTS
    Count,          \* addresses asked for
    Concurrency,    \* ADDRESS_CONCURRENCY
    Attempts,       \* HTTP_ATTEMPTS
    MaxVersion,     \* bound: how often what an address holds changes
    Failed,         \* an error in place of a result
    Null            \* no answer yet

RestClientAssumption ==
    /\ {Count, Concurrency, Attempts} \subseteq Nat \ {0}
    /\ MaxVersion \in Nat /\ {Failed, Null} \cap Nat = {}

VARIABLES
    holds,          \* position -> version of what the address holds now
    slots,          \* position -> the result: a version, Failed or Null
    task,           \* position -> [pc, raw, attempt] of its request
    outcome,        \* Null, Failed or the versions returned
    since           \* ghost: position -> its versions since the request began

vars == <<holds, slots, task, outcome, since>>

Positions == 1 .. Count
Chunk(i)  == (i - 1) \div Concurrency

TypeOK ==
    /\ holds \in [Positions -> 0 .. MaxVersion]
    /\ slots \in [Positions -> (0 .. MaxVersion) \cup {Failed, Null}]
    /\ task \in [Positions -> [pc : {"unborn", "ready", "sent", "over"},
                               raw : BOOLEAN, attempt : 1 .. Attempts]]
    /\ since \in [Positions -> SUBSET (0 .. MaxVersion)]

Init ==
    /\ holds = [i \in Positions |-> 0]
    /\ slots = [i \in Positions |-> Null]
    /\ task = [i \in Positions |-> [pc |-> "unborn", raw |-> FALSE, attempt |-> 1]]
    /\ outcome = Null
    /\ since = [i \in Positions |-> {0}]

(* A block pays or spends from the address.                                *)
ChainMoves(i) ==
    /\ outcome = Null
    /\ holds[i] < MaxVersion /\ holds' = [holds EXCEPT ![i] = @ + 1]
    /\ since' = [since EXCEPT ![i] = @ \cup {holds'[i]}]
    /\ UNCHANGED <<slots, task, outcome>>

-----------------------------------------------------------------------------
(* The next chunk starts when the last of this one is in.                  *)
CanStart(i) ==
    /\ outcome = Null /\ task[i].pc = "unborn"
    /\ \A j \in Positions : Chunk(j) < Chunk(i) => task[j].pc = "over"

Spawn(i) ==
    /\ CanStart(i) /\ task' = [task EXCEPT ![i].pc = "ready"]
    /\ UNCHANGED <<holds, slots, outcome, since>>

Send(i) ==
    /\ outcome = Null /\ task[i].pc = "ready"
    /\ task' = [task EXCEPT ![i].pc = "sent"]
    /\ UNCHANGED <<holds, slots, outcome, since>>

Result(i, value) ==
    /\ slots' = [slots EXCEPT ![i] = value]
    /\ task' = [task EXCEPT ![i].pc = "over"]

Succeeds(i) == Result(i, holds[i])

(* Mutant: a transient status does not count as an attempt.                *)
RetriesForever(i) ==
    task' = [task EXCEPT ![i] = [pc |-> "ready", raw |-> @.raw, attempt |-> @.attempt]]
    /\ UNCHANGED slots

(* http_send: a transient status, a timeout, a connection that fails; the  *)
(* wait before the next attempt is at most two seconds.                    *)
Retries(i) ==
    \/ /\ task[i].attempt < Attempts
       /\ task' = [task EXCEPT ![i] = [pc |-> "ready", raw |-> @.raw,
                                       attempt |-> @.attempt + 1]]
       /\ UNCHANGED slots
    \/ task[i].attempt = Attempts /\ Result(i, Failed)

(* 400, 403 or 404, maybe of a server that decodes no path: once more,     *)
(* with the attempts counted anew.                                         *)
TriesRaw(i) ==
    \/ /\ ~task[i].raw
       /\ task' = [task EXCEPT ![i] = [pc |-> "ready", raw |-> TRUE, attempt |-> 1]]
       /\ UNCHANGED slots
    \/ task[i].raw /\ Result(i, Failed)

(* Any other status, or an error of another kind.                          *)
Fails(i) == Result(i, Failed)

(* The answer of the server, or none within the time-out.                  *)
Answered(i) ==
    /\ outcome = Null /\ task[i].pc = "sent"
    /\ Succeeds(i) \/ Retries(i) \/ TriesRaw(i) \/ Fails(i)
    /\ UNCHANGED <<holds, outcome, since>>

(* Mutant: the addresses that failed are left out.                         *)
AssembleRest ==
    outcome' = SelectSeq(slots, LAMBDA slot : slot # Failed)

(* The results in the order of the addresses, or the first error.          *)
Assemble ==
    outcome' = IF Failed \in Range(slots) \/ Null \in Range(slots) THEN Failed ELSE slots

Finish ==
    /\ outcome = Null /\ \A i \in Positions : task[i].pc = "over"
    /\ Assemble
    /\ UNCHANGED <<holds, slots, task, since>>

Step == Finish \/ \E i \in Positions : Spawn(i) \/ Send(i) \/ Answered(i)

Next == Step \/ \E i \in Positions : ChainMoves(i)

Fairness == WF_vars(Step)

Spec == Init /\ [][Next]_vars /\ Fairness

-----------------------------------------------------------------------------
(* What is returned has a place for every address, in their order, with    *)
(* what that address held at some time since the call began: never a part  *)
(* of the addresses, never one address's outputs under another.  (The      *)
(* times differ: the snapshot is not of one moment.)                       *)
SnapshotComplete ==
    outcome \notin {Null, Failed} =>
        /\ Len(outcome) = Count
        /\ \A i \in Positions : outcome[i] \in since[i]

(* "cap at 2s so CEX snapshots cannot stall" (src/rest.rs): whatever the   *)
(* server answers, or if it never does, the call comes to an end.          *)
CallEnds == <>(outcome # Null)
=============================================================================
