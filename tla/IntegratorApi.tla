---------------------------- MODULE IntegratorApi ----------------------------
(***************************************************************************)
(* The integrator's HTTP API (src/integrator_api.rs): a request passes its *)
(* key, for the custody routes the gate of owned nodes, and then reaches   *)
(* the deposit ledger, a tn10-outbox process it starts, or the watchlist   *)
(* file.  Handlers of different requests interleave wherever one awaits,   *)
(* and those of the watchlist anywhere, for nothing locks its file.        *)
(***************************************************************************)
EXTENDS Integers, Sequences, Functions

CONSTANTS
    Clients,        \* requests in progress at most, one each
    Environments,   \* [urls, min, require]: the variables load_config reads
    Events,         \* outbox rows, all of them pending to begin with
    Bodies,         \* watchlists that are posted: sequences of addresses
    Watchable,      \* the valid addresses of the network
    MaxRequests,    \* bound: requests made
    Null            \* no file, no answer, no list to be read

IntegratorApiAssumption ==
    /\ MaxRequests \in Nat /\ Null \notin Bodies
    /\ Bodies \subseteq Seq(STRING) /\ Watchable \subseteq STRING
    /\ \A env \in Environments : {env.urls, env.min} \subseteq Nat
    /\ Clients \cap {"pending", "acknowledged"} = {}
    /\ Events \cap {"none", "started"} = {}

VARIABLES
    config,         \* the configuration in force
    gate,           \* what an evaluation of the gate would find now
    events,         \* deposit_outbox: id -> its state, or who leases it
    withdrawal_db,  \* the withdrawal database exists
    file,           \* the watchlist file
    request,        \* client -> [pc, route, list]
    answer,         \* client -> status and body of its last answer
    child,          \* client -> the tn10-outbox its last deliver started
    made,           \* requests made
    green,          \* ghost: clients whose request has seen a green gate
    acks,           \* ghost: id -> how often its acknowledgement was reported
    disturbed       \* ghost: a write of the file overlapped another or died

stores == <<events, withdrawal_db, file>>
ghosts == <<green, acks, disturbed>>
vars   == <<config, gate, stores, request, answer, child, made, ghosts>>

Custody == {"deposits", "withdrawals", "ack", "deliver"}
Routes  == Custody \cup {"gate", "summary", "selftest", "get", "set"}
Idle    == [pc |-> "idle", route |-> "get", list |-> Null]

(* What set_watchlist lets through.                                        *)
Lists ==
    {list \in Bodies : /\ Len(list) \in 1 .. 100
                       /\ Range(list) \subseteq Watchable /\ IsInjective(list)}

(* A file that is not one whole list has no text, but still a length.      *)
Texts == [text : Lists \cup {Null}, length : 0 .. 100]

TypeOK ==
    /\ gate \in {"green", "red", "unknown"}
    /\ events \in [Events -> {"pending", "acknowledged"} \cup Clients]
    /\ withdrawal_db \in BOOLEAN
    /\ file \in Texts \cup {Null}
    /\ request \in [Clients -> [pc : {"idle", "authorized", "admitted", "started",
                                      "truncated"},
                                route : Routes, list : Bodies \cup {Null}]]
    /\ child \in [Clients -> {"none", "started"} \cup Events]
    /\ made \in 0 .. MaxRequests /\ green \subseteq Clients
    /\ disturbed \in BOOLEAN

-----------------------------------------------------------------------------
(* load_config: without TN10_MIN_HEALTHY two nodes are required; without   *)
(* TN10_OWNED_NODE_URLS there are none.                                    *)
load_config(env) ==
    [urls |-> env.urls, min |-> IF env.min = 0 THEN 2 ELSE env.min,
     require |-> env.require]

(* What an evaluation may find: the public score may not be there.         *)
Findings == {"red", "unknown"} \cup (IF config.urls >= config.min THEN {"green"} ELSE {})

Init ==
    /\ \E env \in Environments : config = load_config(env)
    /\ gate \in Findings
    /\ events = [id \in Events |-> "pending"]
    /\ withdrawal_db = FALSE /\ file = Null
    /\ request = [c \in Clients |-> Idle]
    /\ answer = [c \in Clients |-> Null]
    /\ child = [c \in Clients |-> "none"]
    /\ made = 0 /\ green = {} /\ acks = [id \in Events |-> 0]
    /\ disturbed = FALSE

GateChanges ==
    /\ gate' \in Findings \ {gate}
    /\ green' = IF gate' = "green"
                THEN green \cup {c \in Clients : request[c].pc # "idle"} ELSE green
    /\ UNCHANGED <<config, stores, request, answer, child, made, acks, disturbed>>

-----------------------------------------------------------------------------
Goto(c, where) == request' = [request EXCEPT ![c].pc = where]

Reply(c, status, body) ==
    /\ request' = [request EXCEPT ![c] = Idle]
    /\ answer' = [answer EXCEPT ![c] = [status |-> status, body |-> body,
                                        route |-> request[c].route]]

(* auth_tenant: a key of the table, in either header; map_err answers 401. *)
Arrive(c) ==
    /\ request[c].pc = "idle" /\ child[c] = "none"
    /\ made < MaxRequests /\ made' = made + 1
    /\ \E route \in Routes :
        \/ \E list \in IF route = "set" THEN Bodies ELSE {Null} :
              /\ request' = [request EXCEPT
                    ![c] = [pc |-> "authorized", route |-> route, list |-> list]]
              /\ green' = IF gate = "green" THEN green \cup {c} ELSE green \ {c}
              /\ answer' = [answer EXCEPT ![c] = Null]
        \/ /\ answer' = [answer EXCEPT ![c] = [status |-> 401, body |-> Null,
                                               route |-> route]]
           /\ UNCHANGED <<request, green>>
    /\ UNCHANGED <<config, gate, stores, child, acks, disturbed>>

(* Mutant: only a gate known to be red refuses.                            *)
AdmittedUnlessRed == ~config.require \/ gate # "red"

Admitted == ~config.require \/ gate = "green"

(* require_gate; what is not "gate is red" is answered with 400, a public  *)
(* API that is down included.                                              *)
Gate(c) ==
    /\ request[c].pc = "authorized" /\ request[c].route \in Custody
    /\ \/ Admitted /\ Goto(c, "admitted") /\ UNCHANGED answer
       \/ ~Admitted /\ Reply(c, IF gate = "red" THEN 503 ELSE 400, Null)
    /\ UNCHANGED <<config, gate, stores, child, made, ghosts>>

ReadLedger(c) ==
    /\ request[c].pc = "admitted" /\ request[c].route = "deposits"
    /\ Reply(c, 200, Null)
    /\ UNCHANGED <<config, gate, stores, child, made, ghosts>>

(* Every request opens the database, which makes it when it is not there.  *)
ReadWithdrawals(c) ==
    /\ request[c].pc = "admitted" /\ request[c].route = "withdrawals"
    /\ withdrawal_db' = TRUE /\ Reply(c, 200, Null)
    /\ UNCHANGED <<config, gate, events, file, child, made, ghosts>>

Acknowledged(id) == acks' = [acks EXCEPT ![id] = @ + 1]

Free(id) == events[id] = "pending"

Ack(c) ==
    /\ request[c].pc = "admitted" /\ request[c].route = "ack"
    /\ \E id \in Events :
        \/ /\ Free(id)
           /\ events' = [events EXCEPT ![id] = "acknowledged"]
           /\ Acknowledged(id) /\ Reply(c, 200, Null)
        \/ ~Free(id) /\ Reply(c, 400, Null) /\ UNCHANGED <<events, acks>>
    /\ UNCHANGED <<config, gate, withdrawal_db, file, child, made, green, disturbed>>

StartOutbox(c) ==
    /\ request[c].pc = "admitted" /\ request[c].route = "deliver"
    /\ Goto(c, "started") /\ child' = [child EXCEPT ![c] = "started"]
    /\ UNCHANGED <<config, gate, stores, answer, made, ghosts>>

(* The tn10-outbox started has a gate of its own: two nodes, whatever the  *)
(* configuration names, and the configuration's count, which it refuses    *)
(* above two.  It takes what is pending or whose lease expired;            *)
(* OutboxDelivery has more of it.                                          *)
OutboxClaims(c) ==
    /\ child[c] = "started" /\ config.min <= 2
    /\ \E id \in Events :
          /\ events[id] \in {"pending"} \cup Clients
          /\ events' = [events EXCEPT ![id] = c]
          /\ child' = [child EXCEPT ![c] = id]
    /\ UNCHANGED <<config, gate, withdrawal_db, file, request, answer, made, ghosts>>

(* Mutant: whoever was sent the event marks it, leased or not.             *)
SentByMe(c) == child[c] \in Events

(* The lease is its own: not expired and taken by another meanwhile.       *)
HeldByMe(c) == child[c] \in Events /\ events[child[c]] = c

OutboxSettles(c) ==
    /\ child[c] \in Events
    /\ \/ /\ HeldByMe(c) /\ Acknowledged(child[c])
          /\ events' = [events EXCEPT ![child[c]] = "acknowledged"]
       \/ /\ HeldByMe(c) /\ events' = [events EXCEPT ![child[c]] = "pending"]
          /\ UNCHANGED acks
       \/ ~HeldByMe(c) /\ UNCHANGED <<events, acks>>
    /\ child' = [child EXCEPT ![c] = "started"]
    /\ UNCHANGED <<config, gate, withdrawal_db, file, request, answer, made,
                   green, disturbed>>

(* The process ends; a request that waits for it is answered 200 with its  *)
(* exit code.                                                              *)
OutboxExits(c) ==
    /\ child[c] = "started" /\ child' = [child EXCEPT ![c] = "none"]
    /\ \/ request[c].pc = "started" /\ Reply(c, 200, Null)
       \/ request[c].pc # "started" /\ UNCHANGED <<request, answer>>
    /\ UNCHANGED <<config, gate, stores, made, ghosts>>

-----------------------------------------------------------------------------
(* Mutant: a text that does not parse is an empty list.                    *)
ReadLenient == IF file = Null \/ file.text = Null THEN [ok |-> TRUE, list |-> <<>>]
               ELSE [ok |-> TRUE, list |-> file.text]

(* No file is an empty list; a text that does not parse is an error.       *)
read_watchlist ==
    IF file = Null THEN [ok |-> TRUE, list |-> <<>>]
    ELSE [ok |-> file.text # Null, list |-> file.text]

ReplyList(c) ==
    IF read_watchlist.ok THEN Reply(c, 200, read_watchlist.list) ELSE Reply(c, 400, Null)

GetWatchlist(c) ==
    /\ request[c].pc = "authorized" /\ request[c].route = "get"
    /\ ReplyList(c)
    /\ UNCHANGED <<config, gate, stores, child, made, ghosts>>

(* gate_status: unlike the custody routes it tells red from a public API   *)
(* that is down, which is 400.                                             *)
GateStatus(c) ==
    /\ request[c].pc = "authorized" /\ request[c].route = "gate"
    /\ Reply(c, CASE gate = "unknown" -> 400
                  [] gate = "red" /\ config.require -> 503
                  [] OTHER -> 200, Null)
    /\ UNCHANGED <<config, gate, stores, child, made, ghosts>>

(* pilot_summary: the gate is reported and need not be green, but without  *)
(* the public score there is no summary.                                   *)
PilotSummary(c) ==
    /\ request[c].pc = "authorized" /\ request[c].route = "summary"
    /\ IF gate = "unknown" THEN Reply(c, 400, Null) ELSE ReplyList(c)
    /\ UNCHANGED <<config, gate, stores, child, made, ghosts>>

(* pilot_selftest: here an evaluation that fails is a check that fails,    *)
(* and so is whatever is not there, but for a watchlist that does not      *)
(* parse.  The secret, the receiver and the evidence may be there or not.  *)
PilotSelftest(c) ==
    /\ request[c].pc = "authorized" /\ request[c].route = "selftest"
    /\ \/ ~read_watchlist.ok /\ Reply(c, 400, Null)
       \/ /\ read_watchlist.ok
          /\ \E others \in BOOLEAN :
                Reply(c, 200, others /\ withdrawal_db /\ gate = "green"
                              /\ read_watchlist.list # <<>>)
    /\ UNCHANGED <<config, gate, stores, child, made, ghosts>>

(* set_watchlist refuses the body                                          *)
RefuseList(c) ==
    /\ request[c].pc = "authorized" /\ request[c].route = "set"
    /\ request[c].list \notin Lists /\ Reply(c, 400, Null)
    /\ UNCHANGED <<config, gate, stores, child, made, ghosts>>

(* Mutant: what is there is not emptied.                                   *)
TruncateKeeps(c) ==
    /\ request[c].pc = "authorized" /\ request[c].list \in Lists
    /\ file' = IF file = Null THEN [text |-> Null, length |-> 0] ELSE file
    /\ Goto(c, "truncated")
    /\ disturbed' = (disturbed \/ \E d \in Clients : request[d].pc = "truncated")
    /\ UNCHANGED <<config, gate, events, withdrawal_db, answer, child, made, green, acks>>

(* fs::write of the checked list: the file is opened and emptied, and then *)
(* written from its beginning.                                             *)
Truncate(c) ==
    /\ request[c].pc = "authorized" /\ request[c].list \in Lists
    /\ file' = [text |-> Null, length |-> 0]
    /\ Goto(c, "truncated")
    /\ disturbed' = (disturbed \/ \E d \in Clients : request[d].pc = "truncated")
    /\ UNCHANGED <<config, gate, events, withdrawal_db, answer, child, made, green, acks>>

(* A longer text written meanwhile keeps its end: no JSON any more.        *)
WrittenOver(list) ==
    IF file.length > Len(list) THEN [text |-> Null, length |-> file.length]
    ELSE [text |-> list, length |-> Len(list)]

Write(c) ==
    /\ request[c].pc = "truncated"
    /\ file' = WrittenOver(request[c].list)
    /\ Reply(c, 200, request[c].list)
    /\ UNCHANGED <<config, gate, events, withdrawal_db, child, made, ghosts>>

(* The API is killed and started again; a tn10-outbox lives on.            *)
Restart ==
    /\ \E c \in Clients : request[c].pc # "idle"
    /\ request' = [c \in Clients |-> Idle]
    /\ disturbed' = (disturbed \/ \E c \in Clients : request[c].pc = "truncated")
    /\ UNCHANGED <<config, gate, stores, answer, child, made, green, acks>>

Next ==
    \/ GateChanges \/ Restart
    \/ \E c \in Clients :
        \/ Arrive(c) \/ Gate(c)
        \/ ReadLedger(c) \/ ReadWithdrawals(c) \/ Ack(c)
        \/ StartOutbox(c) \/ OutboxClaims(c) \/ OutboxSettles(c) \/ OutboxExits(c)
        \/ GateStatus(c) \/ PilotSummary(c) \/ PilotSelftest(c)
        \/ GetWatchlist(c) \/ RefuseList(c) \/ Truncate(c) \/ Write(c)

Spec == Init /\ [][Next]_vars

-----------------------------------------------------------------------------
(* "Custody routes return 503 when owned-node gate is red"                 *)
(* (docs/integrator_go_live.md): a custody request that is served saw a    *)
(* green gate at some time since it arrived, though maybe not when it took *)
(* effect; with fewer nodes configured than required, none ever is.        *)
FailClosed ==
    config.require =>
        \A c \in Clients :
            request[c].pc \in {"admitted", "started"} =>
                c \in green /\ config.urls >= config.min

(* Over all the requests and the processes they start, an event is         *)
(* acknowledged to one of them only.                                       *)
AcknowledgedOnce ==
    \A id \in Events : acks[id] = (IF events[id] = "acknowledged" THEN 1 ELSE 0)

(* A list that is served is whole and has nothing in it that the check of  *)
(* a new list refuses, or is the empty list of a file that is not there: a *)
(* reader in the middle of a write, or after one that was lost, gets an    *)
(* error.                                                                  *)
ServesLists ==
    \A c \in Clients :
        /\ request[c].pc = "authorized" /\ answer'[c] # Null
        /\ answer'[c].status = 200 /\ answer'[c].route \in {"get", "summary"}
        => answer'[c].body \in Lists \/ file = Null

ServesCheckedLists == [][ServesLists]_vars

(* The file is lost only where two writes overlap or one dies: else, while *)
(* nothing writes it, it is one whole list.                                *)
QuietFileWhole ==
    disturbed \/ file = Null
    \/ (\E c \in Clients : request[c].pc = "truncated") \/ file.text # Null
=============================================================================
