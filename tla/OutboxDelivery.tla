---------------------------- MODULE OutboxDelivery ----------------------------
(***************************************************************************)
(* At-least-once delivery of the deposit outbox: the lease protocol of     *)
(* src/deposit_ledger.rs, the worker loop `deliver` of                     *)
(* src/bin/tn10_outbox.rs run by several processes on one database, the    *)
(* operator's `ack` and `requeue`, and the receiver inbox of               *)
(* src/outbox_receiver.rs at the other end of an unreliable connection.    *)
(*                                                                         *)
(* An event is named by its row id; the ledger's UNIQUE event_key makes    *)
(* ids and keys the same thing, and a key always carries the same facts    *)
(* (DepositLedger!OutboxMirrorsLedger).  An owner is a slot in which one   *)
(* worker process runs at a time.  Its successor has another name in the   *)
(* code and the same one here: a process only asks whether it still owns   *)
(* the event it claimed itself, so the reuse cannot be told apart.         *)
(***************************************************************************)
EXTENDS Integers

CONSTANTS
    Owners,         \* worker process slots
    NumEvents,      \* bound: events ever inserted
    Lease,          \* LEASE_SECONDS
    RetryBase,      \* --retry-base-seconds
    RetryMax,       \* --retry-max-seconds
    MaxAttempts,    \* --max-attempts
    MaxFaults,      \* bound: failures, crashes, takeovers
    Nobody          \* the SQL NULL of lease_owner

ASSUME NobodyAssumption == Nobody \notin Owners
ASSUME NumbersAssumption ==
    /\ {NumEvents, Lease, RetryBase, RetryMax, MaxAttempts} \subseteq Nat \ {0}
    /\ MaxFaults \in Nat
(* Arithmetic the provers do not know; TLC evaluates it for each instance. *)
ASSUME PowersAssumption == \A n \in 0 .. MaxAttempts : 2 ^ n \in Nat \ {0}

VARIABLES
    rows,       \* table deposit_outbox: id -> columns
    last_id,    \* ids 1 .. last_id have been inserted
    worker,     \* each slot's process: where it is in `deliver`
    late,       \* events whose POST is under way and awaited by nobody
    inbox,      \* table receiver_inbox: keys stored by the receiver
    handled,    \* ghost: events the operator acknowledged by hand
    clock,      \* epoch seconds, in units of the timeouts
    faults      \* faults so far

vars == <<rows, last_id, worker, late, inbox, handled, clock, faults>>

Ids == 1 .. NumEvents
Inserted == 1 .. last_id

Columns == [acknowledged : BOOLEAN, dead_lettered : BOOLEAN, attempts : Nat,
            next_attempt_at : Nat, lease_owner : Owners \cup {Nobody},
            lease_until : Nat]

(* pc: "ready" has read the clock for the next claim, "sent" awaits the    *)
(* response, "ok" or "failed" has it; id is the event of the claim, now    *)
(* the reading it is made with.  A slot without a process is "ready" too:  *)
(* its reading is replaced when a process is there to read the clock.      *)
Worker == [pc : {"ready", "sent", "ok", "failed"}, id : Ids, now : Nat]
Ready(now) == [pc |-> "ready", id |-> 1, now |-> now]

TypeOK ==
    /\ rows \in [Ids -> Columns]
    /\ last_id \in 0 .. NumEvents
    /\ worker \in [Owners -> Worker]
    /\ late \subseteq Ids /\ inbox \subseteq Ids /\ handled \subseteq Ids
    /\ clock \in Nat \ {0}
    /\ faults \in 0 .. MaxFaults

Init ==
    /\ rows = [id \in Ids |->
                 [acknowledged |-> FALSE, dead_lettered |-> FALSE, attempts |-> 0,
                  next_attempt_at |-> 0, lease_owner |-> Nobody, lease_until |-> 0]]
    /\ last_id = 0
    /\ late = {} /\ inbox = {} /\ handled = {}
    /\ clock = 1 /\ faults = 0
    /\ worker = [o \in Owners |-> Ready(clock)]

Fault == faults < MaxFaults /\ faults' = faults + 1

-----------------------------------------------------------------------------
(* The ledger inserts the next event; the row has the column defaults.     *)
Insert ==
    /\ last_id < NumEvents
    /\ last_id' = last_id + 1
    /\ UNCHANGED <<rows, worker, late, inbox, handled, clock, faults>>

(* Mutants: leases are ignored, or never expire; the newest event first.   *)
ClaimableLeased(id, now) ==
    /\ ~rows[id].acknowledged /\ ~rows[id].dead_lettered
    /\ rows[id].next_attempt_at <= now
ClaimableUnleased(id, now) ==
    /\ ~rows[id].acknowledged /\ ~rows[id].dead_lettered
    /\ rows[id].next_attempt_at <= now
    /\ rows[id].lease_owner = Nobody
ClaimedNewestFirst(i, j) ==
    \/ rows[i].next_attempt_at < rows[j].next_attempt_at
    \/ rows[i].next_attempt_at = rows[j].next_attempt_at /\ i >= j

(* What a claim may take: unacknowledged, alive, due, and free or with an  *)
(* expired lease.  ORDER BY next_attempt_at, id LIMIT 1 picks one of them. *)
Claimable(id, now) ==
    /\ ~rows[id].acknowledged /\ ~rows[id].dead_lettered
    /\ rows[id].next_attempt_at <= now
    /\ rows[id].lease_owner = Nobody \/ rows[id].lease_until <= now

ClaimedBefore(i, j) ==
    \/ rows[i].next_attempt_at < rows[j].next_attempt_at
    \/ rows[i].next_attempt_at = rows[j].next_attempt_at /\ i <= j

NextDelivery(id, now) ==
    /\ id \in Inserted /\ Claimable(id, now)
    /\ \A j \in Inserted : Claimable(j, now) => ClaimedBefore(id, j)

InHand(o) == worker[o].pc # "ready"

(* A process asleep past its lease still has the event in hand.            *)
Overslept(id) == \E o \in Owners : InHand(o) /\ worker[o].id = id

(* now_epoch_seconds, by a process that found nothing due, or by the one   *)
(* started after it.  The claim is a call of its own, which may wait for   *)
(* the database: by then the reading can be old.                           *)
ReadClock(o) ==
    /\ worker[o].pc = "ready" /\ worker[o].now < clock
    /\ worker' = [worker EXCEPT ![o] = Ready(clock)]
    /\ UNCHANGED <<rows, last_id, late, inbox, handled, clock, faults>>

(* claim_next_delivery, then the POST leaves.  Taking an event over from a *)
(* process that is merely slow counts as a fault, only to bound the model. *)
ClaimAndSend(o) ==
    \E id \in Ids :
        /\ worker[o].pc = "ready"
        /\ NextDelivery(id, worker[o].now)
        /\ rows' = [rows EXCEPT ![id] =
                       [@ EXCEPT !.lease_owner = o, !.lease_until = worker[o].now + Lease,
                                 !.attempts = rows[id].attempts + 1]]
        /\ worker' = [worker EXCEPT ![o] = [pc |-> "sent", id |-> id, now |-> @.now]]
        /\ IF Overslept(id) THEN Fault ELSE UNCHANGED faults
        /\ UNCHANGED <<last_id, late, inbox, handled, clock>>

(* The receiver stores the key, or finds it stored, in one transaction and *)
(* answers 201 or 200; the answer may still be lost on its way back.       *)
Deliver(o) ==
    /\ worker[o].pc = "sent"
    /\ inbox' = inbox \cup {worker[o].id}
    /\ \/ worker' = [worker EXCEPT ![o].pc = "ok"] /\ UNCHANGED faults
       \/ worker' = [worker EXCEPT ![o].pc = "failed"] /\ Fault
    /\ UNCHANGED <<rows, last_id, late, handled, clock>>

(* Mutant: any answer is taken for a success.                              *)
RefuseUnnoticed(o) ==
    /\ worker[o].pc = "sent"
    /\ worker' = [worker EXCEPT ![o].pc = "ok"] /\ Fault
    /\ UNCHANGED <<rows, last_id, late, inbox, handled, clock>>

(* The request is refused, or lost, before the inbox is reached.           *)
Refuse(o) ==
    /\ worker[o].pc = "sent"
    /\ worker' = [worker EXCEPT ![o].pc = "failed"] /\ Fault
    /\ UNCHANGED <<rows, last_id, late, inbox, handled, clock>>

(* The client's timeout fires while the request is still under way.        *)
GiveUp(o) ==
    /\ worker[o].pc = "sent"
    /\ worker' = [worker EXCEPT ![o].pc = "failed"] /\ Fault
    /\ late' = late \cup {worker[o].id}
    /\ UNCHANGED <<rows, last_id, inbox, handled, clock>>

(* The process dies with a claim in hand; its lease stays in the table.    *)
Crash(o) ==
    /\ InHand(o) /\ Fault
    /\ worker' = [worker EXCEPT ![o] = Ready(clock)]
    /\ late' = IF worker[o].pc = "sent" THEN late \cup {worker[o].id} ELSE late
    /\ UNCHANGED <<rows, last_id, inbox, handled, clock>>

DeliverLate(id) ==
    /\ id \in late
    /\ late' = late \ {id} /\ inbox' = inbox \cup {id}
    /\ UNCHANGED <<rows, last_id, worker, handled, clock, faults>>

(* acknowledge_claim: WHERE acknowledged=0 AND lease_owner=owner, whether  *)
(* or not the lease expired.  A lost claim is an error that ends the run;  *)
(* the next claim, of this run or another, begins with the clock.          *)
Holds(o, id) == ~rows[id].acknowledged /\ rows[id].lease_owner = o

AcknowledgeClaim(o) ==
    LET id == worker[o].id IN
    /\ worker[o].pc = "ok"
    /\ rows' = IF Holds(o, id)
               THEN [rows EXCEPT ![id] =
                       [@ EXCEPT !.acknowledged = TRUE,
                                 !.lease_owner = Nobody, !.lease_until = 0]]
               ELSE rows
    /\ worker' = [worker EXCEPT ![o] = Ready(clock)]
    /\ UNCHANGED <<last_id, late, inbox, handled, clock, faults>>

RetryDelay(attempts) ==
    LET delay == RetryBase * 2 ^ (attempts - 1)
    IN  IF delay < RetryMax THEN delay ELSE RetryMax

(* record_delivery_failure and fail_claim; `now` was read before the POST. *)
FailClaim(o) ==
    LET id  == worker[o].id
        row == rows[id]
    IN
    /\ worker[o].pc = "failed"
    /\ rows' = IF ~Holds(o, id) THEN rows
               ELSE IF row.attempts >= MaxAttempts
               THEN [rows EXCEPT ![id] =
                       [row EXCEPT !.lease_owner = Nobody, !.lease_until = 0,
                                   !.next_attempt_at = 0, !.dead_lettered = TRUE]]
               ELSE [rows EXCEPT ![id] =
                       [row EXCEPT !.lease_owner = Nobody, !.lease_until = 0,
                                   !.next_attempt_at =
                                      worker[o].now + RetryDelay(row.attempts)]]
    /\ worker' = [worker EXCEPT ![o] = Ready(clock)]
    /\ UNCHANGED <<last_id, late, inbox, handled, clock, faults>>

(* The operator's `ack`: refused while a lease is recorded, expired or not. *)
AcknowledgeEvent(id) ==
    /\ id \in Inserted
    /\ ~rows[id].acknowledged /\ rows[id].lease_owner = Nobody
    /\ rows' = [rows EXCEPT ![id] = [@ EXCEPT !.acknowledged = TRUE]]
    /\ handled' = handled \cup {id}
    /\ UNCHANGED <<last_id, worker, late, inbox, clock, faults>>

(* Mutant: an acknowledged event is requeued.                              *)
RequeueAcknowledged(id) ==
    /\ id \in Inserted /\ rows[id].dead_lettered
    /\ rows' = [rows EXCEPT ![id] =
                   [@ EXCEPT !.dead_lettered = FALSE, !.attempts = 0,
                             !.next_attempt_at = clock,
                             !.lease_owner = Nobody, !.lease_until = 0]]
    /\ UNCHANGED <<last_id, worker, late, inbox, handled, clock, faults>>

(* The operator gives a dead letter a fresh set of attempts, due from the  *)
(* time of the command.                                                    *)
RequeueDeadLetter(id) ==
    /\ id \in Inserted
    /\ ~rows[id].acknowledged /\ rows[id].dead_lettered
    /\ rows' = [rows EXCEPT ![id] =
                   [@ EXCEPT !.dead_lettered = FALSE, !.attempts = 0,
                             !.next_attempt_at = clock,
                             !.lease_owner = Nobody, !.lease_until = 0]]
    /\ UNCHANGED <<last_id, worker, late, inbox, handled, clock, faults>>

(* Time matters only while some lease or retry lies in the future; that    *)
(* and MaxFaults bound the clock.                                          *)
Tick ==
    /\ \E id \in Inserted :
          /\ ~rows[id].acknowledged
          /\ \/ rows[id].next_attempt_at > clock
             \/ rows[id].lease_until > clock
    /\ clock' = clock + 1
    /\ UNCHANGED <<rows, last_id, worker, late, inbox, handled, faults>>

Next ==
    \/ Insert
    \/ Tick
    \/ \E o \in Owners :
          \/ ReadClock(o) \/ ClaimAndSend(o)
          \/ Deliver(o) \/ Refuse(o) \/ GiveUp(o) \/ Crash(o)
          \/ AcknowledgeClaim(o) \/ FailClaim(o)
    \/ \E id \in Ids :
          \/ DeliverLate(id) \/ AcknowledgeEvent(id) \/ RequeueDeadLetter(id)

Spec == Init /\ [][Next]_vars

(* Time passes, a request that is not lost is answered, a process finishes *)
(* what it began, and somebody keeps starting the tool.                    *)
Fairness ==
    /\ WF_vars(Tick)
    /\ \A o \in Owners :
          WF_vars(\/ ReadClock(o) \/ ClaimAndSend(o)
                  \/ Deliver(o) \/ AcknowledgeClaim(o) \/ FailClaim(o))

FairSpec == Spec /\ Fairness

-----------------------------------------------------------------------------
(* Whatever crashes, times out, is retried or is answered late: an event   *)
(* that is marked acknowledged was stored by the receiver, unless the      *)
(* operator took it by hand ("must atomically store that key before        *)
(* returning 2xx", README.md).                                             *)
AcknowledgedIsStored ==
    \A id \in Ids : rows[id].acknowledged => id \in inbox \cup handled

(* A worker that slept through its lease cannot undo what its successor or *)
(* the operator recorded: no step of anybody touches a settled row again.  *)
AcknowledgedIsFinal ==
    [][\A id \in Ids : rows[id].acknowledged => rows'[id] = rows[id]]_vars

(* "SQLite leases prevent concurrent local workers from sending the same   *)
(* event" (README.md): two processes have the same event in hand only if   *)
(* one of them read the clock a whole lease before the other did, whoever  *)
(* waited between reading and claiming, crashed, gave up, requeued or      *)
(* acknowledged it in between.  The HTTP client gives up after a quarter   *)
(* of LEASE_SECONDS.                                                       *)
OneSenderPerEvent ==
    \A o, p \in Owners :
        o # p /\ InHand(o) /\ InHand(p) /\ worker[o].id = worker[p].id
          => \/ worker[o].now + Lease <= worker[p].now
             \/ worker[p].now + Lease <= worker[o].now

(* Of the two events of an outpoint the credit has the smaller id: no      *)
(* event is claimed for the first time before every older one was.         *)
Tried(id) == rows[id].attempts > 0 \/ rows[id].next_attempt_at > 0 \/ rows[id].dead_lettered

FirstAttemptsInOrder ==
    \A i, j \in Ids : i < j /\ Tried(j) => Tried(i) \/ i \in handled

(* "Events reaching the attempt limit move to a durable dead-letter state" *)
(* (README.md): an event that used up its attempts is not sent once more.  *)
AttemptLimitDeadLetters == \A id \in Ids : rows[id].attempts <= MaxAttempts

(* Every inserted event is eventually acknowledged or put before the       *)
(* operator as a dead letter, whatever happened to the workers before.     *)
EveryEventSettles ==
    \A id \in Ids :
        id \in Inserted ~> rows[id].acknowledged \/ rows[id].dead_lettered

=============================================================================
