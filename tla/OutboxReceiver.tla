---------------------------- MODULE OutboxReceiver ----------------------------
(***************************************************************************)
(* The webhook receiver: its SQLite inbox (src/outbox_receiver.rs) and the *)
(* handler of src/bin/tn10_outbox_receiver.rs, by processes that share the *)
(* database.  What the sender's worker sees of it is in OutboxDelivery.    *)
(***************************************************************************)
EXTENDS Integers

CONSTANTS
    Receivers,      \* processes
    Outpoints,      \* (transaction id, output index)
    Addresses,      \* TN10 addresses
    MaxSompi,       \* SQLite's largest INTEGER; small in TLC's instances
    MaxCrashes,     \* bound: processes killed
    Null            \* no row, no header, no answer yet, no version


VARIABLES
    version,        \* receiver_schema_meta: Null when there is no such table
    table,          \* receiver_inbox: of this program, of another, none
    inbox,          \* table receiver_inbox: key -> facts
    pc,             \* process -> where it is
    last,           \* the last request answered and the answer
    crashes

database == <<version, table, inbox>>
vars     == <<database, pc, last, crashes>>

Kinds == {"credit", "reverse"}
Keys == Kinds \X Outpoints
Facts == [schema_version : {1}, kind : Kinds, outpoint : Outpoints,
          amount : 1 .. MaxSompi, address : Addresses]

(* What a POST may carry: the key may not be that of the facts, and one    *)
(* field may be out of its range.                                          *)
Wellformed == [schema_version : {1}, id : {1}, event_key : Keys, kind : Kinds,
               outpoint : Outpoints, amount : 1 .. MaxSompi, address : Addresses]

Deliveries == Wellformed \cup
    UNION {{[d EXCEPT !.schema_version = 2], [d EXCEPT !.id = 0],
            [d EXCEPT !.kind = "test"], [d EXCEPT !.address = "other"],
            [d EXCEPT !.amount = 0], [d EXCEPT !.amount = MaxSompi + 1]} : d \in Wellformed}

ReceiverAssumption ==
    {MaxSompi, MaxCrashes} \subseteq Nat /\ Null \notin Nat \cup Facts

FactsOf(d) == [schema_version |-> d.schema_version, kind |-> d.kind,
               outpoint |-> d.outpoint, amount |-> d.amount, address |-> d.address]

Statuses == {"created", "ok", "conflict", "bad request"}

TypeOK ==
    /\ version \in {1, 2, Null} /\ table \in {"ours", "foreign", "none"}
    /\ inbox \in [Keys -> Facts \cup {Null}]
    /\ pc \in [Receivers -> {"off", "unversioned", "creating", "serving"}]
    /\ crashes \in 0 .. MaxCrashes

Init ==
    /\ version \in {Null, 1, 2} /\ table \in {"ours", "foreign", "none"}
    /\ version = 1 <=> table = "ours"
    /\ version = 2 => table = "foreign"
    /\ inbox = [k \in Keys |-> Null]
    /\ pc = [r \in Receivers |-> "off"]
    /\ last = Null /\ crashes = 0

-----------------------------------------------------------------------------
Goto(r, where) == pc' = [pc EXCEPT ![r] = where]

(* open: a database of another version is refused.                         *)
CheckVersion(r) ==
    /\ pc[r] = "off"
    /\ \/ version = 1 /\ Goto(r, "creating")
       \/ version = Null /\ Goto(r, "unversioned")
    /\ UNCHANGED <<database, last, crashes>>

(* Mutant: what another program left is not looked for.                    *)
CheckNothing(r) ==
    /\ pc[r] = "unversioned" /\ Goto(r, "creating")
    /\ UNCHANGED <<database, last, crashes>>

(* An inbox without a version, of an older program or just made by another *)
(* process, is refused.                                                    *)
CheckTable(r) ==
    /\ pc[r] = "unversioned"
    /\ Goto(r, IF table = "none" THEN "creating" ELSE "off")
    /\ UNCHANGED <<database, last, crashes>>

(* Both tables in one transaction that leaves alone what was made since;   *)
(* then the columns are looked at, which those of another program may pass.*)
CreateTables(r) ==
    /\ pc[r] = "creating"
    /\ table' = IF table = "none" THEN "ours" ELSE table
    /\ version' = IF version = Null THEN 1 ELSE version
    /\ \/ Goto(r, "serving")
       \/ table' = "foreign" /\ Goto(r, "off")
    /\ UNCHANGED <<inbox, last, crashes>>

(* Mutant: the key is not compared with the facts it should name.          *)
ValidUnkeyed(header, d) ==
    /\ d.schema_version = 1 /\ d.id > 0 /\ d.kind \in Kinds
    /\ d.amount \in 1 .. MaxSompi /\ d.address \in Addresses
    /\ header = d.event_key

Valid(header, d) ==
    /\ d.schema_version = 1 /\ d.id > 0 /\ d.kind \in Kinds
    /\ d.amount \in 1 .. MaxSompi /\ d.address \in Addresses
    /\ d.event_key = <<d.kind, d.outpoint>>
    /\ header = d.event_key

(* Mutant: a key that is there is a duplicate, whatever its facts.         *)
OutcomeByKey(d) == IF inbox[d.event_key] = Null THEN "created" ELSE "ok"

(* The sender's row id is not compared: a sender that lost its database    *)
(* numbers the same events anew.                                           *)
Outcome(d) ==
    IF inbox[d.event_key] = Null THEN "created"
    ELSE IF inbox[d.event_key] = FactsOf(d) THEN "ok" ELSE "conflict"

(* Mutant: the row is replaced.                                            *)
StoreLast(d) == inbox' = [inbox EXCEPT ![d.event_key] = FactsOf(d)]

Store(d) ==
    inbox' = IF inbox[d.event_key] = Null
             THEN [inbox EXCEPT ![d.event_key] = FactsOf(d)] ELSE inbox

(* receive: the lock and the transaction make one step of it.              *)
Receive(r, header, d) ==
    /\ pc[r] = "serving"
    /\ \/ /\ Valid(header, d)
          /\ last' = [delivery |-> d, status |-> Outcome(d)]
          /\ Store(d)
       \/ /\ ~Valid(header, d)
          /\ last' = [delivery |-> d, status |-> "bad request"]
          /\ UNCHANGED inbox
    /\ UNCHANGED <<version, table, pc, crashes>>

Kill(r) ==
    /\ pc[r] # "off" /\ Goto(r, "off")
    /\ crashes < MaxCrashes /\ crashes' = crashes + 1
    /\ UNCHANGED <<database, last>>

Next ==
    \E r \in Receivers :
        \/ CheckVersion(r) \/ CheckTable(r) \/ CreateTables(r) \/ Kill(r)
        \/ \E d \in Deliveries : \E header \in {d.event_key, Null} : Receive(r, header, d)

Spec == Init /\ [][Next]_vars

-----------------------------------------------------------------------------
(* A process serves only an inbox of its own version, although it checks   *)
(* and creates in separate steps and another process may do the same.      *)
OwnSchemaServed ==
    \A r \in Receivers : pc[r] = "serving" => version = 1 /\ table = "ours"

(* A 2xx answer means that the key's row holds the facts of the request: a *)
(* sender may count its event as delivered.  A key answered with a         *)
(* conflict holds other facts.                                             *)
AnswerTrue ==
    last # Null =>
        LET key == last.delivery.event_key IN
        /\ last.status \in {"created", "ok"} => inbox[key] = FactsOf(last.delivery)
        /\ last.status = "conflict" => inbox[key] \notin {Null, FactsOf(last.delivery)}

(* Every row is filed under the key of its own facts, so that an outpoint  *)
(* is credited and reversed once each.                                     *)
KeyNamesFacts ==
    \A k \in Keys : inbox[k] # Null => k = <<inbox[k].kind, inbox[k].outpoint>>

(* The first delivery wins: whatever is retried, repeated or contradicted, *)
(* and whichever process answers, a row never changes and never goes away. *)
RowsKept == \A k \in Keys : inbox[k] # Null => inbox'[k] = inbox[k]

FirstDeliveryStands == [][RowsKept]_vars
=============================================================================
