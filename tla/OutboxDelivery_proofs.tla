------------------------- MODULE OutboxDelivery_proofs -------------------------
(***************************************************************************)
(* Proofs about OutboxDelivery for any number of owners and events and any *)
(* lease and retry settings.                                               *)
(***************************************************************************)
EXTENDS OutboxDelivery, TLAPS

(* A process that saw a success is at work on an event the receiver has.   *)
SuccessIsStored ==
    \A o \in Owners : worker[o].pc = "ok" => worker[o].id \in inbox

(* No reading of the clock is ahead of it.                                 *)
ReadingsPast == \A o \in Owners : worker[o].now <= clock

(* A row that no claim made with a reading before `end` can take.          *)
ClosedUntil(id, end) ==
    \/ rows[id].acknowledged \/ rows[id].dead_lettered
    \/ rows[id].lease_owner = Nobody /\ rows[id].next_attempt_at >= end
    \/ rows[id].lease_owner # Nobody /\ rows[id].lease_until >= end + Lease

(* A process with an event in hand still owns its lease, on a row that     *)
(* nobody put aside; or that lease has run out, and nobody has the row who *)
(* read the clock before it did, or can have it.                           *)
Owns(o) ==
    /\ rows[worker[o].id].lease_owner = o
    /\ rows[worker[o].id].lease_until = worker[o].now + Lease
    /\ ~rows[worker[o].id].dead_lettered

Lost(o) ==
    /\ worker[o].now + Lease <= clock
    /\ rows[worker[o].id].lease_owner # o
    /\ ClosedUntil(worker[o].id, worker[o].now + Lease)

LeaseHeld == \A o \in Owners : InHand(o) => Owns(o) \/ Lost(o)

(* A lease is only on a row with a counted attempt.                        *)
LeasedWasCounted ==
    \A id \in Ids : rows[id].lease_owner # Nobody => rows[id].attempts > 0

(* A row never claimed was acknowledged, if at all, by the operator, and   *)
(* rows that are not inserted were never claimed.                          *)
UntriedIsDue ==
    \A id \in Ids : rows[id].acknowledged => Tried(id) \/ id \in handled

TriedIsInserted == \A id \in Ids : Tried(id) => id \in Inserted

Stored == SuccessIsStored /\ AcknowledgedIsStored
Ordered == /\ LeasedWasCounted /\ UntriedIsDue
           /\ TriedIsInserted /\ FirstAttemptsInOrder

IInv == TypeOK /\ Stored /\ ReadingsPast /\ LeaseHeld /\ OneSenderPerEvent /\ Ordered

LEMMA DelayPositive ==
    ASSUME NEW n \in Nat \ {0}, n < MaxAttempts
    PROVE  RetryDelay(n) \in Nat
<1>1. n - 1 \in 0 .. MaxAttempts /\ RetryBase \in Nat /\ RetryMax \in Nat
  BY NumbersAssumption
<1>2. 2 ^ (n - 1) \in Nat
  BY <1>1, PowersAssumption
<1>3. \A p \in Nat : RetryBase * p \in Nat
  BY <1>1
<1> QED BY <1>1, <1>2, <1>3 DEF RetryDelay

(* What writing some columns of a row does to all of them: the provers see *)
(* one EXCEPT at a time.                                                   *)
ColumnNames == {"acknowledged", "dead_lettered", "attempts",
                "next_attempt_at", "lease_owner", "lease_until"}
Only(q, r, written) == \A c \in ColumnNames \ written : q[c] = r[c]

LEMMA ColumnsLeased ==
    ASSUME NEW r \in Columns, NEW o \in Owners \cup {Nobody}, NEW u \in Nat, NEW n \in Nat
    PROVE  LET q == [r EXCEPT !.lease_owner = o, !.lease_until = u, !.attempts = n]
           IN  /\ q \in Columns
               /\ q.lease_owner = o /\ q.lease_until = u /\ q.attempts = n
               /\ Only(q, r, {"lease_owner", "lease_until", "attempts"})
<1> USE DEF Columns, Only, ColumnNames
<1> DEFINE q1 == [r EXCEPT !.lease_owner = o]
<1>1. q1 \in Columns /\ q1.lease_owner = o /\ Only(q1, r, {"lease_owner"})
  BY NobodyAssumption
<1> HIDE DEF q1
<1> DEFINE q2 == [q1 EXCEPT !.lease_until = u]
<1>2. q2 \in Columns /\ q2.lease_until = u /\ Only(q2, q1, {"lease_until"})
  BY <1>1, NobodyAssumption
<1> HIDE DEF q2
<1> DEFINE q3 == [q2 EXCEPT !.attempts = n]
<1>3. q3 \in Columns /\ q3.attempts = n /\ Only(q3, q2, {"attempts"})
  BY <1>2, NobodyAssumption
<1> HIDE DEF q3
<1> QED BY <1>1, <1>2, <1>3 DEF q1, q2, q3

LEMMA ColumnsAcknowledged ==
    ASSUME NEW r \in Columns
    PROVE  LET q == [r EXCEPT !.acknowledged = TRUE, !.lease_owner = Nobody, !.lease_until = 0]
           IN  /\ q \in Columns
               /\ q.acknowledged = TRUE /\ q.lease_owner = Nobody /\ q.lease_until = 0
               /\ Only(q, r, {"acknowledged", "lease_owner", "lease_until"})
<1> USE DEF Columns, Only, ColumnNames
<1> DEFINE q1 == [r EXCEPT !.acknowledged = TRUE]
<1>1. q1 \in Columns /\ q1.acknowledged = TRUE /\ Only(q1, r, {"acknowledged"})
  BY NobodyAssumption
<1> HIDE DEF q1
<1> DEFINE q2 == [q1 EXCEPT !.lease_owner = Nobody]
<1>2. q2 \in Columns /\ q2.lease_owner = Nobody /\ Only(q2, q1, {"lease_owner"})
  BY <1>1, NobodyAssumption
<1> HIDE DEF q2
<1> DEFINE q3 == [q2 EXCEPT !.lease_until = 0]
<1>3. q3 \in Columns /\ q3.lease_until = 0 /\ Only(q3, q2, {"lease_until"})
  BY <1>2, NobodyAssumption
<1> HIDE DEF q3
<1> QED BY <1>1, <1>2, <1>3 DEF q1, q2, q3

LEMMA ColumnsDead ==
    ASSUME NEW r \in Columns
    PROVE  LET q == [r EXCEPT !.lease_owner = Nobody, !.lease_until = 0,
                              !.next_attempt_at = 0, !.dead_lettered = TRUE]
           IN  /\ q \in Columns
               /\ q.lease_owner = Nobody /\ q.lease_until = 0 /\ q.next_attempt_at = 0 /\ q.dead_lettered = TRUE
               /\ Only(q, r, {"lease_owner", "lease_until", "next_attempt_at", "dead_lettered"})
<1> USE DEF Columns, Only, ColumnNames
<1> DEFINE q1 == [r EXCEPT !.lease_owner = Nobody]
<1>1. q1 \in Columns /\ q1.lease_owner = Nobody /\ Only(q1, r, {"lease_owner"})
  BY NobodyAssumption
<1> HIDE DEF q1
<1> DEFINE q2 == [q1 EXCEPT !.lease_until = 0]
<1>2. q2 \in Columns /\ q2.lease_until = 0 /\ Only(q2, q1, {"lease_until"})
  BY <1>1, NobodyAssumption
<1> HIDE DEF q2
<1> DEFINE q3 == [q2 EXCEPT !.next_attempt_at = 0]
<1>3. q3 \in Columns /\ q3.next_attempt_at = 0 /\ Only(q3, q2, {"next_attempt_at"})
  BY <1>2, NobodyAssumption
<1> HIDE DEF q3
<1> DEFINE q4 == [q3 EXCEPT !.dead_lettered = TRUE]
<1>4. q4 \in Columns /\ q4.dead_lettered = TRUE /\ Only(q4, q3, {"dead_lettered"})
  BY <1>3, NobodyAssumption
<1> HIDE DEF q4
<1> QED BY <1>1, <1>2, <1>3, <1>4 DEF q1, q2, q3, q4

LEMMA ColumnsRetried ==
    ASSUME NEW r \in Columns, NEW t \in Nat
    PROVE  LET q == [r EXCEPT !.lease_owner = Nobody, !.lease_until = 0, !.next_attempt_at = t]
           IN  /\ q \in Columns
               /\ q.lease_owner = Nobody /\ q.lease_until = 0 /\ q.next_attempt_at = t
               /\ Only(q, r, {"lease_owner", "lease_until", "next_attempt_at"})
<1> USE DEF Columns, Only, ColumnNames
<1> DEFINE q1 == [r EXCEPT !.lease_owner = Nobody]
<1>1. q1 \in Columns /\ q1.lease_owner = Nobody /\ Only(q1, r, {"lease_owner"})
  BY NobodyAssumption
<1> HIDE DEF q1
<1> DEFINE q2 == [q1 EXCEPT !.lease_until = 0]
<1>2. q2 \in Columns /\ q2.lease_until = 0 /\ Only(q2, q1, {"lease_until"})
  BY <1>1, NobodyAssumption
<1> HIDE DEF q2
<1> DEFINE q3 == [q2 EXCEPT !.next_attempt_at = t]
<1>3. q3 \in Columns /\ q3.next_attempt_at = t /\ Only(q3, q2, {"next_attempt_at"})
  BY <1>2, NobodyAssumption
<1> HIDE DEF q3
<1> QED BY <1>1, <1>2, <1>3 DEF q1, q2, q3

LEMMA ColumnsRequeued ==
    ASSUME NEW r \in Columns, NEW t \in Nat
    PROVE  LET q == [r EXCEPT !.dead_lettered = FALSE, !.attempts = 0, !.next_attempt_at = t, !.lease_owner = Nobody, !.lease_until = 0]
           IN  /\ q \in Columns
               /\ q.dead_lettered = FALSE /\ q.attempts = 0 /\ q.next_attempt_at = t /\ q.lease_owner = Nobody /\ q.lease_until = 0
               /\ Only(q, r, {"dead_lettered", "attempts", "next_attempt_at", "lease_owner", "lease_until"})
<1> USE DEF Columns, Only, ColumnNames
<1> DEFINE q1 == [r EXCEPT !.dead_lettered = FALSE]
<1>1. q1 \in Columns /\ q1.dead_lettered = FALSE /\ Only(q1, r, {"dead_lettered"})
  BY NobodyAssumption
<1> HIDE DEF q1
<1> DEFINE q2 == [q1 EXCEPT !.attempts = 0]
<1>2. q2 \in Columns /\ q2.attempts = 0 /\ Only(q2, q1, {"attempts"})
  BY <1>1, NobodyAssumption
<1> HIDE DEF q2
<1> DEFINE q3 == [q2 EXCEPT !.next_attempt_at = t]
<1>3. q3 \in Columns /\ q3.next_attempt_at = t /\ Only(q3, q2, {"next_attempt_at"})
  BY <1>2, NobodyAssumption
<1> HIDE DEF q3
<1> DEFINE q4 == [q3 EXCEPT !.lease_owner = Nobody]
<1>4. q4 \in Columns /\ q4.lease_owner = Nobody /\ Only(q4, q3, {"lease_owner"})
  BY <1>3, NobodyAssumption
<1> HIDE DEF q4
<1> DEFINE q5 == [q4 EXCEPT !.lease_until = 0]
<1>5. q5 \in Columns /\ q5.lease_until = 0 /\ Only(q5, q4, {"lease_until"})
  BY <1>4, NobodyAssumption
<1> HIDE DEF q5
<1> QED BY <1>1, <1>2, <1>3, <1>4, <1>5 DEF q1, q2, q3, q4, q5

Untouched(id) == \A j \in Ids \ {id} : rows'[j] = rows[j]

(* The effect on the table of each action that writes it.                  *)
LEMMA ClaimEffect ==
    ASSUME TypeOK, NEW o \in Owners, NEW id \in Ids, ClaimAndSend(o)!(id)
    PROVE  /\ rows' \in [Ids -> Columns] /\ Untouched(id)
           /\ rows'[id].lease_owner = o
           /\ rows'[id].lease_until = worker[o].now + Lease
           /\ rows'[id].attempts = rows[id].attempts + 1
           /\ rows'[id].dead_lettered = rows[id].dead_lettered
           /\ rows'[id].acknowledged = rows[id].acknowledged
           /\ Only(rows'[id], rows[id], {"lease_owner", "lease_until", "attempts"})
<1> DEFINE q == [rows[id] EXCEPT !.lease_owner = o, !.lease_until = worker[o].now + Lease,
                                 !.attempts = rows[id].attempts + 1]
<1>1. rows[id] \in Columns /\ rows[id].attempts + 1 \in Nat /\ worker[o].now + Lease \in Nat
  BY NumbersAssumption DEF TypeOK, Columns, Worker
<1>2. q \in Columns /\ q.lease_owner = o /\ q.lease_until = worker[o].now + Lease
      /\ q.attempts = rows[id].attempts + 1
      /\ Only(q, rows[id], {"lease_owner", "lease_until", "attempts"})
  <2> DEFINE r == rows[id]  n == rows[id].attempts + 1  u == worker[o].now + Lease
  <2>1. r \in Columns /\ n \in Nat /\ u \in Nat /\ o \in Owners \cup {Nobody}
    BY <1>1
  <2> HIDE DEF r, n, u
  <2>2. LET p == [r EXCEPT !.lease_owner = o, !.lease_until = u, !.attempts = n]
        IN  /\ p \in Columns
            /\ p.lease_owner = o /\ p.lease_until = u /\ p.attempts = n
            /\ Only(p, r, {"lease_owner", "lease_until", "attempts"})
    BY <2>1, ColumnsLeased
  <2> QED BY <2>2 DEF r, n, u
<1>3. rows' = [rows EXCEPT ![id] = q]
  OBVIOUS
<1>4. q.dead_lettered = rows[id].dead_lettered /\ q.acknowledged = rows[id].acknowledged
  <2>1. {"dead_lettered", "acknowledged"} \subseteq
           ColumnNames \ {"lease_owner", "lease_until", "attempts"}
    BY DEF ColumnNames
  <2> HIDE DEF q
  <2>2. q["dead_lettered"] = rows[id]["dead_lettered"]
        /\ q["acknowledged"] = rows[id]["acknowledged"]
    BY <1>2, <2>1 DEF Only
  <2> QED BY <2>2
<1> HIDE DEF q
<1> QED BY <1>2, <1>3, <1>4 DEF TypeOK, Untouched

LEMMA AcknowledgeEffect ==
    ASSUME TypeOK, NEW o \in Owners, AcknowledgeClaim(o), Holds(o, worker[o].id)
    PROVE  LET id == worker[o].id
           IN  /\ rows' \in [Ids -> Columns] /\ Untouched(id)
               /\ rows'[id].acknowledged = TRUE /\ rows'[id].lease_owner = Nobody
               /\ Only(rows'[id], rows[id], {"acknowledged", "lease_owner", "lease_until"})
<1> DEFINE id == worker[o].id
           q == [rows[id] EXCEPT !.acknowledged = TRUE, !.lease_owner = Nobody,
                                 !.lease_until = 0]
<1>1. id \in Ids /\ rows[id] \in Columns
  BY DEF TypeOK, Worker
<1>2. q \in Columns /\ q.acknowledged = TRUE /\ q.lease_owner = Nobody
      /\ Only(q, rows[id], {"acknowledged", "lease_owner", "lease_until"})
  BY <1>1, ColumnsAcknowledged
<1>3. rows' = [rows EXCEPT ![id] = q]
  BY DEF AcknowledgeClaim
<1> HIDE DEF q, id
<1>4. /\ rows' \in [Ids -> Columns] /\ Untouched(id)
      /\ rows'[id].acknowledged = TRUE /\ rows'[id].lease_owner = Nobody
      /\ Only(rows'[id], rows[id], {"acknowledged", "lease_owner", "lease_until"})
  BY <1>1, <1>2, <1>3 DEF TypeOK, Untouched
<1> QED BY <1>4 DEF id

LEMMA FailEffect ==
    ASSUME TypeOK, LeasedWasCounted,
           NEW o \in Owners, FailClaim(o), Holds(o, worker[o].id)
    PROVE  LET id == worker[o].id
           IN  /\ rows' \in [Ids -> Columns] /\ Untouched(id)
               /\ rows'[id].lease_owner = Nobody
               /\ rows[id].attempts > 0
               /\ \/ rows'[id].dead_lettered
                  \/ rows'[id].next_attempt_at >= worker[o].now
               /\ Only(rows'[id], rows[id], {"lease_owner", "lease_until",
                                             "dead_lettered", "next_attempt_at"})
<1> DEFINE id == worker[o].id
           row == rows[id]
           due == worker[o].now + RetryDelay(row.attempts)
           dead == [row EXCEPT !.lease_owner = Nobody, !.lease_until = 0,
                               !.next_attempt_at = 0, !.dead_lettered = TRUE]
           retried == [row EXCEPT !.lease_owner = Nobody, !.lease_until = 0,
                                  !.next_attempt_at = due]
           written == {"lease_owner", "lease_until", "dead_lettered", "next_attempt_at"}
           Good(q) == /\ q \in Columns /\ q.lease_owner = Nobody /\ Only(q, row, written)
                      /\ q.dead_lettered \/ q.next_attempt_at >= worker[o].now
<1>1. /\ id \in Ids /\ worker[o].now \in Nat
      /\ row \in Columns /\ row.attempts \in Nat /\ MaxAttempts \in Nat
  BY NumbersAssumption DEF TypeOK, Worker, Columns
<1>2. row.attempts > 0
  BY <1>1, NobodyAssumption DEF Holds, LeasedWasCounted
<1>3. PICK q : Good(q) /\ rows' = [rows EXCEPT ![id] = q]
  <2>1. CASE row.attempts >= MaxAttempts
    <3>1. rows' = [rows EXCEPT ![id] = dead]
      BY <2>1 DEF FailClaim
    <3> HIDE DEF row
    <3>2. dead \in Columns /\ dead.lease_owner = Nobody /\ dead.dead_lettered = TRUE
          /\ Only(dead, row, {"lease_owner", "lease_until",
                              "next_attempt_at", "dead_lettered"})
      BY <1>1, ColumnsDead
    <3> HIDE DEF dead
    <3> QED BY <3>1, <3>2 DEF Only
  <2>2. CASE ~(row.attempts >= MaxAttempts)
    <3>1. rows' = [rows EXCEPT ![id] = retried]
      BY <2>2 DEF FailClaim
    <3>2. due \in Nat /\ due >= worker[o].now
      <4>1. RetryDelay(row.attempts) \in Nat
        BY <1>1, <1>2, <2>2, DelayPositive
      <4> QED BY <1>1, <4>1
    <3> HIDE DEF row, due
    <3>3. retried \in Columns /\ retried.lease_owner = Nobody /\ retried.next_attempt_at = due
          /\ Only(retried, row, {"lease_owner", "lease_until", "next_attempt_at"})
      BY <1>1, <3>2, ColumnsRetried
    <3> HIDE DEF retried
    <3> QED BY <3>1, <3>2, <3>3 DEF Only
  <2> QED BY <2>1, <2>2
<1> HIDE DEF id
<1>4. /\ rows' \in [Ids -> Columns] /\ Untouched(id)
      /\ rows'[id].lease_owner = Nobody /\ Only(rows'[id], row, written)
      /\ rows'[id].dead_lettered \/ rows'[id].next_attempt_at >= worker[o].now
  BY <1>1, <1>3 DEF TypeOK, Untouched
<1> QED BY <1>2, <1>4 DEF id

LEMMA RequeueEffect ==
    ASSUME TypeOK, NEW id \in Ids, RequeueDeadLetter(id)
    PROVE  /\ rows' \in [Ids -> Columns] /\ Untouched(id)
           /\ rows'[id].lease_owner = Nobody /\ rows'[id].next_attempt_at = clock
           /\ rows'[id].acknowledged = FALSE
<1> DEFINE q == [rows[id] EXCEPT !.dead_lettered = FALSE, !.attempts = 0,
                                 !.next_attempt_at = clock,
                                 !.lease_owner = Nobody, !.lease_until = 0]
<1>1. rows[id] \in Columns /\ clock \in Nat
  BY DEF TypeOK
<1>2. /\ q \in Columns /\ q.lease_owner = Nobody /\ q.next_attempt_at = clock
      /\ Only(q, rows[id], {"dead_lettered", "attempts", "next_attempt_at",
                            "lease_owner", "lease_until"})
  BY <1>1, ColumnsRequeued, Zenon
<1>3. rows' = [rows EXCEPT ![id] = q] /\ ~rows[id].acknowledged
  BY DEF RequeueDeadLetter
<1> HIDE DEF q
<1>4. rows[id].acknowledged \in BOOLEAN /\ q.acknowledged = rows[id].acknowledged
  BY <1>1, <1>2 DEF Columns, Only, ColumnNames
<1> QED BY <1>1, <1>2, <1>3, <1>4 DEF TypeOK, Untouched

LEMMA OperatorEffect ==
    ASSUME TypeOK, NEW id \in Ids, AcknowledgeEvent(id)
    PROVE  /\ rows' \in [Ids -> Columns] /\ Untouched(id)
           /\ Only(rows'[id], rows[id], {"acknowledged"})
           /\ ~rows[id].acknowledged /\ rows[id].lease_owner = Nobody
BY DEF AcknowledgeEvent, TypeOK, Columns, Only, ColumnNames, Untouched

(* An operation on a claim that is no longer held leaves the table alone.  *)
LEMMA LostClaim ==
    ASSUME NEW o \in Owners, AcknowledgeClaim(o) \/ FailClaim(o),
           ~Holds(o, worker[o].id)
    PROVE  UNCHANGED rows
BY DEF AcknowledgeClaim, FailClaim

LEMMA WorkerFacts ==
    ASSUME TypeOK, NEW o \in Owners
    PROVE  /\ worker[o].id \in Ids /\ worker[o].now \in Nat
           /\ Ready(clock) \in Worker /\ Ready(clock).pc = "ready"
<1>1. worker[o].id \in Ids /\ worker[o].now \in Nat
  BY DEF TypeOK, Worker
<1>2. 1 \in Ids
  BY <1>1, NumbersAssumption DEF Ids
<1> QED BY <1>1, <1>2 DEF Worker, Ready, TypeOK

LEMMA TypeStep ==
    ASSUME TypeOK, LeasedWasCounted, [Next]_vars
    PROVE  TypeOK'
<1> USE NumbersAssumption, NobodyAssumption DEF TypeOK, Fault
<1>1. CASE Insert
  BY <1>1 DEF Insert
<1>2. CASE Tick
  BY <1>2 DEF Tick
<1>3. ASSUME NEW o \in Owners, ClaimAndSend(o) PROVE TypeOK'
  <2> PICK id \in Ids : ClaimAndSend(o)!(id)
    BY <1>3 DEF ClaimAndSend
  <2>1. rows' \in [Ids -> Columns]
    BY ClaimEffect
  <2>2. worker' \in [Owners -> Worker]
    BY DEF Worker
  <2> QED BY <2>1, <2>2
<1>4. ASSUME NEW o \in Owners, Deliver(o) \/ Refuse(o) \/ GiveUp(o) PROVE TypeOK'
  BY <1>4 DEF Deliver, Refuse, GiveUp, Worker
<1>5. ASSUME NEW o \in Owners, Crash(o) PROVE TypeOK'
  BY <1>5, WorkerFacts DEF Crash
<1>6. ASSUME NEW o \in Owners, AcknowledgeClaim(o) PROVE TypeOK'
  <2>1. rows' \in [Ids -> Columns]
    BY <1>6, AcknowledgeEffect, LostClaim
  <2> QED BY <1>6, <2>1, WorkerFacts DEF AcknowledgeClaim
<1>7. ASSUME NEW o \in Owners, FailClaim(o) PROVE TypeOK'
  <2>1. rows' \in [Ids -> Columns]
    BY <1>7, FailEffect, LostClaim
  <2> QED BY <1>7, <2>1, WorkerFacts DEF FailClaim
<1>8. ASSUME NEW id \in Ids, DeliverLate(id) PROVE TypeOK'
  BY <1>8 DEF DeliverLate
<1>9. ASSUME NEW id \in Ids, AcknowledgeEvent(id) PROVE TypeOK'
  BY <1>9, OperatorEffect DEF AcknowledgeEvent
<1>10. ASSUME NEW id \in Ids, RequeueDeadLetter(id) PROVE TypeOK'
  <2>1. rows' \in [Ids -> Columns]
    BY <1>10, RequeueEffect
  <2>2. UNCHANGED <<last_id, worker, late, inbox, handled, clock, faults>>
    BY <1>10 DEF RequeueDeadLetter
  <2> QED BY <2>1, <2>2
<1>11. ASSUME NEW o \in Owners, ReadClock(o) PROVE TypeOK'
  BY <1>11, WorkerFacts DEF ReadClock
<1>12. CASE UNCHANGED vars
  BY <1>12 DEF vars
<1> QED BY <1>1, <1>2, <1>3, <1>4, <1>5, <1>6, <1>7, <1>8, <1>9, <1>10, <1>11, <1>12
        DEF Next

(* Readings are taken of the clock, which only goes forward.               *)
LEMMA ReadingStep ==
    ASSUME TypeOK, ReadingsPast, [Next]_vars
    PROVE  ReadingsPast'
<1>0. Ready(clock).now = clock /\ clock \in Nat
  BY DEF TypeOK, Ready
<1> SUFFICES ASSUME NEW p \in Owners PROVE worker'[p].now <= clock'
  BY DEF ReadingsPast
<1>1. worker[p].now \in Nat /\ worker[p].now <= clock
  BY WorkerFacts DEF ReadingsPast
<1>2. clock' = clock \/ clock' = clock + 1
  BY DEF Next, Insert, Tick, ReadClock, ClaimAndSend, Deliver, Refuse, GiveUp, Crash,
         AcknowledgeClaim, FailClaim, DeliverLate, AcknowledgeEvent, RequeueDeadLetter, vars
<1>3. ASSUME NEW o \in Owners, NEW pc, NEW id,
             \/ worker' = worker
             \/ worker' = [worker EXCEPT ![o] = Ready(clock)]
             \/ worker' = [worker EXCEPT ![o].pc = pc]
             \/ worker' = [worker EXCEPT ![o] = [pc |-> "sent", id |-> id, now |-> @.now]]
      PROVE  worker'[p].now <= clock'
  <2>1. worker'[p].now = worker[p].now \/ worker'[p].now = clock
    BY <1>0, <1>3 DEF TypeOK, Worker
  <2> QED BY <1>0, <1>1, <1>2, <2>1
<1>4. ASSUME NEW o \in Owners,
             \/ ReadClock(o) \/ ClaimAndSend(o) \/ Deliver(o) \/ Refuse(o)
             \/ GiveUp(o) \/ Crash(o) \/ AcknowledgeClaim(o) \/ FailClaim(o)
      PROVE  worker'[p].now <= clock'
  BY <1>3, <1>4 DEF ReadClock, ClaimAndSend, Deliver, Refuse, GiveUp, Crash,
                    AcknowledgeClaim, FailClaim
<1>5. CASE \/ Insert \/ Tick \/ UNCHANGED vars
           \/ \E id \in Ids : \/ DeliverLate(id) \/ AcknowledgeEvent(id)
                              \/ RequeueDeadLetter(id)
  <2>1. worker' = worker
    BY <1>5 DEF Insert, Tick, vars, DeliverLate, AcknowledgeEvent, RequeueDeadLetter
  <2> QED BY <1>3, <2>1
<1> QED BY <1>4, <1>5 DEF Next

(* What the receiver stored stays stored, and only acknowledge_claim after *)
(* a success, or the operator, acknowledges.                               *)
LEMMA StoredStep ==
    ASSUME TypeOK, LeasedWasCounted, Stored, [Next]_vars
    PROVE  Stored'
<1> USE DEF Stored, SuccessIsStored, AcknowledgedIsStored
<1>1. CASE Insert \/ Tick \/ UNCHANGED vars
  BY <1>1 DEF Insert, Tick, vars
<1>2. ASSUME NEW o \in Owners, ClaimAndSend(o) PROVE Stored'
  <2> PICK id \in Ids : ClaimAndSend(o)!(id)
    BY <1>2 DEF ClaimAndSend
  <2>1. \A j \in Ids : rows'[j].acknowledged = rows[j].acknowledged
    <3>1. "acknowledged" \in ColumnNames \ {"lease_owner", "lease_until", "attempts"}
      BY DEF ColumnNames
    <3>2. rows'[id]["acknowledged"] = rows[id]["acknowledged"]
      BY <3>1, ClaimEffect DEF Only
    <3> QED BY <3>2, ClaimEffect DEF Untouched
  <2>2. \A p \in Owners : worker'[p].pc = "ok" => worker'[p] = worker[p]
    BY DEF TypeOK, Worker
  <2> QED BY <2>1, <2>2
<1>3. ASSUME NEW o \in Owners,
             Deliver(o) \/ Refuse(o) \/ GiveUp(o)
      PROVE  Stored'
  <2>1. worker[o] \in Worker /\ UNCHANGED <<rows, handled>> /\ inbox \subseteq inbox'
    BY <1>3 DEF TypeOK, Deliver, Refuse, GiveUp
  <2>2. ASSUME NEW p \in Owners, worker'[p].pc = "ok"
        PROVE  worker'[p].id \in inbox'
    <3>1. CASE p # o
      BY <1>3, <2>1, <2>2, <3>1 DEF TypeOK, Deliver, Refuse, GiveUp
    <3>2. CASE p = o
      BY <1>3, <2>1, <2>2, <3>2 DEF TypeOK, Worker, Deliver, Refuse, GiveUp
    <3> QED BY <3>1, <3>2
  <2> QED BY <2>1, <2>2
<1>4. ASSUME NEW o \in Owners, Crash(o) PROVE Stored'
  BY <1>4, WorkerFacts DEF Crash, TypeOK
<1>5. ASSUME NEW o \in Owners, AcknowledgeClaim(o) PROVE Stored'
  <2>1. worker[o].id \in inbox /\ UNCHANGED <<inbox, handled>>
    BY <1>5 DEF AcknowledgeClaim
  <2>2. \A p \in Owners : worker'[p].pc = "ok" => worker'[p] = worker[p]
    BY <1>5, WorkerFacts DEF AcknowledgeClaim, TypeOK
  <2>3. \A j \in Ids : j # worker[o].id => rows'[j] = rows[j]
    BY <1>5, AcknowledgeEffect, LostClaim DEF Untouched
  <2> QED BY <2>1, <2>2, <2>3
<1>6. ASSUME NEW o \in Owners, FailClaim(o) PROVE Stored'
  <2>1. UNCHANGED <<inbox, handled>>
    BY <1>6 DEF FailClaim
  <2>2. \A p \in Owners : worker'[p].pc = "ok" => worker'[p] = worker[p]
    BY <1>6, WorkerFacts DEF FailClaim, TypeOK
  <2>3. \A j \in Ids : rows'[j].acknowledged = rows[j].acknowledged
    BY <1>6, FailEffect, LostClaim DEF Untouched, Only, ColumnNames
  <2> QED BY <2>1, <2>2, <2>3
<1>7. ASSUME NEW id \in Ids, DeliverLate(id) PROVE Stored'
  BY <1>7 DEF DeliverLate
<1>8. ASSUME NEW id \in Ids, AcknowledgeEvent(id) PROVE Stored'
  <2>1. handled' = handled \cup {id} /\ UNCHANGED <<worker, inbox>>
    BY <1>8 DEF AcknowledgeEvent
  <2> QED BY <1>8, <2>1, OperatorEffect DEF Untouched
<1>9. ASSUME NEW id \in Ids, RequeueDeadLetter(id) PROVE Stored'
  <2>1. UNCHANGED <<worker, inbox, handled>>
    BY <1>9 DEF RequeueDeadLetter
  <2> QED BY <1>9, <2>1, RequeueEffect DEF Untouched
<1>10. ASSUME NEW o \in Owners, ReadClock(o) PROVE Stored'
  BY <1>10, WorkerFacts DEF ReadClock, TypeOK
<1> QED BY <1>1, <1>2, <1>3, <1>4, <1>5, <1>6, <1>7, <1>8, <1>9, <1>10 DEF Next

(* A claim needs a row that is due and free, or whose lease ran out before *)
(* the reading it is made with: whoever lost the row lost it before that.  *)
LEMMA ClaimAfterLoss ==
    ASSUME TypeOK, ReadingsPast, NEW o \in Owners, NEW p \in Owners, p # o,
           NEW id \in Ids, NextDelivery(id, worker[o].now), worker[p].id = id,
           Owns(p) \/ Lost(p)
    PROVE  /\ worker[p].now + Lease <= worker[o].now
           /\ worker[p].now + Lease <= clock
<1>1. /\ worker[p].now + Lease \in Nat /\ worker[o].now \in Nat /\ clock \in Nat
      /\ worker[o].now <= clock /\ Lease \in Nat
      /\ rows[id].next_attempt_at \in Nat /\ rows[id].lease_until \in Nat
  BY WorkerFacts, NumbersAssumption DEF TypeOK, Columns, ReadingsPast
<1>2. /\ ~rows[id].acknowledged /\ ~rows[id].dead_lettered
      /\ rows[id].next_attempt_at <= worker[o].now
      /\ rows[id].lease_owner = Nobody \/ rows[id].lease_until <= worker[o].now
  BY DEF NextDelivery, Claimable
<1>3. CASE Owns(p)
  BY <1>1, <1>2, <1>3, NobodyAssumption DEF Owns
<1>4. CASE Lost(p)
  BY <1>1, <1>2, <1>4 DEF Lost, ClosedUntil
<1> QED BY <1>3, <1>4

(* A row that was lost stays closed to earlier readings, whoever claims,   *)
(* reports, requeues or acknowledges it.                                   *)
LEMMA LeaseStep ==
    ASSUME TypeOK, LeasedWasCounted, ReadingsPast, LeaseHeld, [Next]_vars
    PROVE  LeaseHeld'
<1> DEFINE Mine(o) == Owns(o) \/ Lost(o)
<1>0. \A o \in Owners : InHand(o) => Mine(o)
  BY DEF LeaseHeld
<1> USE DEF InHand
<1>a. SUFFICES ASSUME NEW p \in Owners, InHand(p)' PROVE Mine(p)'
  BY DEF LeaseHeld
<1> DEFINE end == worker[p].now + Lease
<1>n. /\ end \in Nat /\ clock \in Nat /\ Lease \in Nat /\ worker[p].id \in Ids
      /\ \A j \in Ids : rows[j].next_attempt_at \in Nat /\ rows[j].lease_until \in Nat
  BY WorkerFacts, NumbersAssumption DEF TypeOK, Columns
<1>c. ASSUME UNCHANGED <<rows, clock>>, worker'[p].id = worker[p].id,
             worker'[p].now = worker[p].now, InHand(p)
      PROVE  Mine(p)'
  BY <1>0, <1>c DEF Owns, Lost, ClosedUntil
<1>b. ASSUME NEW id \in Ids, Untouched(id), clock' = clock, worker'[p] = worker[p],
             worker[p].id # id
      PROVE  Mine(p)'
  BY <1>0, <1>a, <1>b, <1>n DEF Untouched, Owns, Lost, ClosedUntil
<1>1. CASE Insert \/ UNCHANGED vars
  BY <1>1, <1>a, <1>c DEF Insert, vars
<1>2. CASE Tick
  <2>1. UNCHANGED <<rows, worker>> /\ clock' = clock + 1
    BY <1>2 DEF Tick
  <2> QED BY <1>0, <1>a, <1>n, <2>1 DEF Owns, Lost, ClosedUntil
<1>3. ASSUME NEW o \in Owners, ClaimAndSend(o) PROVE Mine(p)'
  <2> PICK id \in Ids : ClaimAndSend(o)!(id)
    BY <1>3 DEF ClaimAndSend
  <2>0. /\ rows'[id].lease_owner = o /\ rows'[id].lease_until = worker[o].now + Lease
        /\ rows'[id].dead_lettered = rows[id].dead_lettered /\ ~rows[id].dead_lettered
        /\ Untouched(id) /\ clock' = clock
    BY ClaimEffect DEF NextDelivery, Claimable
  <2>1. CASE p = o
    <3>1. worker'[p].id = id /\ worker'[p].now = worker[p].now
      BY <2>1 DEF TypeOK, Worker
    <3> QED BY <2>0, <2>1, <3>1 DEF Owns
  <2>2. CASE p # o
    <3>1. worker'[p] = worker[p]
      BY <2>2 DEF TypeOK
    <3>2. CASE worker[p].id = id
      <4>1. Mine(p)
        BY <1>0, <1>a, <3>1
      <4>2. end <= worker[o].now /\ end <= clock
        BY <2>2, <3>2, <4>1, ClaimAfterLoss
      <4>3. worker[o].now \in Nat /\ o # Nobody
        BY WorkerFacts, NobodyAssumption
      <4> QED BY <1>n, <2>0, <2>2, <3>1, <3>2, <4>2, <4>3 DEF Lost, ClosedUntil
    <3>3. CASE worker[p].id # id
      BY <1>b, <2>0, <3>1, <3>3
    <3> QED BY <3>2, <3>3
  <2> QED BY <2>1, <2>2
<1>4. ASSUME NEW o \in Owners, Deliver(o) \/ Refuse(o) \/ GiveUp(o) PROVE Mine(p)'
  <2>1. UNCHANGED <<rows, clock>> /\ worker[o].pc # "ready"
    BY <1>4 DEF Deliver, Refuse, GiveUp
  <2>2. /\ worker'[p].id = worker[p].id /\ worker'[p].now = worker[p].now
        /\ p # o => worker'[p] = worker[p]
    BY <1>4 DEF Deliver, Refuse, GiveUp, TypeOK, Worker
  <2> QED BY <1>a, <1>c, <2>1, <2>2
<1>5. ASSUME NEW o \in Owners, Crash(o) \/ ReadClock(o) PROVE Mine(p)'
  <2>1. UNCHANGED <<rows, clock>> /\ worker' = [worker EXCEPT ![o] = Ready(clock)]
    BY <1>5 DEF Crash, ReadClock
  <2>2. worker'[p] = worker[p]
    BY <1>a, <2>1, WorkerFacts DEF TypeOK
  <2> QED BY <1>a, <1>c, <2>1, <2>2
<1>6. ASSUME NEW o \in Owners, AcknowledgeClaim(o) \/ FailClaim(o) PROVE Mine(p)'
  <2>1. /\ clock' = clock /\ worker' = [worker EXCEPT ![o] = Ready(clock)]
        /\ worker[o].pc # "ready"
    BY <1>6 DEF AcknowledgeClaim, FailClaim
  <2>2. worker'[p] = worker[p] /\ p # o
    BY <1>a, <2>1, WorkerFacts DEF TypeOK
  <2>3. CASE ~Holds(o, worker[o].id)
    BY <1>6, <1>a, <1>c, <2>1, <2>2, <2>3, LostClaim
  <2>4. CASE Holds(o, worker[o].id)
    <3>1. Untouched(worker[o].id) /\ worker[o].id \in Ids
      BY <1>6, <2>4, AcknowledgeEffect, FailEffect, WorkerFacts
    <3>2. CASE worker[p].id = worker[o].id
      <4> DEFINE id == worker[p].id
      <4>1. rows[id].lease_owner = o /\ ~rows[id].acknowledged /\ o # Nobody
        BY <2>4, <3>2, NobodyAssumption DEF Holds
      <4>2. Owns(o)
        BY <1>0, <2>1, <3>2, <4>1 DEF Lost
      <4>3. Lost(p)
        BY <1>0, <1>a, <2>2, <4>1 DEF Owns
      <4>4. /\ end <= clock /\ worker[o].now \in Nat
            /\ worker[o].now + Lease >= end + Lease
        BY <3>2, <4>1, <4>2, <4>3, WorkerFacts DEF Owns, Lost, ClosedUntil
      <4>5. worker[o].now >= end
        BY <1>n, <4>4
      <4>6. /\ rows'[id].lease_owner = Nobody
            /\ \/ rows'[id].acknowledged \/ rows'[id].dead_lettered
               \/ rows'[id].next_attempt_at >= worker[o].now
        BY <1>6, <2>4, <3>2, AcknowledgeEffect, FailEffect
      <4>7. rows'[id].next_attempt_at \in Nat
        <5>1. rows' \in [Ids -> Columns]
          BY <1>6, <2>4, AcknowledgeEffect, FailEffect
        <5> QED BY <1>n, <5>1 DEF Columns
      <4>8. ClosedUntil(id, end)'
        BY <1>n, <2>2, <4>4, <4>5, <4>6, <4>7 DEF ClosedUntil
      <4> QED BY <2>1, <2>2, <4>4, <4>6, <4>8, NobodyAssumption DEF Lost
    <3>3. CASE worker[p].id # worker[o].id
      BY <1>b, <2>1, <2>2, <3>1, <3>3
    <3> QED BY <3>2, <3>3
  <2> QED BY <2>3, <2>4
<1>7. ASSUME NEW id \in Ids, DeliverLate(id) PROVE Mine(p)'
  BY <1>7, <1>a, <1>c DEF DeliverLate
<1>8. ASSUME NEW id \in Ids, AcknowledgeEvent(id) PROVE Mine(p)'
  <2>1. UNCHANGED <<worker, clock>> /\ rows[id].lease_owner = Nobody /\ Untouched(id)
    BY <1>8, OperatorEffect DEF AcknowledgeEvent
  <2>2. CASE worker[p].id = id
    <3>1. Lost(p)
      BY <1>0, <1>a, <2>1, <2>2, NobodyAssumption DEF Owns
    <3>2. rows'[id].acknowledged /\ rows'[id].lease_owner = rows[id].lease_owner
      BY <1>8 DEF AcknowledgeEvent, TypeOK, Columns
    <3> QED BY <2>1, <2>2, <3>1, <3>2 DEF Lost, ClosedUntil
  <2>3. CASE worker[p].id # id
    BY <1>b, <2>1, <2>3
  <2> QED BY <2>2, <2>3
<1>9. ASSUME NEW id \in Ids, RequeueDeadLetter(id) PROVE Mine(p)'
  <2>1. UNCHANGED <<worker, clock>> /\ rows[id].dead_lettered /\ Untouched(id)
        /\ rows'[id].lease_owner = Nobody /\ rows'[id].next_attempt_at = clock
    BY <1>9, RequeueEffect DEF RequeueDeadLetter
  <2>2. CASE worker[p].id = id
    <3>1. Lost(p)
      BY <1>0, <1>a, <2>1, <2>2 DEF Owns
    <3> QED BY <1>n, <2>1, <2>2, <3>1, NobodyAssumption DEF Lost, ClosedUntil
  <2>3. CASE worker[p].id # id
    BY <1>b, <2>1, <2>3
  <2> QED BY <2>2, <2>3
<1> QED BY <1>1, <1>2, <1>3, <1>4, <1>5, <1>6, <1>7, <1>8, <1>9 DEF Next

(* A new sender comes only by a claim, and then every other process that   *)
(* has the event in hand has outlived its lease.                           *)
LEMMA SenderStep ==
    ASSUME TypeOK, ReadingsPast, LeaseHeld, OneSenderPerEvent, [Next]_vars
    PROVE  OneSenderPerEvent'
<1> USE DEF InHand
<1> DEFINE Same(o) == InHand(o)' => /\ InHand(o) /\ worker'[o].id = worker[o].id
                                    /\ worker'[o].now = worker[o].now
<1>1. CASE \A o \in Owners : Same(o)
  BY <1>1 DEF OneSenderPerEvent
<1>2. ASSUME NEW r \in Owners, ClaimAndSend(r) PROVE OneSenderPerEvent'
  <2> PICK id \in Ids : ClaimAndSend(r)!(id)
    BY <1>2 DEF ClaimAndSend
  <2>1. /\ worker'[r].id = id /\ worker'[r].now = worker[r].now
        /\ \A q \in Owners : q # r => worker'[q] = worker[q]
    BY DEF TypeOK, Worker
  <2>2. ASSUME NEW q \in Owners, q # r, InHand(q), worker[q].id = id
        PROVE  worker[q].now + Lease <= worker[r].now
    BY <2>2, ClaimAfterLoss DEF LeaseHeld
  <2> SUFFICES ASSUME NEW o \in Owners, NEW p \in Owners, o # p, InHand(o)', InHand(p)',
                      worker'[o].id = worker'[p].id
               PROVE  \/ worker'[o].now + Lease <= worker'[p].now
                      \/ worker'[p].now + Lease <= worker'[o].now
    BY DEF OneSenderPerEvent
  <2>3. CASE o = r
    <3>1. worker'[p] = worker[p] /\ InHand(p) /\ worker[p].id = id
      BY <2>1, <2>3
    <3> QED BY <2>1, <2>2, <2>3, <3>1
  <2>4. CASE p = r
    <3>1. worker'[o] = worker[o] /\ InHand(o) /\ worker[o].id = id
      BY <2>1, <2>4
    <3> QED BY <2>1, <2>2, <2>4, <3>1
  <2>5. CASE o # r /\ p # r
    <3>1. worker'[o] = worker[o] /\ worker'[p] = worker[p]
      BY <2>1, <2>5
    <3> QED BY <3>1 DEF OneSenderPerEvent
  <2> QED BY <2>3, <2>4, <2>5
<1>3. ASSUME NEW r \in Owners,
             \/ Deliver(r) \/ Refuse(r) \/ GiveUp(r) \/ Crash(r)
             \/ AcknowledgeClaim(r) \/ FailClaim(r) \/ ReadClock(r)
      PROVE  \A o \in Owners : Same(o)
  <2>1. CASE Deliver(r) \/ Refuse(r) \/ GiveUp(r)
    <3>1. /\ worker[r].pc # "ready"
          /\ \/ worker' = [worker EXCEPT ![r].pc = "ok"]
             \/ worker' = [worker EXCEPT ![r].pc = "failed"]
      BY <2>1 DEF Deliver, Refuse, GiveUp
    <3> QED BY <3>1 DEF TypeOK, Worker
  <2>2. CASE Crash(r) \/ AcknowledgeClaim(r) \/ FailClaim(r) \/ ReadClock(r)
    <3>1. worker' = [worker EXCEPT ![r] = Ready(clock)]
      BY <2>2 DEF Crash, AcknowledgeClaim, FailClaim, ReadClock
    <3> QED BY <3>1, WorkerFacts DEF TypeOK
  <2> QED BY <1>3, <2>1, <2>2
<1>4. CASE \/ Insert \/ Tick \/ UNCHANGED vars
           \/ \E id \in Ids : \/ DeliverLate(id) \/ AcknowledgeEvent(id)
                              \/ RequeueDeadLetter(id)
  <2>1. worker' = worker
    BY <1>4 DEF Insert, Tick, vars, DeliverLate, AcknowledgeEvent, RequeueDeadLetter
  <2> QED BY <1>1, <2>1
<1> QED BY <1>1, <1>2, <1>3, <1>4 DEF Next

(* The claim query takes due rows by next_attempt_at, then id: an untried  *)
(* row is due since 0, so it is taken before any untried row after it.     *)
LEMMA OrderStep ==
    ASSUME TypeOK, Ordered, [Next]_vars
    PROVE  Ordered'
<1> USE DEF Ordered
<1>a. \A j \in Ids : /\ rows[j] \in Columns
                     /\ rows[j].attempts \in Nat /\ rows[j].next_attempt_at \in Nat
  BY DEF TypeOK, Columns
<1>b. ASSUME \A j \in Ids : Tried(j)' <=> Tried(j),
             \A j \in Ids : rows'[j].lease_owner # Nobody => rows'[j].attempts > 0,
             \A j \in Ids : rows'[j].acknowledged =>
                              rows[j].acknowledged \/ Tried(j) \/ j \in handled',
             handled \subseteq handled', Inserted \subseteq Inserted'
      PROVE  Ordered'
  <2>1. LeasedWasCounted' /\ TriedIsInserted'
    BY <1>b DEF LeasedWasCounted, TriedIsInserted
  <2>2. UntriedIsDue'
    BY <1>b DEF UntriedIsDue
  <2>3. FirstAttemptsInOrder'
    BY <1>b DEF FirstAttemptsInOrder
  <2> QED BY <2>1, <2>2, <2>3
<1>c. ASSUME UNCHANGED rows, handled \subseteq handled', Inserted \subseteq Inserted'
      PROVE  Ordered'
  <2>1. \A j \in Ids : Tried(j)' <=> Tried(j)
    BY <1>c DEF Tried
  <2> QED BY <1>b, <1>c, <2>1 DEF LeasedWasCounted
<1>1. CASE Insert
  BY <1>1, <1>c DEF Insert, Inserted, TypeOK
<1>2. CASE Tick \/ UNCHANGED vars
  BY <1>2, <1>c DEF Tick, vars, Inserted
<1>3. ASSUME NEW o \in Owners, ClaimAndSend(o) PROVE Ordered'
  <2> PICK id \in Ids : ClaimAndSend(o)!(id)
    BY <1>3 DEF ClaimAndSend
  <2>1. UNCHANGED <<handled, Inserted>> /\ id \in Inserted
    BY DEF Inserted, NextDelivery
  <2>2. \A j \in Ids \ {id} : rows'[j] = rows[j] /\ (Tried(j)' <=> Tried(j))
    BY ClaimEffect DEF Untouched, Tried
  <2>3. rows'[id].attempts > 0 /\ Tried(id)'
    <3>1. rows'[id].attempts = rows[id].attempts + 1
      BY ClaimEffect
    <3> QED BY <1>a, <3>1 DEF Tried
  <2>4. LeasedWasCounted'
    BY <2>2, <2>3 DEF LeasedWasCounted
  <2>5. UntriedIsDue' /\ TriedIsInserted'
    BY <2>1, <2>2, <2>3 DEF UntriedIsDue, TriedIsInserted
  <2>6. ASSUME NEW i \in Ids, i < id, ~Tried(i), i \notin handled PROVE FALSE
    <3>1. ~Tried(id)
      BY <2>6 DEF FirstAttemptsInOrder
    <3>2. rows[i].next_attempt_at = 0 /\ rows[id].next_attempt_at = 0
      BY <1>a, <2>6, <3>1 DEF Tried
    <3>3. i \in Inserted
      BY <2>1, <2>6, NumbersAssumption DEF Inserted, Ids, TypeOK
    <3>4. Claimable(i, worker[o].now)
      <4>1. ~rows[i].acknowledged /\ ~rows[i].dead_lettered
        BY <2>6 DEF UntriedIsDue, Tried
      <4>2. rows[i].lease_owner = Nobody
        BY <1>a, <2>6 DEF LeasedWasCounted, Tried
      <4>3. worker[o].now \in Nat
        BY WorkerFacts
      <4> QED BY <3>2, <4>1, <4>2, <4>3 DEF Claimable, TypeOK
    <3>5. ClaimedBefore(id, i)
      BY <3>3, <3>4 DEF NextDelivery
    <3> QED BY <2>6, <3>2, <3>5, NumbersAssumption DEF ClaimedBefore, Ids
  <2>7. FirstAttemptsInOrder'
    BY <2>1, <2>2, <2>3, <2>6, NumbersAssumption DEF FirstAttemptsInOrder, Ids
  <2> QED BY <2>4, <2>5, <2>7
<1>4. ASSUME NEW o \in Owners, Deliver(o) \/ Refuse(o) \/ GiveUp(o) \/ Crash(o)
                                  \/ ReadClock(o)
      PROVE  Ordered'
  BY <1>4, <1>c DEF Deliver, Refuse, GiveUp, Crash, ReadClock, Inserted
<1>5. ASSUME NEW o \in Owners, AcknowledgeClaim(o) PROVE Ordered'
  <2> DEFINE id == worker[o].id
  <2>1. UNCHANGED <<handled, Inserted>>
    BY <1>5 DEF AcknowledgeClaim, Inserted
  <2>2. CASE ~Holds(o, id)
    BY <1>5, <1>c, <2>1, <2>2, LostClaim
  <2>3. CASE Holds(o, id)
    <3>1. Untouched(id) /\ rows'[id].lease_owner = Nobody
      BY <1>5, <2>3, AcknowledgeEffect
    <3>2. /\ rows'[id].attempts = rows[id].attempts
          /\ rows'[id].next_attempt_at = rows[id].next_attempt_at
          /\ rows'[id].dead_lettered = rows[id].dead_lettered
      <4>1. {"attempts", "next_attempt_at", "dead_lettered"} \subseteq
              ColumnNames \ {"acknowledged", "lease_owner", "lease_until"}
        BY DEF ColumnNames
      <4>2. Only(rows'[id], rows[id], {"acknowledged", "lease_owner", "lease_until"})
        BY <1>5, <2>3, AcknowledgeEffect
      <4>3. /\ rows'[id]["attempts"] = rows[id]["attempts"]
            /\ rows'[id]["next_attempt_at"] = rows[id]["next_attempt_at"]
            /\ rows'[id]["dead_lettered"] = rows[id]["dead_lettered"]
        BY <4>1, <4>2 DEF Only
      <4> QED BY <4>3
    <3>3. id \in Ids /\ Tried(id)
      BY <2>3, WorkerFacts, NobodyAssumption DEF Holds, LeasedWasCounted, Tried
    <3>4. \A j \in Ids : Tried(j)' <=> Tried(j)
      BY <3>1, <3>2 DEF Tried, Untouched
    <3> HIDE DEF id
    <3>5. \A j \in Ids : rows'[j].lease_owner # Nobody => rows'[j].attempts > 0
      BY <3>1 DEF Untouched, LeasedWasCounted
    <3>6. \A j \in Ids : rows'[j].acknowledged => rows[j].acknowledged \/ Tried(j)
      BY <3>1, <3>3 DEF Untouched
    <3> QED BY <1>b, <2>1, <3>4, <3>5, <3>6
  <2> QED BY <2>2, <2>3
<1>6. ASSUME NEW o \in Owners, FailClaim(o) PROVE Ordered'
  <2> DEFINE id == worker[o].id
  <2>1. UNCHANGED <<handled, Inserted>>
    BY <1>6 DEF FailClaim, Inserted
  <2>2. CASE ~Holds(o, id)
    BY <1>6, <1>c, <2>1, <2>2, LostClaim
  <2>3. CASE Holds(o, id)
    <3>1. Untouched(id) /\ rows'[id].lease_owner = Nobody /\ rows[id].attempts > 0
      BY <1>6, <2>3, FailEffect
    <3>2. rows'[id].attempts = rows[id].attempts
          /\ rows'[id].acknowledged = rows[id].acknowledged
      <4>1. {"attempts", "acknowledged"} \subseteq
              ColumnNames \ {"lease_owner", "lease_until",
                             "dead_lettered", "next_attempt_at"}
        BY DEF ColumnNames
      <4>2. Only(rows'[id], rows[id], {"lease_owner", "lease_until",
                                       "dead_lettered", "next_attempt_at"})
        BY <1>6, <2>3, FailEffect
      <4>3. /\ rows'[id]["attempts"] = rows[id]["attempts"]
            /\ rows'[id]["acknowledged"] = rows[id]["acknowledged"]
        BY <4>1, <4>2 DEF Only
      <4> QED BY <4>3
    <3>3. \A j \in Ids : Tried(j)' <=> Tried(j)
      BY <3>1, <3>2 DEF Tried, Untouched
    <3> HIDE DEF id
    <3>4. \A j \in Ids : rows'[j].lease_owner # Nobody => rows'[j].attempts > 0
      BY <3>1 DEF Untouched, LeasedWasCounted
    <3>5. \A j \in Ids : rows'[j].acknowledged => rows[j].acknowledged
      BY <3>1, <3>2 DEF Untouched
    <3> QED BY <1>b, <2>1, <3>3, <3>4, <3>5
  <2> QED BY <2>2, <2>3
<1>7. ASSUME NEW id \in Ids, DeliverLate(id) PROVE Ordered'
  BY <1>7, <1>c DEF DeliverLate, Inserted
<1>8. ASSUME NEW id \in Ids, AcknowledgeEvent(id) PROVE Ordered'
  <2>1. handled' = handled \cup {id} /\ UNCHANGED Inserted
    BY <1>8 DEF AcknowledgeEvent, Inserted
  <2>2. \A j \in Ids : /\ Tried(j)' <=> Tried(j)
                       /\ rows'[j].lease_owner = rows[j].lease_owner
                       /\ rows'[j].attempts = rows[j].attempts
    BY <1>8, <1>a DEF AcknowledgeEvent, TypeOK, Columns, Tried
  <2>3. \A j \in Ids : rows'[j].acknowledged => rows[j].acknowledged \/ j = id
    BY <1>8, OperatorEffect DEF Untouched
  <2> QED BY <1>b, <2>1, <2>2, <2>3 DEF LeasedWasCounted
<1>9. ASSUME NEW id \in Ids, RequeueDeadLetter(id) PROVE Ordered'
  <2>1. UNCHANGED <<handled, Inserted>> /\ Tried(id)
    BY <1>9 DEF RequeueDeadLetter, Inserted, Tried
  <2>2. /\ Untouched(id) /\ rows'[id].lease_owner = Nobody
        /\ rows'[id].next_attempt_at = clock /\ rows'[id].acknowledged = FALSE
    BY <1>9, RequeueEffect
  <2>3. \A j \in Ids : Tried(j)' <=> Tried(j)
    BY <2>1, <2>2 DEF Untouched, Tried, TypeOK
  <2> QED BY <1>b, <2>1, <2>2, <2>3 DEF Untouched, LeasedWasCounted
<1> QED BY <1>1, <1>2, <1>3, <1>4, <1>5, <1>6, <1>7, <1>8, <1>9 DEF Next

-----------------------------------------------------------------------------
LEMMA InitInv == Init => IInv
<1> SUFFICES ASSUME Init PROVE IInv
  OBVIOUS
<1>1. 1 \in Ids
  BY NumbersAssumption DEF Ids
<1>2. TypeOK
  <2>1. Ready(1) \in Worker
    BY <1>1 DEF Ready, Worker
  <2>2. [acknowledged |-> FALSE, dead_lettered |-> FALSE, attempts |-> 0,
         next_attempt_at |-> 0, lease_owner |-> Nobody, lease_until |-> 0] \in Columns
    BY DEF Columns
  <2> QED BY <2>1, <2>2, NumbersAssumption DEF Init, TypeOK
<1>3. \A o \in Owners : worker[o].pc = "ready" /\ worker[o].now = 1
  BY DEF Init, Ready
<1>4. \A id \in Ids : /\ rows[id].acknowledged = FALSE /\ rows[id].lease_owner = Nobody
                      /\ ~Tried(id)
  BY DEF Init, Tried
<1>5. Stored /\ LeaseHeld /\ OneSenderPerEvent
  BY <1>3, <1>4 DEF Stored, SuccessIsStored, AcknowledgedIsStored, LeaseHeld,
                       OneSenderPerEvent, InHand
<1>7. ReadingsPast
  <2>1. clock = 1
    BY DEF Init
  <2>2. \A o \in Owners : worker[o].now = clock
    BY <1>3, <2>1
  <2>3. clock <= clock
    BY <2>1
  <2> QED BY <2>2, <2>3 DEF ReadingsPast
<1>6. Ordered
  BY <1>4 DEF Ordered, LeasedWasCounted, UntriedIsDue, TriedIsInserted,
              FirstAttemptsInOrder
<1> QED BY <1>2, <1>5, <1>6, <1>7 DEF IInv

(* Spec keeps the inductive invariant: types, what success means, the      *)
(* leases, and the order of first claims.                                  *)
THEOREM DeliveryInvariant == Spec => []IInv
<1>1. IInv /\ [Next]_vars => IInv'
  BY TypeStep, StoredStep, ReadingStep, LeaseStep, SenderStep, OrderStep DEF IInv, Ordered
<1> QED BY InitInv, <1>1, PTL DEF Spec

(* Every column, worker and inbox entry keeps its type; retry times never  *)
(* go negative.                                                            *)
THEOREM TypeCorrect == Spec => []TypeOK
<1>1. IInv => TypeOK
  BY DEF IInv
<1> QED BY <1>1, DeliveryInvariant, PTL

(* deliver only acknowledges an event that the receiver stored, unless the *)
(* operator did: for any number of workers, crashes and lost answers.      *)
THEOREM NothingLost == Spec => []AcknowledgedIsStored
<1>1. IInv => AcknowledgedIsStored
  BY DEF IInv, Stored
<1> QED BY <1>1, DeliveryInvariant, PTL

(* The leases keep two senders of one event a whole lease apart.           *)
THEOREM LeaseExcludes == Spec => []OneSenderPerEvent
<1>1. IInv => OneSenderPerEvent
  BY DEF IInv
<1> QED BY <1>1, DeliveryInvariant, PTL

(* First deliveries are attempted in the order of the row ids.             *)
THEOREM FirstAttemptsOrdered == Spec => []FirstAttemptsInOrder
<1>1. IInv => FirstAttemptsInOrder
  BY DEF IInv, Ordered
<1> QED BY <1>1, DeliveryInvariant, PTL

(* No late worker, operator or requeue touches an acknowledged row.        *)
THEOREM AcknowledgedFinal == Spec => AcknowledgedIsFinal
<1> DEFINE Frozen == \A id \in Ids : rows[id].acknowledged => rows'[id] = rows[id]
<1>1. IInv /\ [Next]_vars => [Frozen]_vars
  <2> SUFFICES ASSUME IInv, Next, NEW j \in Ids, rows[j].acknowledged
               PROVE  rows'[j] = rows[j]
    OBVIOUS
  <2> USE DEF IInv, Ordered
  <2>1. CASE UNCHANGED rows
    BY <2>1
  <2>2. ASSUME NEW o \in Owners, ClaimAndSend(o) PROVE rows'[j] = rows[j]
    <3> PICK id \in Ids : ClaimAndSend(o)!(id)
      BY <2>2 DEF ClaimAndSend
    <3>1. ~rows[id].acknowledged
      BY DEF NextDelivery, Claimable
    <3> QED BY <3>1, ClaimEffect DEF Untouched
  <2>3. ASSUME NEW o \in Owners, AcknowledgeClaim(o) \/ FailClaim(o)
        PROVE  rows'[j] = rows[j]
    <3>1. Holds(o, worker[o].id) => worker[o].id # j
      BY DEF Holds
    <3> QED BY <2>3, <3>1, AcknowledgeEffect, FailEffect, LostClaim DEF Untouched
  <2>4. ASSUME NEW id \in Ids, AcknowledgeEvent(id) PROVE rows'[j] = rows[j]
    BY <2>4, OperatorEffect DEF Untouched
  <2>5. ASSUME NEW id \in Ids, RequeueDeadLetter(id) PROVE rows'[j] = rows[j]
    <3>1. ~rows[id].acknowledged
      BY <2>5 DEF RequeueDeadLetter
    <3> QED BY <2>5, <3>1, RequeueEffect DEF Untouched
  <2>6. (Insert \/ Tick \/ (\E o \in Owners : Deliver(o) \/ Refuse(o) \/ GiveUp(o)
           \/ Crash(o) \/ ReadClock(o)) \/ (\E id \in Ids : DeliverLate(id))) => UNCHANGED rows
    BY DEF Insert, Tick, Deliver, Refuse, GiveUp, Crash, ReadClock, DeliverLate
  <2> QED BY <2>1, <2>2, <2>3, <2>4, <2>5, <2>6 DEF Next
<1> QED BY <1>1, DeliveryInvariant, PTL DEF Spec, AcknowledgedIsFinal

=============================================================================
