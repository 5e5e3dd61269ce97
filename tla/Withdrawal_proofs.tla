-------------------------- MODULE Withdrawal_proofs --------------------------
(***************************************************************************)
(* Proofs about withdrawals: first the ledger (WithdrawalLedger), for      *)
(* every set of withdrawals, terms and confirmations and every range of    *)
(* DAA scores; then its pollers (WithdrawalPoll), in any number, with      *)
(* faults and reorgs, whatever happens to the chain between the answers of *)
(* a poll.                                                                 *)
(***************************************************************************)
EXTENDS WithdrawalPoll, TLAPS

Inv == TypeOK /\ RowsWellFormed

-----------------------------------------------------------------------------
(* What writing some columns of a row does to all of them: the provers see *)
(* one EXCEPT at a time.                                                   *)
ColumnNames == {"state", "terms", "required", "observed_block_daa",
                "last_checked_daa", "confirmed_daa", "rejected_daa"}
Only(q, r, written) == \A c \in ColumnNames \ written : q[c] = r[c]

(* The four ways in which an operation writes several columns of a row.    *)
Registered(r, terms, required) ==
    [r EXCEPT !.state = "pending", !.terms = terms, !.required = required]
Seen(r, state, score, virtual) ==
    [r EXCEPT !.state = state, !.observed_block_daa = score, !.last_checked_daa = virtual]
Rejected(r, virtual) ==
    [r EXCEPT !.state = "rejected", !.rejected_daa = virtual, !.last_checked_daa = virtual]
Confirmed(r, confirmed, virtual) ==
    [r EXCEPT !.state = "confirmed", !.confirmed_daa = confirmed, !.last_checked_daa = virtual]

LEMMA RegisteredColumns ==
    ASSUME NEW r \in Row, NEW terms \in Terms, NEW required \in Confirmations
    PROVE  LET q == Registered(r, terms, required)
           IN  /\ q \in Row
               /\ q.state = "pending" /\ q.terms = terms /\ q.required = required
               /\ Only(q, r, {"state", "terms", "required"})
<1> USE DEF Row, States, Only, ColumnNames
<1> DEFINE q1 == [r EXCEPT !.state = "pending"]
<1>1. q1 \in Row /\ q1.state = "pending" /\ Only(q1, r, {"state"})
  OBVIOUS
<1> HIDE DEF q1
<1> DEFINE q2 == [q1 EXCEPT !.terms = terms]
<1>2. q2 \in Row /\ q2.terms = terms /\ Only(q2, q1, {"terms"})
  BY <1>1
<1> HIDE DEF q2
<1> DEFINE q3 == [q2 EXCEPT !.required = required]
<1>3. q3 \in Row /\ q3.required = required /\ Only(q3, q2, {"required"})
  BY <1>2
<1> HIDE DEF q3
<1> QED BY <1>1, <1>2, <1>3 DEF q1, q2, q3, Registered

LEMMA ObservedColumns ==
    ASSUME NEW r \in Row, NEW state \in States, NEW score \in Daa, NEW virtual \in Daa
    PROVE  LET q == Seen(r, state, score, virtual)
           IN  /\ q \in Row
               /\ q.state = state /\ q.observed_block_daa = score
               /\ q.last_checked_daa = virtual
               /\ Only(q, r, {"state", "observed_block_daa", "last_checked_daa"})
<1> USE DEF Row, Only, ColumnNames
<1> DEFINE q1 == [r EXCEPT !.state = state]
<1>1. q1 \in Row /\ q1.state = state /\ Only(q1, r, {"state"})
  OBVIOUS
<1> HIDE DEF q1
<1> DEFINE q2 == [q1 EXCEPT !.observed_block_daa = score]
<1>2. q2 \in Row /\ q2.observed_block_daa = score /\ Only(q2, q1, {"observed_block_daa"})
  BY <1>1
<1> HIDE DEF q2
<1> DEFINE q3 == [q2 EXCEPT !.last_checked_daa = virtual]
<1>3. q3 \in Row /\ q3.last_checked_daa = virtual /\ Only(q3, q2, {"last_checked_daa"})
  BY <1>2
<1> HIDE DEF q3
<1> QED BY <1>1, <1>2, <1>3 DEF q1, q2, q3, Seen

LEMMA RejectedColumns ==
    ASSUME NEW r \in Row, NEW virtual \in Daa
    PROVE  LET q == Rejected(r, virtual)
           IN  /\ q \in Row
               /\ q.state = "rejected" /\ q.rejected_daa = virtual
               /\ q.last_checked_daa = virtual
               /\ Only(q, r, {"state", "rejected_daa", "last_checked_daa"})
<1> USE DEF Row, States, Only, ColumnNames
<1> DEFINE q1 == [r EXCEPT !.state = "rejected"]
<1>1. q1 \in Row /\ q1.state = "rejected" /\ Only(q1, r, {"state"})
  OBVIOUS
<1> HIDE DEF q1
<1> DEFINE q2 == [q1 EXCEPT !.rejected_daa = virtual]
<1>2. q2 \in Row /\ q2.rejected_daa = virtual /\ Only(q2, q1, {"rejected_daa"})
  BY <1>1
<1> HIDE DEF q2
<1> DEFINE q3 == [q2 EXCEPT !.last_checked_daa = virtual]
<1>3. q3 \in Row /\ q3.last_checked_daa = virtual /\ Only(q3, q2, {"last_checked_daa"})
  BY <1>2
<1> HIDE DEF q3
<1> QED BY <1>1, <1>2, <1>3 DEF q1, q2, q3, Rejected

LEMMA ConfirmedColumns ==
    ASSUME NEW r \in Row, NEW confirmed \in Daa \cup {Null}, NEW virtual \in Daa
    PROVE  LET q == Confirmed(r, confirmed, virtual)
           IN  /\ q \in Row
               /\ q.state = "confirmed" /\ q.confirmed_daa = confirmed
               /\ q.last_checked_daa = virtual
               /\ Only(q, r, {"state", "confirmed_daa", "last_checked_daa"})
<1> USE DEF Row, States, Only, ColumnNames
<1> DEFINE q1 == [r EXCEPT !.state = "confirmed"]
<1>1. q1 \in Row /\ q1.state = "confirmed" /\ Only(q1, r, {"state"})
  OBVIOUS
<1> HIDE DEF q1
<1> DEFINE q2 == [q1 EXCEPT !.confirmed_daa = confirmed]
<1>2. q2 \in Row /\ q2.confirmed_daa = confirmed /\ Only(q2, q1, {"confirmed_daa"})
  BY <1>1
<1> HIDE DEF q2
<1> DEFINE q3 == [q2 EXCEPT !.last_checked_daa = virtual]
<1>3. q3 \in Row /\ q3.last_checked_daa = virtual /\ Only(q3, q2, {"last_checked_daa"})
  BY <1>2
<1> HIDE DEF q3
<1> QED BY <1>1, <1>2, <1>3 DEF q1, q2, q3, Confirmed

LEMMA CheckedColumns ==
    ASSUME NEW r \in Row, NEW virtual \in Daa
    PROVE  LET q == [r EXCEPT !.last_checked_daa = virtual]
           IN  /\ q \in Row /\ q.last_checked_daa = virtual
               /\ Only(q, r, {"last_checked_daa"})
BY DEF Row, Only, ColumnNames

-----------------------------------------------------------------------------
(* What one operation may do to the row it writes.                         *)
Moved(old, new) ==
    \/ new.state = old.state
    \/ old.state = "unknown" /\ new.state = "pending"
    \/ old.state = "pending" /\ new.state = "observed"
    \/ old.state = "observed" /\ new.state = "confirmed"
    \/ old.state \in {"observed", "confirmed"} /\ new.state = "rejected"

Frozen(old, new) ==
    old.state # "unknown" =>
        /\ new.terms = old.terms
        /\ new.required = old.required
        /\ old.observed_block_daa # Null => new.observed_block_daa = old.observed_block_daa
        /\ old.confirmed_daa # Null => new.confirmed_daa = old.confirmed_daa
        /\ old.rejected_daa # Null => new.rejected_daa = old.rejected_daa

Written(old, new) ==
    new \in Row /\ WellFormed(new) /\ Moved(old, new) /\ Frozen(old, new)

LEMMA NoRowFacts == NoRow \in Row /\ WellFormed(NoRow)
BY NumbersAssumption DEF NoRow, Row, States, Daa, WellFormed

LEMMA RegisterRow ==
    ASSUME Inv, NEW w \in Withdrawals, NEW terms \in Terms, NEW required \in Confirmations,
           Register(w, terms, required)
    PROVE  UNCHANGED withdrawals \/ \E new : Update(w, new) /\ Written(withdrawals[w], new)
<1>1. CASE UNCHANGED withdrawals
  BY <1>1
<1>2. CASE /\ withdrawals[w].state = "unknown"
           /\ Update(w, [NoRow EXCEPT !.state = "pending", !.terms = terms,
                                      !.required = required])
  <2> DEFINE new == Registered(NoRow, terms, required)
  <2>1. /\ new \in Row /\ new.state = "pending"
        /\ Only(new, NoRow, {"state", "terms", "required"})
    BY RegisteredColumns, NoRowFacts
  <2> HIDE DEF new
  <2>2. /\ new.observed_block_daa = Null /\ new.confirmed_daa = Null
        /\ new.rejected_daa = Null
    BY <2>1 DEF Only, ColumnNames, NoRow
  <2>3. Written(withdrawals[w], new)
    BY <1>2, <2>1, <2>2 DEF Written, WellFormed, Moved, Frozen
  <2>4. Update(w, new)
    BY <1>2 DEF new, Registered
  <2>5. QED  BY <2>3, <2>4
<1>3. QED  BY <1>1, <1>2 DEF Register

LEMMA ObserveRow ==
    ASSUME Inv, NEW w \in Withdrawals, NEW virtual_daa \in Daa, NEW block_daa \in Daa,
           Observe(w, virtual_daa, block_daa)
    PROVE  \E new : Update(w, new) /\ Written(withdrawals[w], new)
<1> DEFINE row == withdrawals[w]
           state == IF row.state = "pending" THEN "observed" ELSE row.state
           new == Seen(row, state, block_daa, virtual_daa)
<1>1. row \in Row /\ WellFormed(row)
  BY DEF Inv, TypeOK, RowsWellFormed
<1>2. /\ row.state \in {"pending", "observed", "confirmed"}
      /\ row.observed_block_daa \in {Null, block_daa}
  BY DEF Observe, CanObserve
<1>0. block_daa # Null
  BY NumbersAssumption DEF Daa
<1>3. Update(w, new)
  <2>1. First(row.observed_block_daa, block_daa) = block_daa
    BY <1>2 DEF First
  <2>2. QED  BY <2>1 DEF Observe, Seen
<1> HIDE DEF row
<1>4. state \in States
  BY <1>1 DEF Row, States
<1>5. state \in {"observed", "confirmed"} /\ (row.state # "pending" => state = row.state)
  BY <1>2
<1> HIDE DEF state
<1>6. /\ new \in Row /\ new.state = state /\ new.observed_block_daa = block_daa
      /\ Only(new, row, {"state", "observed_block_daa", "last_checked_daa"})
  BY <1>1, <1>4, ObservedColumns
<1> HIDE DEF new
<1>7. /\ new.terms = row.terms /\ new.required = row.required
      /\ new.confirmed_daa = row.confirmed_daa /\ new.rejected_daa = row.rejected_daa
  BY <1>6 DEF Only, ColumnNames
<1>9. WellFormed(new)
  <2>1. CASE row.state = "pending"
    <3>1. row.confirmed_daa = Null
      BY <1>1, <2>1 DEF WellFormed
    <3>2. QED
      BY <1>1, <2>1, <3>1, <1>5, <1>6, <1>7, <1>0 DEF WellFormed, state
  <2>2. CASE row.state # "pending"
    <3>1. row.observed_block_daa = block_daa
      BY <1>1, <1>2, <2>2 DEF WellFormed
    <3>2. QED
      BY <1>1, <2>2, <3>1, <1>2, <1>5, <1>6, <1>7, <1>0 DEF WellFormed
  <2>3. QED  BY <2>1, <2>2
<1>10. Moved(row, new)
  BY <1>2, <1>6 DEF Moved, state
<1>11. Frozen(row, new)
  BY <1>2, <1>6, <1>7 DEF Frozen
<1>12. QED
  BY <1>3, <1>6, <1>9, <1>10, <1>11 DEF Written, row

LEMMA AdvanceRow ==
    ASSUME Inv, NEW w \in Withdrawals, NEW virtual_daa \in Daa,
           NEW accepted \in {"yes", "no", "unknown"}, Advance(w, virtual_daa, accepted)
    PROVE  \E new : Update(w, new) /\ Written(withdrawals[w], new)
<1> DEFINE row == withdrawals[w]
           new == Advanced(row, virtual_daa, accepted)
<1>1. row \in Row /\ WellFormed(row) /\ row.state # "unknown"
  BY DEF Inv, TypeOK, RowsWellFormed, Advance, CanAdvance
<1>2. Update(w, new)
  BY DEF Advance
<1>3. virtual_daa # Null /\ virtual_daa \in Int
  BY NumbersAssumption DEF Daa
<1> HIDE DEF row
<1> DEFINE rejects  == accepted = "no" /\ row.observed_block_daa # Null
           confirms == accepted = "yes" /\ Deep(row, virtual_daa)
<1>4. CASE row.state = "rejected"
  <2>1. new = row
    BY <1>4 DEF Advanced
  <2>2. QED
    BY <1>1, <2>1, <1>2 DEF Written, Moved, Frozen, row
<1>5. CASE row.state # "rejected" /\ rejects
  <2> DEFINE q == Rejected(row, virtual_daa)
  <2>1. new = q
    BY <1>5 DEF Advanced, Rejected
  <2>2. /\ q \in Row /\ q.state = "rejected" /\ q.rejected_daa = virtual_daa
        /\ Only(q, row, {"state", "rejected_daa", "last_checked_daa"})
    BY <1>1, RejectedColumns
  <2> HIDE DEF q, new
  <2>3. /\ q.terms = row.terms /\ q.required = row.required
        /\ q.observed_block_daa = row.observed_block_daa
        /\ q.confirmed_daa = row.confirmed_daa
    BY <2>2 DEF Only, ColumnNames
  <2>4. WellFormed(q) /\ Moved(row, q) /\ Frozen(row, q)
    <3>1. row.state \in {"observed", "confirmed"}
      BY <1>1, <1>5 DEF WellFormed, Row, States
    <3>2. QED
      BY <1>1, <1>3, <1>5, <2>2, <2>3, <3>1 DEF WellFormed, Moved, Frozen
  <2>5. QED
    BY <1>2, <2>1, <2>2, <2>4 DEF Written, row
<1>6. CASE row.state # "rejected" /\ ~rejects /\ confirms
  <2> DEFINE confirmed == First(row.confirmed_daa, virtual_daa)
             q == Confirmed(row, confirmed, virtual_daa)
  <2>1. new = q
    BY <1>6 DEF Advanced, Confirmed
  <2>2. confirmed \in Daa \cup {Null}
    BY <1>1 DEF First, Row
  <2>3. confirmed # Null
    BY <1>3 DEF First
  <2>4. row.confirmed_daa # Null => confirmed = row.confirmed_daa
    BY DEF First
  <2>5. row.confirmed_daa = Null => confirmed = virtual_daa
    BY DEF First
  <2> HIDE DEF confirmed
  <2>6. /\ q \in Row /\ q.state = "confirmed" /\ q.confirmed_daa = confirmed
        /\ Only(q, row, {"state", "confirmed_daa", "last_checked_daa"})
    BY <1>1, <2>2, ConfirmedColumns
  <2> HIDE DEF q, new
  <2>7. /\ q.terms = row.terms /\ q.required = row.required
        /\ q.observed_block_daa = row.observed_block_daa
        /\ q.rejected_daa = row.rejected_daa
    BY <2>6 DEF Only, ColumnNames
  <2>8. /\ row.observed_block_daa # Null
        /\ virtual_daa - row.observed_block_daa >= row.required
    BY <1>6 DEF Deep
  <2>9. row.state \in {"observed", "confirmed"}
    BY <1>1, <1>6, <2>8 DEF WellFormed, Row, States
  <2>10. WellFormed(q)
    <3>1. q.confirmed_daa - q.observed_block_daa >= q.required
      <4>1. CASE row.confirmed_daa = Null
        BY <4>1, <2>5, <2>6, <2>7, <2>8
      <4>2. CASE row.confirmed_daa # Null
        BY <4>2, <1>1, <2>4, <2>6, <2>7 DEF WellFormed
      <4>3. QED  BY <4>1, <4>2
    <3>2. QED
      BY <1>1, <1>6, <2>3, <2>6, <2>7, <2>8, <3>1 DEF WellFormed
  <2>11. Moved(row, q) /\ Frozen(row, q)
    BY <2>4, <2>6, <2>7, <2>9 DEF Moved, Frozen
  <2>12. QED
    BY <1>2, <2>1, <2>6, <2>10, <2>11 DEF Written, row
<1>7. CASE row.state # "rejected" /\ ~rejects /\ ~confirms
  <2> DEFINE q == [row EXCEPT !.last_checked_daa = virtual_daa]
  <2>1. new = q
    BY <1>7 DEF Advanced
  <2>2. q \in Row /\ Only(q, row, {"last_checked_daa"})
    BY <1>1, CheckedColumns
  <2> HIDE DEF q, new
  <2>3. /\ q.terms = row.terms /\ q.required = row.required /\ q.state = row.state
        /\ q.observed_block_daa = row.observed_block_daa
        /\ q.confirmed_daa = row.confirmed_daa /\ q.rejected_daa = row.rejected_daa
    BY <2>2 DEF Only, ColumnNames
  <2>4. WellFormed(q) /\ Moved(row, q) /\ Frozen(row, q)
    BY <1>1, <2>3 DEF WellFormed, Moved, Frozen
  <2>5. QED
    BY <1>2, <2>1, <2>2, <2>4 DEF Written, row
<1>8. QED  BY <1>4, <1>5, <1>6, <1>7

(* Every step writes at most one row, and that row as Written says.        *)
LEMMA StepRow ==
    ASSUME Inv, [Next]_withdrawals
    PROVE  \/ UNCHANGED withdrawals
           \/ \E w \in Withdrawals : \E new :
                 Update(w, new) /\ Written(withdrawals[w], new)
BY RegisterRow, ObserveRow, AdvanceRow DEF Next

-----------------------------------------------------------------------------
LEMMA StepInv == Inv /\ [Next]_withdrawals => Inv'
<1> SUFFICES ASSUME Inv, [Next]_withdrawals PROVE Inv'
  OBVIOUS
<1>1. CASE UNCHANGED withdrawals
  BY <1>1 DEF Inv, TypeOK, RowsWellFormed
<1>2. CASE \E w \in Withdrawals : \E new :
               Update(w, new) /\ Written(withdrawals[w], new)
  <2>0. PICK w \in Withdrawals : \E new : Update(w, new) /\ Written(withdrawals[w], new)
    BY <1>2
  <2>1. PICK new : Update(w, new) /\ Written(withdrawals[w], new)
    BY <2>0
  <2>2. TypeOK'
    BY <2>1 DEF Inv, TypeOK, Update, Written
  <2>3. RowsWellFormed'
    <3> SUFFICES ASSUME NEW v \in Withdrawals PROVE WellFormed(withdrawals'[v])
      BY DEF RowsWellFormed
    <3>1. withdrawals'[v] = IF v = w THEN new ELSE withdrawals[v]
      BY <2>1 DEF Inv, TypeOK, Update
    <3>2. QED
      BY <2>1, <3>1 DEF Inv, RowsWellFormed, Written
  <2>4. QED  BY <2>2, <2>3 DEF Inv
<1>3. QED  BY <1>1, <1>2, StepRow

(* For every instance: every row has its type and its columns agree.       *)
THEOREM WithdrawalInvariant == Spec => []Inv
<1>1. Init => Inv
  BY NoRowFacts DEF Init, Inv, TypeOK, RowsWellFormed
<1>2. Inv /\ [Next]_withdrawals => Inv'
  BY StepInv
<1>3. QED
  BY <1>1, <1>2, PTL DEF Spec

(* Every row of the withdrawals table keeps its type.                      *)
THEOREM TypeCorrect == Spec => []TypeOK
BY WithdrawalInvariant, PTL DEF Inv

(* What was confirmed was seen first and is as deep as was asked for.      *)
THEOREM RowsAgree == Spec => []RowsWellFormed
BY WithdrawalInvariant, PTL DEF Inv

(* What was agreed never changes, nor do the scores at which the output    *)
(* was first seen, confirmed and rejected once they are written.           *)
THEOREM FactsNeverChange == Spec => FactsFrozen
<1>1. Inv /\ [Next]_withdrawals =>
        [\A w \in Withdrawals :
          LET old == withdrawals[w]
              new == withdrawals'[w]
          IN  old.state # "unknown" =>
                /\ new.terms = old.terms /\ new.required = old.required
                /\ \A c \in Scores : old[c] # Null => new[c] = old[c]
        ]_withdrawals
  <2> SUFFICES ASSUME Inv, [Next]_withdrawals,
                      NEW w \in Withdrawals, NEW new,
                      Update(w, new), Written(withdrawals[w], new),
                      NEW v \in Withdrawals
               PROVE  Frozen(withdrawals[v], withdrawals'[v])
    BY StepRow DEF Frozen, Scores
  <2>1. withdrawals'[v] = IF v = w THEN new ELSE withdrawals[v]
    BY DEF Inv, TypeOK, Update
  <2>2. CASE v = w
    BY <2>1, <2>2 DEF Written
  <2>3. CASE v # w
    BY <2>1, <2>3 DEF Frozen
  <2>4. QED  BY <2>2, <2>3
<1>2. QED
  BY <1>1, WithdrawalInvariant, PTL DEF Spec, FactsFrozen

(* The ledger implements the lifecycle an exchange is promised.            *)
THEOREM Refinement == Spec => ImplementsLifecycle
<1>1. Init => Promise!Init
  BY DEF Init, Promise!Init, NoRow, Status
<1>2. Inv /\ [Next]_withdrawals => [Promise!Next]_Status
  <2> SUFFICES ASSUME Inv, [Next]_withdrawals
               PROVE  Promise!Next \/ Status' = Status
    OBVIOUS
  <2> USE DEF Status
  <2>1. CASE UNCHANGED withdrawals
    BY <2>1
  <2>2. CASE \E w \in Withdrawals : \E new :
                 Update(w, new) /\ Written(withdrawals[w], new)
    <3>0. PICK w \in Withdrawals : \E new : Update(w, new) /\ Written(withdrawals[w], new)
      BY <2>2
    <3>1. PICK new : Update(w, new) /\ Written(withdrawals[w], new)
      BY <3>0
    <3>2. Status' = [Status EXCEPT ![w] = new.state]
      BY <3>1 DEF Inv, TypeOK, Update
    <3>3. Status[w] = withdrawals[w].state
      OBVIOUS
    <3>4. CASE new.state = withdrawals[w].state
      BY <3>2, <3>3, <3>4
    <3>5. CASE withdrawals[w].state = "unknown" /\ new.state = "pending"
      BY <3>2, <3>3, <3>5 DEF Promise!Next, Promise!Register, Promise!Move
    <3>6. CASE withdrawals[w].state = "pending" /\ new.state = "observed"
      BY <3>2, <3>3, <3>6 DEF Promise!Next, Promise!See, Promise!Move
    <3>7. CASE withdrawals[w].state = "observed" /\ new.state = "confirmed"
      BY <3>2, <3>3, <3>7 DEF Promise!Next, Promise!Confirm, Promise!Move
    <3>8. CASE /\ withdrawals[w].state \in {"observed", "confirmed"}
               /\ new.state = "rejected"
      BY <3>2, <3>3, <3>8 DEF Promise!Next, Promise!Reject, Promise!Move
    <3>9. QED
      BY <3>1, <3>4, <3>5, <3>6, <3>7, <3>8 DEF Written, Moved
  <2>3. QED  BY <2>1, <2>2, StepRow
<1>3. QED
  BY <1>1, <1>2, WithdrawalInvariant, PTL DEF Spec, ImplementsLifecycle, Promise!Spec

-----------------------------------------------------------------------------
(* The pollers.                                                            *)
row == withdrawals[Withdrawal]

Half(a) == DOMAIN a \notin {{}, Questions}

(* What the answers of a poll say of the chain as it is now: of any poll,  *)
(* and of one that is whole, as its chain never changed between two of its *)
(* answers; while it is half answered that chain is the present one.       *)
AnswersTrue(a, whole) ==
    /\ DOMAIN a \subseteq Questions
    /\ "daa" \in DOMAIN a => a["daa"] \in Daa /\ a["daa"] <= daa
    /\ "utxo" \in DOMAIN a =>
          /\ a["utxo"] \in Daa \cup {Null}
          /\ reorgs = 0 \/ (whole /\ Half(a)) => a["utxo"] \in {Null, block}
    /\ "accepted" \in DOMAIN a =>
          /\ a["accepted"] \in {"yes", "no", "unknown"}
          /\ a["accepted"] = "no" /\ whole /\ Half(a) => block = Null
          /\ a["accepted"] = "no" /\ whole /\ reorgs = 0 =>
                block = Null \/ ("daa" \in DOMAIN a /\ a["daa"] < block)
    /\ {"daa", "utxo"} \subseteq DOMAIN a /\ a["utxo"] # Null =>
          (a["daa"] - a["utxo"] >= Required => Buried \/ (~whole /\ reorgs > 0))

Whole(p) == p \notin torn

ChainTyped ==
    /\ daa \in Daa /\ block \in Daa \cup {Null} /\ (block # Null => block <= daa)
    /\ spent \in BOOLEAN /\ paid \in Terms /\ reorgs \in 0 .. MaxReorgs

ClientTyped ==
    /\ faults \in 0 .. MaxFaults /\ torn \subseteq Pollers
    /\ step \in [Pollers -> {"off", "poll", "advance"}]
    /\ answers = [p \in Pollers |-> answers[p]]
    /\ \A p \in Pollers : step[p] = "advance" => DOMAIN answers[p] = Questions

(* The row's columns against the chain.                                    *)
RowTrue(r, torn_rejection) ==
    /\ r.state # "unknown" => r.required = Required
    /\ r.observed_block_daa # Null =>
          /\ paid = Agreed
          /\ r.last_checked_daa >= r.observed_block_daa
          /\ reorgs = 0 => r.observed_block_daa = block
    /\ r.state = "confirmed" => paid = Agreed /\ (Buried \/ reorgs > 0)
    /\ r.state = "rejected" => reorgs > 0 \/ torn_rejection

PInv ==
    /\ Inv /\ ChainTyped /\ ClientTyped
    /\ misled \in BOOLEAN /\ RowTrue(row, misled)
    /\ \A p \in Pollers : AnswersTrue(answers[p], Whole(p))

-----------------------------------------------------------------------------
(* A registration writes the terms that all pollers agree on.              *)
LEMMA RegisterMine ==
    ASSUME PInv, Register(Withdrawal, Agreed, Required)
    PROVE  Inv' /\ RowTrue(row', misled)
<1> DEFINE n == withdrawals'[Withdrawal]
<1>1. Inv'
  <2>1. [Next]_withdrawals
    BY PollAssumption DEF Next
  <2>2. QED  BY <2>1, StepInv DEF PInv
<1>2. CASE UNCHANGED withdrawals
  BY <1>1, <1>2 DEF PInv, row, RowTrue
<1>3. CASE /\ row.state = "unknown"
           /\ Update(Withdrawal, Registered(NoRow, Agreed, Required))
  <2> DEFINE q == Registered(NoRow, Agreed, Required)
  <2>1. /\ q.state = "pending" /\ q.required = Required
        /\ Only(q, NoRow, {"state", "terms", "required"})
    BY RegisteredColumns, NoRowFacts, PollAssumption
  <2>2. n = q
    BY <1>3, PollAssumption DEF Update, PInv, Inv, TypeOK
  <2> HIDE DEF q, n
  <2>3. n.observed_block_daa = Null
    BY <2>1, <2>2 DEF Only, ColumnNames, NoRow
  <2>4. RowTrue(n, misled)
    BY <2>1, <2>2, <2>3 DEF RowTrue
  <2>5. QED  BY <1>1, <2>4 DEF n, row
<1>4. QED  BY <1>2, <1>3 DEF Register, Registered, row

(* An observation with true answers keeps the row true.                    *)
LEMMA ObserveMine ==
    ASSUME PInv, NEW a, NEW whole, AnswersTrue(a, whole), {"daa", "utxo"} \subseteq DOMAIN a,
           a["utxo"] # Null, Matches, Observe(Withdrawal, a["daa"], a["utxo"])
    PROVE  Inv' /\ RowTrue(row', misled)
<1> DEFINE n == withdrawals'[Withdrawal]
           state == IF row.state = "pending" THEN "observed" ELSE row.state
           q == Seen(row, state, a["utxo"], a["daa"])
<1>0. a["daa"] \in Daa /\ a["utxo"] \in Daa /\ row \in Row /\ WellFormed(row)
  BY PollAssumption DEF AnswersTrue, PInv, Inv, TypeOK, RowsWellFormed, row
<1>1. Inv'
  <2>1. [Next]_withdrawals
    BY <1>0, PollAssumption DEF Next
  <2>2. QED  BY <2>1, StepInv DEF PInv
<1>2. /\ row.state \in {"pending", "observed", "confirmed"}
      /\ a["utxo"] <= a["daa"]
  BY DEF Observe, CanObserve, row
<1>3. state \in States /\ (state # row.state => row.state = "pending" /\ state = "observed")
  BY <1>2 DEF States
<1>4. n = q
  <2>1. First(row.observed_block_daa, a["utxo"]) = a["utxo"]
    BY DEF Observe, CanObserve, First, row
  <2>2. QED
    BY <2>1, PollAssumption DEF Observe, Seen, Update, PInv, Inv, TypeOK, row
<1>5. /\ q.state = state /\ q.observed_block_daa = a["utxo"]
      /\ q.last_checked_daa = a["daa"]
      /\ Only(q, row, {"state", "observed_block_daa", "last_checked_daa"})
  BY <1>0, <1>3, ObservedColumns
<1> HIDE DEF q, state, n
<1>6. q.required = row.required
  BY <1>5 DEF Only, ColumnNames
<1>7. RowTrue(n, misled)
  BY <1>0, <1>2, <1>3, <1>4, <1>5, <1>6 DEF RowTrue, PInv, AnswersTrue, Matches, Daa
<1>8. QED  BY <1>1, <1>7 DEF n, row

(* Advancing with true answers keeps the row true: an answer "not accepted" *)
(* is older than the observation it would contradict, unless a reorg came   *)
(* or the poll is torn.                                                     *)
LEMMA AdvanceMine ==
    ASSUME PInv, NEW a, NEW whole, AnswersTrue(a, whole), DOMAIN a = Questions,
           Advance(Withdrawal, a["daa"], a["accepted"])
    PROVE  Inv' /\ RowTrue(row', misled \/ (~whole /\ row'.state = "rejected"))
<1> DEFINE n == withdrawals'[Withdrawal]
           virtual == a["daa"]
           q == Advanced(row, virtual, a["accepted"])
           told == misled \/ (~whole /\ n.state = "rejected")
<1>0. /\ virtual \in Daa /\ a["accepted"] \in {"yes", "no", "unknown"}
      /\ row \in Row /\ WellFormed(row)
  BY PollAssumption DEF AnswersTrue, PInv, Inv, TypeOK, RowsWellFormed, row, Questions
<1>1. Inv'
  <2>1. [Next]_withdrawals
    BY <1>0, PollAssumption DEF Next
  <2>2. QED  BY <2>1, StepInv DEF PInv
<1>2. row.state # "unknown" /\ virtual >= row.last_checked_daa
  BY DEF Advance, CanAdvance, row
<1>3. n = q
  BY PollAssumption DEF Advance, Update, PInv, Inv, TypeOK, row
<1>4. RowTrue(row, misled) /\ ChainTyped
  BY DEF PInv
<1>5. row.observed_block_daa \in Daa \cup {Null} /\ row.last_checked_daa \in Daa
  BY <1>0 DEF Row
<1> HIDE DEF n
<1>6. CASE row.state = "rejected"
  <2>1. n = row
    BY <1>3, <1>6 DEF Advanced
  <2>2. RowTrue(n, told)
    BY <1>4, <2>1 DEF RowTrue
  <2>3. QED  BY <1>1, <2>2 DEF n, row
<1>7. CASE /\ row.state # "rejected"
           /\ a["accepted"] = "no" /\ row.observed_block_daa # Null
  <2> DEFINE r == Rejected(row, virtual)
  <2>1. q = r
    BY <1>7 DEF Advanced, Rejected
  <2>2. /\ r.state = "rejected" /\ r.last_checked_daa = virtual
        /\ Only(r, row, {"state", "rejected_daa", "last_checked_daa"})
    BY <1>0, RejectedColumns
  <2> HIDE DEF r, q
  <2>3. r.observed_block_daa = row.observed_block_daa /\ r.required = row.required
    BY <2>2 DEF Only, ColumnNames
  <2>4. whole => reorgs > 0
    <3> SUFFICES ASSUME whole, reorgs = 0 PROVE FALSE
      BY <1>4, PollAssumption DEF ChainTyped
    <3>1. row.observed_block_daa = block /\ row.last_checked_daa >= block
      BY <1>4, <1>7 DEF RowTrue
    <3>2. virtual < block
      BY <1>7, <3>1 DEF AnswersTrue, Questions
    <3>3. block \in Daa
      BY <1>4, <1>7, <3>1 DEF ChainTyped
    <3>4. QED  BY <1>0, <1>2, <1>5, <3>1, <3>2, <3>3 DEF Daa
  <2>5. RowTrue(n, told)
    BY <1>0, <1>2, <1>3, <1>4, <1>5, <2>1, <2>2, <2>3, <2>4 DEF RowTrue, Daa
  <2>6. QED  BY <1>1, <2>5 DEF n, row
<1>8. CASE /\ row.state # "rejected"
           /\ ~(a["accepted"] = "no" /\ row.observed_block_daa # Null)
           /\ a["accepted"] = "yes" /\ Deep(row, virtual)
  <2> DEFINE first == First(row.confirmed_daa, virtual)
             r == Confirmed(row, first, virtual)
  <2>1. q = r
    BY <1>8 DEF Advanced, Confirmed
  <2>2. first \in Daa \cup {Null}
    BY <1>0 DEF First, Row
  <2> HIDE DEF first
  <2>3. /\ r.state = "confirmed" /\ r.last_checked_daa = virtual
        /\ Only(r, row, {"state", "confirmed_daa", "last_checked_daa"})
    BY <1>0, <2>2, ConfirmedColumns
  <2> HIDE DEF r, q
  <2>4. r.observed_block_daa = row.observed_block_daa /\ r.required = row.required
    BY <2>3 DEF Only, ColumnNames
  <2>5. /\ row.observed_block_daa # Null
        /\ virtual - row.observed_block_daa >= row.required
    BY <1>8 DEF Deep
  <2>6. reorgs > 0 \/ Buried
    <3>1. virtual <= daa /\ row.required = Required
      BY <1>2, <1>4 DEF AnswersTrue, Questions, RowTrue
    <3> SUFFICES ASSUME ~(reorgs > 0) PROVE Buried
      OBVIOUS
    <3>2. row.observed_block_daa = block
      BY <1>4, <2>5, PollAssumption DEF RowTrue, ChainTyped
    <3>3. daa \in Daa /\ block \in Daa /\ Required \in Nat
      BY <1>4, <2>5, <3>2, PollAssumption, NumbersAssumption DEF ChainTyped
    <3>4. QED  BY <1>0, <2>5, <3>1, <3>2, <3>3 DEF Buried, Daa
  <2>7. RowTrue(n, told)
    BY <1>0, <1>2, <1>3, <1>4, <1>5, <2>1, <2>3, <2>4, <2>5, <2>6 DEF RowTrue, Daa
  <2>8. QED  BY <1>1, <2>7 DEF n, row
<1>9. CASE /\ row.state # "rejected"
           /\ ~(a["accepted"] = "no" /\ row.observed_block_daa # Null)
           /\ ~(a["accepted"] = "yes" /\ Deep(row, virtual))
  <2> DEFINE r == [row EXCEPT !.last_checked_daa = virtual]
  <2>1. q = r
    BY <1>9 DEF Advanced
  <2>2. r.last_checked_daa = virtual /\ Only(r, row, {"last_checked_daa"})
    BY <1>0, CheckedColumns
  <2> HIDE DEF r, q
  <2>3. /\ r.observed_block_daa = row.observed_block_daa /\ r.required = row.required
        /\ r.state = row.state
    BY <2>2 DEF Only, ColumnNames
  <2>4. RowTrue(n, told)
    BY <1>0, <1>2, <1>3, <1>4, <1>5, <2>1, <2>2, <2>3 DEF RowTrue, Daa
  <2>5. QED  BY <1>1, <2>4 DEF n, row
<1>10. QED  BY <1>6, <1>7, <1>8, <1>9

-----------------------------------------------------------------------------
(* A poll with no answers yet says nothing.                                *)
LEMMA NoAnswersTrue == ASSUME NEW whole PROVE AnswersTrue(NoAnswers, whole)
BY DEF AnswersTrue, NoAnswers

LEMMA Bounds ==
    /\ MaxReorgs \in Nat /\ MaxFaults \in Nat /\ Required \in Nat
    /\ 1 \in Daa /\ Daa \subseteq Nat /\ Null \notin Nat
<1>1. {MaxReorgs, MaxFaults} \subseteq Nat
  BY PollAssumption
<1>2. QED  BY <1>1, PollAssumption, NumbersAssumption DEF Daa

LEMMA PInvInit == PollInit => PInv
<1> SUFFICES ASSUME PollInit PROVE PInv
  OBVIOUS
<1>1. Inv
  BY NoRowFacts DEF PollInit, Init, Inv, TypeOK, RowsWellFormed
<1>2. ChainTyped /\ misled \in BOOLEAN
  <2>1. spent \in BOOLEAN /\ misled \in BOOLEAN
    BY Zenon DEF PollInit
  <2>2. daa = 1 /\ block = Null /\ paid \in Terms /\ reorgs = 0
    BY DEF PollInit
  <2>3. reorgs \in 0 .. MaxReorgs
    BY <2>2, Bounds
  <2>4. QED  BY <2>1, <2>2, <2>3, Bounds DEF ChainTyped
<1>3. ClientTyped
  <2>1. step \in [Pollers -> {"off", "poll", "advance"}] /\ \A p \in Pollers : step[p] = "off"
    BY DEF PollInit
  <2>2. answers = [p \in Pollers |-> answers[p]] /\ torn \subseteq Pollers
    BY DEF PollInit
  <2>3. faults \in 0 .. MaxFaults
    BY Bounds DEF PollInit
  <2>4. QED  BY <2>1, <2>2, <2>3 DEF ClientTyped
<1>4. RowTrue(row, misled)
  BY PollAssumption DEF PollInit, Init, row, RowTrue, NoRow
<1>5. \A p \in Pollers : AnswersTrue(answers[p], Whole(p))
  BY NoAnswersTrue DEF PollInit
<1>6. QED  BY <1>1, <1>2, <1>3, <1>4, <1>5 DEF PInv

(* What a step of the chain does to what answers say of it: a change of    *)
(* the transaction tears the polls that are half answered.                 *)
LEMMA ChainStep ==
    ASSUME PInv, Chain
    PROVE  PInv'
<1>a. /\ Block /\ daa \in Daa /\ block \in Daa \cup {Null} /\ (block # Null => block <= daa)
      /\ reorgs \in Nat
  BY Bounds DEF PInv, ChainTyped, Chain, NewBlock, AcceptTransaction, DropTransaction,
                SpendOutput
<1>b. daa' = daa + 1 /\ daa' \in Daa /\ daa \in Nat
  BY <1>a, NumbersAssumption DEF Block, Daa
<1>c. UNCHANGED <<withdrawals, step, answers, faults, misled, paid>>
  BY <1>a DEF Block, client, Chain, NewBlock, AcceptTransaction, DropTransaction,
              SpendOutput
<1>d. \/ block' = block /\ torn' = torn /\ reorgs' = reorgs
      \/ torn' = torn \cup HalfAnswered /\ block = Null /\ block' = daa' /\ reorgs' = reorgs
      \/ torn' = torn \cup HalfAnswered /\ ~Buried /\ block' = Null /\ reorgs' = reorgs + 1
  BY <1>a, Bounds DEF Chain, NewBlock, AcceptTransaction, DropTransaction, SpendOutput, Buried,
                      Daa
<1>e. reorgs' \in 0 .. MaxReorgs /\ spent' \in BOOLEAN /\ paid' \in Terms
  <2>1. spent' \in BOOLEAN /\ paid' \in Terms
    BY <1>c DEF PInv, ChainTyped, Chain, NewBlock, AcceptTransaction, DropTransaction,
                SpendOutput
  <2>2. reorgs' \in 0 .. MaxReorgs
    BY Bounds DEF PInv, ChainTyped, Chain, NewBlock, AcceptTransaction, DropTransaction,
                  SpendOutput
  <2>3. QED  BY <2>1, <2>2
<1>2. ChainTyped'
  BY <1>a, <1>b, <1>d, <1>e, Bounds DEF ChainTyped
<1>3. Buried => Buried'
  BY <1>a, <1>b, <1>d, Bounds DEF Buried
<1>4. reorgs' = 0 => reorgs = 0 /\ (block' = block \/ (block = Null /\ block' = daa'))
  BY <1>a, <1>d
<1>5. reorgs > 0 => reorgs' > 0
  BY <1>a, <1>d
<1>6. RowTrue(row, misled)'
  <2>1. row' = row /\ paid' = paid /\ misled' = misled /\ RowTrue(row, misled)
    BY <1>c DEF PInv, row
  <2>4. row.observed_block_daa # Null /\ reorgs' = 0 => row.observed_block_daa = block'
    BY <2>1, <1>4 DEF RowTrue
  <2> HIDE DEF row
  <2>5. QED  BY <1>3, <1>5, <2>1, <2>4 DEF RowTrue
<1>7. ASSUME NEW p \in Pollers
      PROVE  AnswersTrue(answers[p], Whole(p))'
  <2>0. PICK a : a = answers[p]
    OBVIOUS
  <2>1. AnswersTrue(a, Whole(p)) /\ answers'[p] = a
    BY <1>c, <2>0 DEF PInv
  <2>2. PICK w, v : w = (p \notin torn) /\ v = (p \notin torn')
    OBVIOUS
  <2>3. v => w
    BY <1>d, <2>2
  <2>4. v /\ Half(a) => block' = block /\ reorgs' = reorgs
    BY <1>d, <2>0, <2>2 DEF Half, HalfAnswered
  <2>5. AnswersTrue(a, w)
    BY <2>1, <2>2 DEF Whole
  <2> DEFINE True == AnswersTrue(a, v)'
  <2>6. DOMAIN a \subseteq Questions
    BY <2>5 DEF AnswersTrue
  <2>7. "daa" \in DOMAIN a => a["daa"] \in Daa /\ a["daa"] <= daa' /\ a["daa"] < daa'
    <3>1. "daa" \in DOMAIN a => a["daa"] \in Nat /\ a["daa"] <= daa /\ a["daa"] \in Daa
      BY <2>5, Bounds DEF AnswersTrue
    <3>2. QED  BY <1>b, <3>1
  <2>8. "utxo" \in DOMAIN a =>
          /\ a["utxo"] \in Daa \cup {Null}
          /\ reorgs' = 0 \/ (v /\ Half(a)) => a["utxo"] \in {Null, block'}
    BY <1>4, <2>3, <2>4, <2>5 DEF AnswersTrue
  <2>9. "accepted" \in DOMAIN a =>
          /\ a["accepted"] \in {"yes", "no", "unknown"}
          /\ a["accepted"] = "no" /\ v /\ Half(a) => block' = Null
    BY <2>3, <2>4, <2>5 DEF AnswersTrue
  <2>10. "accepted" \in DOMAIN a /\ a["accepted"] = "no" /\ v /\ reorgs' = 0 =>
            block' = Null \/ ("daa" \in DOMAIN a /\ a["daa"] < block')
    <3> SUFFICES ASSUME "accepted" \in DOMAIN a, a["accepted"] = "no", v, reorgs' = 0,
                        block' # Null
                 PROVE  "daa" \in DOMAIN a /\ a["daa"] < block'
      OBVIOUS
    <3>1. reorgs = 0 /\ (block' = block \/ (block = Null /\ block' = daa'))
      BY <1>4
    <3>2. CASE block' = block
      BY <2>3, <2>5, <3>1, <3>2 DEF AnswersTrue
    <3>3. CASE block = Null /\ block' = daa'
      <4>1. ~Half(a)
        BY <2>4, <3>3
      <4>2. "daa" \in DOMAIN a
        BY <4>1 DEF Half, Questions
      <4>3. QED  BY <2>7, <3>3, <4>2
    <3>4. QED  BY <3>1, <3>2, <3>3
  <2>11. {"daa", "utxo"} \subseteq DOMAIN a /\ a["utxo"] # Null =>
          (a["daa"] - a["utxo"] >= Required => Buried' \/ (~v /\ reorgs' > 0))
    BY <1>3, <1>5, <2>3, <2>5 DEF AnswersTrue
  <2>12. AnswersTrue(a, v)'
    BY <2>6, <2>7, <2>8, <2>9, <2>10, <2>11 DEF AnswersTrue, Half
  <2>13. QED  BY <2>1, <2>2, <2>12 DEF Whole
<1>8. Inv' /\ ClientTyped' /\ misled' \in BOOLEAN
  <2>1. HalfAnswered \subseteq Pollers
    BY DEF HalfAnswered
  <2>2. torn' \subseteq Pollers
    BY <1>d, <2>1 DEF PInv, ClientTyped
  <2>3. Inv' /\ misled' \in BOOLEAN
    BY <1>c DEF PInv, Inv, TypeOK, RowsWellFormed
  <2>4. QED  BY <1>c, <2>2, <2>3 DEF PInv, ClientTyped
<1>9. QED  BY <1>2, <1>6, <1>7, <1>8 DEF PInv

-----------------------------------------------------------------------------
(* A step of a poller that leaves the chain alone: what is left to show is *)
(* that the row, and the answers it goes on with, are true.                *)
LEMMA PollerStep ==
    ASSUME PInv, UNCHANGED chain, NEW p \in Pollers, NEW a, NEW where,
           torn' = torn \/ torn' = torn \ {p},
           answers' = [answers EXCEPT ![p] = a], AnswersTrue(a, p \notin torn'),
           step' = [step EXCEPT ![p] = where], where \in {"off", "poll", "advance"},
           where = "advance" => DOMAIN a = Questions,
           faults' \in 0 .. MaxFaults, misled' \in BOOLEAN,
           Inv', RowTrue(row', misled')
    PROVE  PInv'
<1>1. ChainTyped' /\ RowTrue(row, misled)'
  BY DEF PInv, ChainTyped, chain, RowTrue, Buried
<1>2. ClientTyped'
  BY DEF PInv, ClientTyped
<1>3. ASSUME NEW o \in Pollers
      PROVE  AnswersTrue(answers[o], Whole(o))'
  <2>0. PICK w, b : w = (o \notin torn') /\ b = answers'[o]
    OBVIOUS
  <2>1. AnswersTrue(b, w)
    <3>1. CASE o = p
      BY <2>0, <3>1 DEF PInv, ClientTyped
    <3>2. CASE o # p
      BY <2>0, <3>2 DEF PInv, ClientTyped, Whole
    <3>3. QED  BY <3>1, <3>2
  <2>2. AnswersTrue(b, w)'
    BY <2>1 DEF AnswersTrue, chain, Buried, Half
  <2>3. QED  BY <2>0, <2>2 DEF Whole
<1>4. QED  BY <1>1, <1>2, <1>3 DEF PInv

LEMMA AskStep ==
    ASSUME PInv, NEW p \in Pollers, NEW question \in Questions, Ask(p, question)
    PROVE  PInv'
<1>1. PICK x \in Answer(question) :
         answers' = [answers EXCEPT ![p] =
            [q \in DOMAIN @ \cup {question} |-> IF q = question THEN x ELSE @[q]]]
  BY DEF Ask
<1>2. PICK a, w : a = answers[p] /\ w = (p \notin torn)
  OBVIOUS
<1>3. PICK b : b = [q \in DOMAIN a \cup {question} |-> IF q = question THEN x ELSE a[q]]
  OBVIOUS
<1>4. answers' = [answers EXCEPT ![p] = b]
  BY <1>1, <1>2, <1>3
<1>5. /\ step[p] = "poll" /\ question \notin DOMAIN a
      /\ UNCHANGED <<withdrawals, chain, step, faults, torn, misled>>
  BY <1>2 DEF Ask
<1>6. AnswersTrue(a, w)
  BY <1>2 DEF PInv, Whole
<1>7. /\ DOMAIN b = DOMAIN a \cup {question} /\ b[question] = x
      /\ \A q \in DOMAIN a : b[q] = a[q]
  BY <1>3, <1>5
<1>8. DOMAIN a = {} \/ Half(a)
  BY <1>5 DEF Half
<1>9. AnswersTrue(b, w)
  <2>1. ChainTyped
    BY DEF PInv
  <2>2. DOMAIN b \subseteq Questions
    BY <1>6, <1>7 DEF AnswersTrue
  <2>3. "daa" \in DOMAIN b => b["daa"] \in Daa /\ b["daa"] <= daa
    <3>1. question = "daa" => x = daa
      BY DEF Answer
    <3>2. QED  BY <1>6, <1>7, <2>1, <3>1, Bounds DEF AnswersTrue, ChainTyped
  <2>4. "utxo" \in DOMAIN b =>
          /\ b["utxo"] \in Daa \cup {Null}
          /\ reorgs = 0 \/ w => b["utxo"] \in {Null, block}
    <3>1. question = "utxo" => x \in {Null, block}
      BY DEF Answer
    <3>2. QED  BY <1>6, <1>7, <1>8, <2>1, <3>1 DEF AnswersTrue, ChainTyped
  <2>5. "accepted" \in DOMAIN b =>
          /\ b["accepted"] \in {"yes", "no", "unknown"}
          /\ b["accepted"] = "no" /\ w => block = Null
    <3>1. question = "accepted" =>
            x \in {"yes", "no", "unknown"} /\ (x = "no" => block = Null)
      BY DEF Answer
    <3>2. QED  BY <1>6, <1>7, <1>8, <3>1 DEF AnswersTrue
  <2>6. {"daa", "utxo"} \subseteq DOMAIN b /\ b["utxo"] # Null
            /\ b["daa"] - b["utxo"] >= Required => Buried \/ (~w /\ reorgs > 0)
    <3> SUFFICES ASSUME {"daa", "utxo"} \subseteq DOMAIN b, b["utxo"] # Null,
                        b["daa"] - b["utxo"] >= Required, reorgs = 0 \/ w
                 PROVE  Buried
      BY <2>1, Bounds DEF ChainTyped
    <3>1. b["utxo"] = block /\ block \in Daa
      BY <2>1, <2>4 DEF ChainTyped
    <3>2. b["daa"] \in Nat /\ daa \in Nat /\ block \in Nat /\ b["daa"] <= daa
      BY <2>1, <2>3, <3>1, Bounds DEF ChainTyped
    <3>3. daa - block >= Required /\ block # Null
      BY <3>1, <3>2, Bounds
    <3>4. QED  BY <3>3 DEF Buried
  <2>7. QED  BY <2>2, <2>3, <2>4, <2>5, <2>6 DEF AnswersTrue
<1>10. /\ faults' \in 0 .. MaxFaults /\ misled' = misled /\ misled \in BOOLEAN /\ Inv'
       /\ RowTrue(row', misled) /\ step' = [step EXCEPT ![p] = "poll"] /\ torn' = torn
  BY <1>5 DEF PInv, Inv, TypeOK, RowsWellFormed, row, ClientTyped
<1>11. misled' \in BOOLEAN /\ RowTrue(row', misled')
  BY <1>10
<1>12. AnswersTrue(b, p \notin torn')
  BY <1>2, <1>9, <1>10
<1>13. QED  BY <1>4, <1>5, <1>10, <1>11, <1>12, PollerStep

(* The four steps that leave the answers of a poll alone or forget them.   *)
LEMMA OtherPollerSteps ==
    ASSUME PInv, NEW p \in Pollers,
           StartPoller(p) \/ ObserveOutput(p) \/ AdvanceWithdrawal(p) \/ FailPoll(p)
    PROVE  PInv'
<1>0. UNCHANGED chain /\ faults' \in 0 .. MaxFaults
  <2>1. UNCHANGED chain
    BY DEF StartPoller, ObserveOutput, AdvanceWithdrawal, FailPoll
  <2>2. faults' = faults \/ (faults < MaxFaults /\ faults' = faults + 1)
    BY DEF StartPoller, ObserveOutput, AdvanceWithdrawal, FailPoll
  <2>3. QED  BY <2>1, <2>2, Bounds DEF PInv, ClientTyped
<1>1. PICK a, w : a = answers[p] /\ w = (p \notin torn)
  OBVIOUS
<1>2. AnswersTrue(a, w) /\ answers = [answers EXCEPT ![p] = a]
  BY <1>1 DEF PInv, ClientTyped, Whole
<1>3. UNCHANGED withdrawals => Inv' /\ RowTrue(row', misled)
  BY DEF PInv, Inv, TypeOK, RowsWellFormed, row
<1>4. misled \in BOOLEAN
  BY DEF PInv
<1>5. ASSUME Forget(p), NEW where \in {"off", "poll"}, Goto(p, where),
             misled' \in BOOLEAN, Inv', RowTrue(row', misled')
      PROVE  PInv'
  <2>1. AnswersTrue(NoAnswers, p \notin torn')
    BY NoAnswersTrue
  <2>2. /\ answers' = [answers EXCEPT ![p] = NoAnswers] /\ torn' = torn \ {p}
        /\ step' = [step EXCEPT ![p] = where]
        /\ where \in {"off", "poll", "advance"} /\ where # "advance"
    BY <1>5 DEF Forget, Goto
  <2>3. QED  BY <1>0, <1>5, <2>1, <2>2, PollerStep
<1>6. CASE StartPoller(p)
  <2>1. Inv' /\ RowTrue(row', misled)
    BY <1>6, RegisterMine DEF StartPoller
  <2>2. /\ answers' = [answers EXCEPT ![p] = a] /\ step' = [step EXCEPT ![p] = "poll"]
        /\ torn' = torn /\ misled' = misled
    BY <1>2, <1>6 DEF StartPoller, Goto
  <2>3. AnswersTrue(a, p \notin torn') /\ RowTrue(row', misled') /\ misled' \in BOOLEAN
    BY <1>1, <1>2, <1>4, <2>1, <2>2
  <2>4. QED  BY <1>0, <2>1, <2>2, <2>3, PollerStep
<1>7. CASE ObserveOutput(p)
  <2>1. step[p] = "poll" /\ DOMAIN a = Questions /\ misled' = misled
    BY <1>1, <1>7 DEF ObserveOutput
  <2>2. ASSUME Goto(p, "advance"), answers' = answers, torn' = torn,
               Inv', RowTrue(row', misled)
        PROVE  PInv'
    <3>1. /\ answers' = [answers EXCEPT ![p] = a]
          /\ step' = [step EXCEPT ![p] = "advance"]
      BY <1>2, <2>2 DEF Goto
    <3>2. AnswersTrue(a, p \notin torn') /\ RowTrue(row', misled') /\ misled' \in BOOLEAN
      BY <1>1, <1>2, <1>4, <2>1, <2>2
    <3>3. QED  BY <1>0, <2>1, <2>2, <3>1, <3>2, PollerStep
  <2>3. CASE /\ a["utxo"] = Null /\ Goto(p, "advance")
             /\ UNCHANGED <<withdrawals, answers, torn>>
    BY <1>3, <2>2, <2>3
  <2>4. CASE /\ a["utxo"] # Null /\ Matches /\ Observe(Withdrawal, a["daa"], a["utxo"])
             /\ Goto(p, "advance") /\ UNCHANGED <<answers, torn>>
    <3>1. Inv' /\ RowTrue(row', misled)
      BY <1>2, <2>1, <2>4, ObserveMine DEF Questions
    <3>2. QED  BY <2>2, <2>4, <3>1
  <2>5. CASE Goto(p, "off") /\ Forget(p) /\ UNCHANGED withdrawals
    <3>1. Inv' /\ RowTrue(row', misled') /\ misled' \in BOOLEAN
      BY <1>3, <1>4, <2>1, <2>5
    <3>2. QED  BY <1>5, <2>5, <3>1
  <2>6. QED  BY <1>1, <1>7, <2>3, <2>4, <2>5 DEF ObserveOutput
<1>8. CASE AdvanceWithdrawal(p)
  <2>1. step[p] = "advance" /\ DOMAIN a = Questions /\ Forget(p)
    BY <1>1, <1>8 DEF AdvanceWithdrawal, PInv, ClientTyped
  <2>2. PICK where \in {"off", "poll"} : Goto(p, where)
    BY <1>8 DEF AdvanceWithdrawal
  <2>3. CASE /\ Advance(Withdrawal, a["daa"], a["accepted"])
             /\ misled' = (misled \/ (p \in torn /\ State' = "rejected"))
    <3>1. Inv' /\ RowTrue(row', misled \/ (~w /\ row'.state = "rejected"))
      BY <1>2, <2>1, <2>3, AdvanceMine
    <3>2. misled' = (misled \/ (~w /\ row'.state = "rejected"))
      BY <1>1, <2>3 DEF State, row
    <3>3. misled' \in BOOLEAN
      BY <2>3, Zenon
    <3>4. RowTrue(row', misled')
      BY <3>1, <3>2
    <3>5. QED  BY <1>5, <2>1, <2>2, <3>1, <3>3, <3>4
  <2>4. CASE UNCHANGED <<withdrawals, misled>>
    <3>1. Inv' /\ RowTrue(row', misled') /\ misled' \in BOOLEAN
      BY <1>3, <1>4, <2>4
    <3>2. QED  BY <1>5, <2>1, <2>2, <3>1
  <2>5. QED  BY <1>1, <1>8, <2>3, <2>4 DEF AdvanceWithdrawal
<1>9. CASE FailPoll(p)
  <2>1. PICK where \in {"off", "poll"} : Goto(p, where)
    BY <1>9 DEF FailPoll
  <2>2. Forget(p) /\ UNCHANGED withdrawals /\ misled' = misled
    BY <1>9 DEF FailPoll
  <2>3. Inv' /\ RowTrue(row', misled') /\ misled' \in BOOLEAN
    BY <1>3, <1>4, <2>2
  <2>4. QED  BY <1>5, <2>1, <2>2, <2>3
<1>10. QED  BY <1>6, <1>7, <1>8, <1>9

LEMMA PInvStep ==
    ASSUME PInv, [PollNext]_all
    PROVE  PInv'
<1>1. CASE Chain
  BY <1>1, ChainStep
<1>2. CASE UNCHANGED all
  <2>1. UNCHANGED <<withdrawals, chain, step, answers, faults, torn, misled>>
    BY <1>2 DEF all, client
  <2>2. /\ ChainTyped' /\ ClientTyped' /\ Inv' /\ RowTrue(row, misled)'
        /\ misled' \in BOOLEAN
    BY <2>1 DEF PInv, ChainTyped, ClientTyped, Inv, TypeOK, RowsWellFormed, RowTrue, row,
                chain, Buried
  <2>3. \A o \in Pollers : AnswersTrue(answers[o], Whole(o))'
    BY <2>1 DEF PInv, AnswersTrue, chain, Buried, Half, Whole
  <2>4. QED  BY <2>2, <2>3 DEF PInv
<1>3. CASE \E p \in Pollers : Poll(p) \/ FailPoll(p)
  <2>1. PICK p \in Pollers : Poll(p) \/ FailPoll(p)
    BY <1>3
  <2>2. QED  BY <2>1, AskStep, OtherPollerSteps DEF Poll
<1>4. QED  BY <1>1, <1>2, <1>3 DEF PollNext

-----------------------------------------------------------------------------
(* For every number of pollers, faults and reorgs, and wherever the chain  *)
(* moves between the answers of a poll.                                    *)
THEOREM PollInvariant == PollSpec => []PInv
<1>1. PInv /\ [PollNext]_all => PInv'
  BY PInvStep
<1>2. QED  BY PInvInit, <1>1, PTL DEF PollSpec

(* The types, and that neither the ledger nor poll_withdrawal completes a  *)
(* withdrawal that was not paid as agreed, or that is not buried, unless a *)
(* reorg came: for poll_withdrawal, between its two answers.               *)
THEOREM PaidAsAgreed == PollSpec => []Consistent
<1>1. PInv => Consistent
  <2> SUFFICES ASSUME PInv PROVE Consistent
    OBVIOUS
  <2>1. PollTypeOK
    BY DEF PInv, Inv, ChainTyped, ClientTyped, AnswersTrue, PollTypeOK
  <2>2. ASSUME NEW p \in Pollers, poll_withdrawal(p)
        PROVE  paid = Agreed /\ (Buried \/ (p \in torn /\ reorgs > 0))
    <3>1. PICK a, w : a = answers[p] /\ w = (p \notin torn)
      OBVIOUS
    <3>2. AnswersTrue(a, w)
      BY <3>1 DEF PInv, Whole
    <3>3. /\ {"daa", "utxo"} \subseteq DOMAIN a /\ a["utxo"] # Null /\ Matches
          /\ a["daa"] - a["utxo"] >= Required
      BY <2>2, <3>1 DEF poll_withdrawal, confirm_withdrawal
    <3>4. Buried \/ (~w /\ reorgs > 0)
      BY <3>2, <3>3 DEF AnswersTrue
    <3>5. QED  BY <3>1, <3>3, <3>4 DEF Matches
  <2>3. State = "confirmed" => paid = Agreed /\ (Buried \/ reorgs > 0)
    BY DEF PInv, RowTrue, row, State
  <2>4. QED  BY <2>1, <2>2, <2>3 DEF Consistent, CompletedIsPaid
<1>2. QED  BY PollInvariant, <1>1, PTL

(* A withdrawal is rejected only after its transaction was dropped, or on  *)
(* answers of before and of after it was accepted.                         *)
THEOREM RejectedWithCause == PollSpec => []OnlyTornRejects
<1>1. PInv => OnlyTornRejects
  BY DEF PInv, RowTrue, row, OnlyTornRejects, State
<1>2. QED  BY PollInvariant, <1>1, PTL
=============================================================================
