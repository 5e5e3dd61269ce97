--------------------------- MODULE WithdrawalLedger ---------------------------
(***************************************************************************)
(* The SQLite withdrawal ledger (src/withdrawal_ledger.rs).  Every         *)
(* operation is one IMMEDIATE transaction; one that returns Err rolls back *)
(* and is no step: its error conditions are the guards below.              *)
(***************************************************************************)
EXTENDS Integers

CONSTANTS
    Withdrawals,    \* (transaction id, output index) keys
    Terms,          \* destination and amount of an expectation
    Confirmations,  \* the required confirmations asked for
    MaxDaa,         \* largest DAA score; SQLite's largest INTEGER
    Null            \* SQL NULL

ASSUME TermsAssumption == Null \notin Terms
ASSUME NumbersAssumption ==
    /\ MaxDaa \in Nat /\ Null \notin Nat
    /\ Confirmations \subseteq Nat \ {0}

VARIABLE withdrawals    \* table withdrawals

Daa == 0 .. MaxDaa
States == {"unknown", "pending", "observed", "confirmed", "rejected"}

Row == [state : States, terms : Terms \cup {Null},
        required : Confirmations \cup {0},
        observed_block_daa : Daa \cup {Null}, last_checked_daa : Daa,
        confirmed_daa : Daa \cup {Null}, rejected_daa : Daa \cup {Null}]

NoRow == [state |-> "unknown", terms |-> Null, required |-> 0,
          observed_block_daa |-> Null, last_checked_daa |-> 0,
          confirmed_daa |-> Null, rejected_daa |-> Null]

TypeOK == withdrawals \in [Withdrawals -> Row]

Init == withdrawals = [w \in Withdrawals |-> NoRow]

Update(w, row) == withdrawals' = [withdrawals EXCEPT ![w] = row]

-----------------------------------------------------------------------------
(* Mutant: a restart registers the withdrawal anew over its row.           *)
RegisterAnew(w, terms, required) ==
    Update(w, [NoRow EXCEPT !.state = "pending", !.terms = terms, !.required = required])

(* The same terms again are accepted and change nothing.                   *)
Register(w, terms, required) ==
    \/ /\ withdrawals[w].state = "unknown"
       /\ Update(w, [NoRow EXCEPT !.state = "pending", !.terms = terms,
                                  !.required = required])
    \/ /\ withdrawals[w].terms = terms /\ withdrawals[w].required = required
       /\ UNCHANGED withdrawals

(* The destination output was seen, accepted at block_daa.  An error: on a *)
(* rejected row, or when the row saw the output at another block.          *)
CanObserve(w, virtual_daa, block_daa) ==
    /\ withdrawals[w].state \in {"pending", "observed", "confirmed"}
    /\ block_daa <= virtual_daa
    /\ withdrawals[w].observed_block_daa \in {Null, block_daa}

(* The value a column has, or else the one it is given: COALESCE.          *)
First(daa, otherwise) == IF daa # Null THEN daa ELSE otherwise

(* Mutant: the state is overwritten.                                       *)
ObserveAgain(w, virtual_daa, block_daa) ==
    /\ CanObserve(w, virtual_daa, block_daa)
    /\ Update(w, [withdrawals[w] EXCEPT
            !.state = "observed", !.observed_block_daa = block_daa,
            !.last_checked_daa = virtual_daa])

Observe(w, virtual_daa, block_daa) ==
    LET row == withdrawals[w] IN
    /\ CanObserve(w, virtual_daa, block_daa)
    /\ Update(w, [row EXCEPT
            !.state = IF row.state = "pending" THEN "observed" ELSE row.state,
            !.observed_block_daa = First(row.observed_block_daa, block_daa),
            !.last_checked_daa = virtual_daa])

(* Mutant: an answer older than the last one is taken.                     *)
CanAdvanceBack(w, virtual_daa) == withdrawals[w].state # "unknown"

(* `accepted` is "yes", "no", or "unknown" when the service has no such    *)
(* transaction.                                                            *)
CanAdvance(w, virtual_daa) ==
    /\ withdrawals[w].state # "unknown"
    /\ virtual_daa >= withdrawals[w].last_checked_daa

(* Mutants: one confirmation early, one late.                              *)
DeepEarly(row, virtual_daa) ==
    /\ row.observed_block_daa # Null
    /\ virtual_daa >= row.observed_block_daa
    /\ virtual_daa - row.observed_block_daa + 1 >= row.required
DeepLate(row, virtual_daa) ==
    /\ row.observed_block_daa # Null
    /\ virtual_daa >= row.observed_block_daa
    /\ virtual_daa - row.observed_block_daa > row.required

Deep(row, virtual_daa) ==
    /\ row.observed_block_daa # Null
    /\ virtual_daa >= row.observed_block_daa
    /\ virtual_daa - row.observed_block_daa >= row.required

Advanced(row, virtual_daa, accepted) ==
    IF row.state = "rejected" THEN row
    ELSE IF accepted = "no" /\ row.observed_block_daa # Null
    THEN [row EXCEPT !.state = "rejected", !.rejected_daa = virtual_daa,
                     !.last_checked_daa = virtual_daa]
    ELSE IF accepted = "yes" /\ Deep(row, virtual_daa)
    THEN [row EXCEPT !.state = "confirmed",
                     !.confirmed_daa = First(row.confirmed_daa, virtual_daa),
                     !.last_checked_daa = virtual_daa]
    ELSE [row EXCEPT !.last_checked_daa = virtual_daa]

Advance(w, virtual_daa, accepted) ==
    /\ CanAdvance(w, virtual_daa)
    /\ Update(w, Advanced(withdrawals[w], virtual_daa, accepted))

Next ==
    \E w \in Withdrawals :
        \/ \E terms \in Terms, required \in Confirmations : Register(w, terms, required)
        \/ \E virtual_daa, block_daa \in Daa : Observe(w, virtual_daa, block_daa)
        \/ \E virtual_daa \in Daa, accepted \in {"yes", "no", "unknown"} :
            Advance(w, virtual_daa, accepted)

Spec == Init /\ [][Next]_withdrawals

-----------------------------------------------------------------------------
WellFormed(row) ==
    /\ row.state \in {"unknown", "pending"}
          <=> row.observed_block_daa = Null
    /\ row.state = "rejected" <=> row.rejected_daa # Null
    /\ row.state = "confirmed" => row.confirmed_daa # Null
    /\ row.confirmed_daa # Null =>
          /\ row.state \in {"confirmed", "rejected"}
          /\ row.confirmed_daa - row.observed_block_daa >= row.required

(* The columns agree with one another: what was confirmed was seen first,  *)
(* and was as many confirmations deep as the row asks for, at every later  *)
(* time, although observation, confirmation and rejection are written by   *)
(* separate transactions with DAA scores of different polls.               *)
RowsWellFormed == \A w \in Withdrawals : WellFormed(withdrawals[w])

Status == [w \in Withdrawals |-> withdrawals[w].state]

Promise == INSTANCE WithdrawalLifecycle WITH status <- Status

(* The ledger keeps the promise, whatever order calls come in: no state is *)
(* skipped, none is left backwards, and a rejection is final.              *)
ImplementsLifecycle == Promise!Spec

Scores == {"observed_block_daa", "confirmed_daa", "rejected_daa"}

(* What was agreed at the first registration stays agreed when the program *)
(* is run again, and the scores at which the output was first seen, the    *)
(* withdrawal first confirmed and then rejected, stay once written: the    *)
(* audit trail of a rejection of a confirmed withdrawal is not lost.       *)
FactsFrozen ==
    [][\A w \in Withdrawals :
          LET old == withdrawals[w]
              new == withdrawals'[w]
          IN  old.state # "unknown" =>
                /\ new.terms = old.terms /\ new.required = old.required
                /\ \A c \in Scores : old[c] # Null => new[c] = old[c]
      ]_withdrawals
=============================================================================
