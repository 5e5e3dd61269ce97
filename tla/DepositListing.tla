---------------------------- MODULE DepositListing ----------------------------
(***************************************************************************)
(* The deposit list of the HTTP API (list_deposits of                      *)
(* src/deposit_ledger.rs, list and export of src/integrator_api.rs): a     *)
(* client reads the ledger page by page, a request and a query each, with  *)
(* LIMIT and OFFSET, while the ingestion reconciles snapshots between the  *)
(* pages.  Of a row only what the query reads is here: whether it is       *)
(* stored, its state and its last_seen_daa.                                *)
(***************************************************************************)
EXTENDS Integers, FiniteSets

CONSTANTS
    Rows,           \* deposits, numbered as (tx_id, output_index) orders them
    MaxDaa,         \* bound: the virtual score
    ClampLimit,     \* the ledger's limit of a query (500)
    MaxOffset,      \* and the largest OFFSET it asks for (1000000)
    ExportMaxRows,  \* EXPORT_MAX_ROWS
    Limits,         \* limits clients ask for
    None            \* not in the table; no filter; no export yet

States == {"pending", "credited", "reversed"}
Row    == [state : States, last_seen_daa : 0 .. MaxDaa]

DepositListingAssumption ==
    /\ Rows \subseteq Nat /\ IsFiniteSet(Rows) /\ MaxDaa \in Nat /\ None \notin Row
    /\ Limits \subseteq Nat /\ MaxOffset \in Nat
    /\ {ClampLimit, ExportMaxRows} \subseteq Nat \ {0}

VARIABLES
    deposits,       \* row -> None or [state, last_seen_daa]
    reader,         \* the client: [limit, filter, offset, ended]
    read,           \* rows the client has read
    kept            \* ghost: rows no reconcile has touched since it began,
                    \* or none once a reconcile has sent a row back

vars == <<deposits, reader, read, kept>>

TypeOK ==
    /\ deposits \in [Rows -> Row \cup {None}]
    /\ read \subseteq Rows /\ kept \subseteq Rows

Stored  == {r \in Rows : deposits[r] # None}
Pending == {r \in Stored : deposits[r].state = "pending"}

(* A client begins on a ledger that has been filled for a while.           *)
Matches(r, table, filter) ==
    table[r] # None /\ filter \in {None, table[r].state}

Init ==
    /\ deposits \in [Rows -> Row \cup {None}]
    /\ reader \in [limit : Limits, filter : States \cup {None}, offset : {0}, ended : {FALSE}]
    /\ read = {}
    /\ kept = {r \in Rows : Matches(r, deposits, reader.filter)}

-----------------------------------------------------------------------------
(* reconcile, of any score, for nobody compares it with the last one: the  *)
(* rows observed are inserted or take the score; of the pending ones, the  *)
(* confirmed become credited and the disappeared are reversed, and keep    *)
(* their last_seen_daa.  Rows that are confirmed again, or disappear       *)
(* later, stay as they are.                                                *)
Seen(r, score) ==
    IF deposits[r] = None THEN [state |-> "pending", last_seen_daa |-> score]
                          ELSE [deposits[r] EXCEPT !.last_seen_daa = score]

Decided(row, state) == IF row.state = "pending" THEN [row EXCEPT !.state = state] ELSE row

(* A snapshot of an older score, as another server may give, sends a row   *)
(* that is stored back in the order.                                       *)
Backward(score, observed) ==
    \E r \in observed \cap Stored : deposits[r].last_seen_daa > score

Reconcile(score, observed, confirmed, disappeared) ==
    /\ ~reader.ended
    /\ LET seen == [r \in Rows |-> IF r \in observed THEN Seen(r, score) ELSE deposits[r]]
       IN  deposits' = [r \in Rows |->
             CASE r \in confirmed   -> Decided(seen[r], "credited")
               [] r \in disappeared -> Decided(seen[r], "reversed")
               [] OTHER             -> seen[r]]
    /\ kept' = IF Backward(score, observed) THEN {} ELSE kept \ observed
    /\ UNCHANGED <<reader, read>>

(* A credited deposit is reversed on evidence of a reorganisation.         *)
reverse_credited_on_reorg(r) ==
    /\ ~reader.ended /\ deposits[r] # None /\ deposits[r].state = "credited"
    /\ deposits' = [deposits EXCEPT ![r].state = "reversed"]
    /\ UNCHANGED <<reader, read, kept>>

-----------------------------------------------------------------------------
(* Mutant: the oldest first.                                               *)
OldestFirst(a, b) ==
    \/ deposits[a].last_seen_daa < deposits[b].last_seen_daa
    \/ deposits[a].last_seen_daa = deposits[b].last_seen_daa /\ a < b

(* ORDER BY last_seen_daa DESC, tx_id, output_index                        *)
Before(a, b) ==
    \/ deposits[a].last_seen_daa > deposits[b].last_seen_daa
    \/ deposits[a].last_seen_daa = deposits[b].last_seen_daa /\ a < b

Clamp(n, max) == IF n < 1 THEN 1 ELSE IF n > max THEN max ELSE n

Matching == {r \in Rows : Matches(r, deposits, reader.filter)}

Ahead(r) == {q \in Matching : Before(q, r)}

Skipped(offset) == IF offset > MaxOffset THEN MaxOffset ELSE offset

(* LIMIT and OFFSET of the rows that match, in this order.                 *)
Page(limit, offset) ==
    LET first == Skipped(offset)
    IN  {r \in Matching :
            Cardinality(Ahead(r)) \in first .. first + Clamp(limit, ClampLimit) - 1}

(* The next page, after the count of rows the pages before it had; the one *)
(* that is empty is the last.  Beyond the largest offset the same page     *)
(* comes again and again, of which the bound of the offset spares us most. *)
list_deposits ==
    /\ ~reader.ended /\ reader.offset <= Cardinality(Rows)
    /\ LET items == Page(reader.limit, reader.offset)
       IN  /\ read' = read \cup items
           /\ reader' = [reader EXCEPT !.offset = @ + Cardinality(items),
                                       !.ended = items = {}]
    /\ UNCHANGED <<deposits, kept>>

(* One page, for all of the journal that the client gets.                  *)
export_deposits ==
    /\ ~reader.ended /\ reader.offset = 0
    /\ read' = Page(Clamp(reader.limit, ExportMaxRows), 0)
    /\ reader' = [reader EXCEPT !.ended = TRUE]
    /\ kept' = {}       \* nothing is promised of it
    /\ UNCHANGED <<deposits>>

Next ==
    \/ \E score \in 0 .. MaxDaa, observed \in SUBSET Rows :
          \E confirmed \in SUBSET (Pending \cup (observed \ Stored)) :
          \E disappeared \in SUBSET (Pending \ (observed \cup confirmed)) :
             Reconcile(score, observed, confirmed, disappeared)
    \/ \E r \in Rows : reverse_credited_on_reorg(r)
    \/ list_deposits \/ export_deposits

Spec == Init /\ [][Next]_vars

-----------------------------------------------------------------------------
(* A client that pages to the end has read every deposit that was in the   *)
(* ledger when it began and that no snapshot has touched meanwhile, unless *)
(* one sent a row back: rows that are inserted, wherever, or seen again at *)
(* a score not below their own only push it back to pages yet to come.     *)
(* That holds without a filter and for the reversed deposits, which stay   *)
(* so; a page of the pending or of the credited ones can slip past a row   *)
(* when one ahead of it changes its state.  (With more rows than the       *)
(* largest offset there is no end: the last page comes again and the rows  *)
(* beyond it are not read.)                                                *)
PagingMissesNothing ==
    reader.ended /\ reader.filter \in {None, "reversed"} => kept \subseteq read
=============================================================================
