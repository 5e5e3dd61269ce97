----------------------------- MODULE LedgerSchema -----------------------------
(***************************************************************************)
(* Opening the deposit ledger (DepositLedger::open, migrate_v1_to_v2 and   *)
(* migrate_v2_to_v3 of src/deposit_ledger.rs).  Every program opens the    *)
(* file itself: it looks what is there, migrates, creates what is missing  *)
(* and looks again, each in a transaction of its own, while others do the  *)
(* same, may be killed at any point, and start over when they fail.        *)
(***************************************************************************)
EXTENDS Naturals

CONSTANTS
    Programs,       \* processes that open the ledger
    MaxKills,       \* bound
    None            \* no schema_meta

LedgerSchemaAssumption == MaxKills \in Nat /\ None \notin Nat

SCHEMA_VERSION == 3

VARIABLES
    db,             \* [version, tables, leases, retries]
    pc,             \* program -> where it is in open
    kills

vars == <<db, pc, kills>>

(* Of the outbox's columns, version 2 brought the leases and version 3 the *)
(* retries; a file may have tables and no version, or a later version.     *)
Schema(version, tables, leases, retries) ==
    [version |-> version, tables |-> tables, leases |-> leases, retries |-> retries]

Current == Schema(SCHEMA_VERSION, TRUE, TRUE, TRUE)

Schemas == {Schema(None, FALSE, FALSE, FALSE), Schema(None, TRUE, FALSE, FALSE),
            Schema(1, TRUE, FALSE, FALSE), Schema(2, TRUE, TRUE, FALSE), Current,
            Schema(SCHEMA_VERSION + 1, TRUE, TRUE, TRUE)}

TypeOK ==
    /\ db \in [version : 1 .. SCHEMA_VERSION + 1 \cup {None}, tables : BOOLEAN,
               leases : BOOLEAN, retries : BOOLEAN]
    /\ pc \in [Programs -> {"start", "unversioned", "v1", "v2", "create", "verify",
                            "open", "error"}]
    /\ kills \in 0 .. MaxKills

Init ==
    /\ db \in Schemas
    /\ pc = [p \in Programs |-> "start"] /\ kills = 0

-----------------------------------------------------------------------------
Goto(p, place) == pc' = [pc EXCEPT ![p] = place] /\ UNCHANGED kills

ReadVersion(p) ==
    /\ pc[p] = "start"
    /\ \/ db.version = None /\ Goto(p, "unversioned")
       \/ db.version = 1 /\ Goto(p, "v1")
       \/ db.version = 2 /\ Goto(p, "v2")
       \/ db.version = SCHEMA_VERSION /\ Goto(p, "create")
       \/ db.version \notin {None} \cup (1 .. SCHEMA_VERSION) /\ Goto(p, "error")
    /\ UNCHANGED db

(* Tables without a version are not ours; they may also be those that      *)
(* another program has created since, versioned.                           *)
CheckTables(p) ==
    /\ pc[p] = "unversioned"
    /\ Goto(p, IF db.tables THEN "error" ELSE "create")
    /\ UNCHANGED db

(* Mutant: the version is not written.                                     *)
MigrateSilently(p) ==
    /\ pc[p] = "v1"
    /\ \/ ~db.leases /\ db' = [db EXCEPT !.leases = TRUE] /\ Goto(p, "v2")
       \/ db.leases /\ UNCHANGED db /\ Goto(p, "error")

(* ALTER TABLE fails, and rolls everything back, where another program has *)
(* added the columns since this one read the version.                      *)
migrate_v1_to_v2(p) ==
    /\ pc[p] = "v1"
    /\ \/ /\ ~db.leases /\ Goto(p, "v2")
          /\ db' = Schema(IF db.version = 1 THEN 2 ELSE db.version, db.tables, TRUE, db.retries)
       \/ db.leases /\ UNCHANGED db /\ Goto(p, "error")

migrate_v2_to_v3(p) ==
    /\ pc[p] = "v2"
    /\ \/ /\ ~db.retries /\ Goto(p, "create")
          /\ db' = Schema(IF db.version = 2 THEN 3 ELSE db.version, db.tables, db.leases, TRUE)
       \/ db.retries /\ UNCHANGED db /\ Goto(p, "error")

(* INSERT ... ON CONFLICT(key) DO NOTHING                                  *)
Stamp(version) == IF version = None THEN SCHEMA_VERSION ELSE version

(* Mutant: CREATE without IF NOT EXISTS.                                   *)
CreateOnce(p) ==
    /\ pc[p] = "create"
    /\ \/ db.tables /\ UNCHANGED db /\ Goto(p, "error")
       \/ ~db.tables /\ db' = Current /\ Goto(p, "verify")

(* CREATE ... IF NOT EXISTS; the index over the retries' columns fails     *)
(* where the table is there without them.                                  *)
Create(p) ==
    /\ pc[p] = "create"
    /\ \/ db.tables /\ ~db.retries /\ UNCHANGED db /\ Goto(p, "error")
       \/ /\ db.tables => db.retries
          /\ db' = IF db.tables THEN [db EXCEPT !.version = Stamp(@)]
                                ELSE Schema(Stamp(db.version), TRUE, TRUE, TRUE)
          /\ Goto(p, "verify")

(* The version once more, and require_columns.                             *)
Verify(p) ==
    /\ pc[p] = "verify"
    /\ Goto(p, IF db = Current THEN "open" ELSE "error")
    /\ UNCHANGED db

(* A program that could not open the ledger ends and is started again.     *)
Again(p) == pc[p] = "error" /\ Goto(p, "start") /\ UNCHANGED db

Open(p) ==
    \/ ReadVersion(p) \/ CheckTables(p) \/ migrate_v1_to_v2(p) \/ migrate_v2_to_v3(p)
    \/ Create(p) \/ Verify(p) \/ Again(p)

Kill(p) ==
    /\ kills < MaxKills /\ kills' = kills + 1
    /\ pc[p] # "start" /\ pc' = [pc EXCEPT ![p] = "start"]
    /\ UNCHANGED db

(* Another program of an earlier version fills an empty file.              *)
OldProgram ==
    /\ ~db.tables
    /\ db' \in {Schema(1, TRUE, FALSE, FALSE), Schema(2, TRUE, TRUE, FALSE)}
    /\ UNCHANGED <<pc, kills>>

Next == OldProgram \/ \E p \in Programs : Open(p) \/ Kill(p)

Spec == Init /\ [][Next]_vars /\ \A p \in Programs : WF_vars(Open(p))

-----------------------------------------------------------------------------
(* The version a file is stamped with is that of its tables, whoever       *)
(* migrates or creates them at the same time and wherever one is killed:   *)
(* no file is left between two versions.                                   *)
VersionTrue == db \in Schemas

(* The program that loses a race to migrate or to create ends with an      *)
(* error; started again it opens, unless the file is not one of ours.      *)
Ours == db.version \in 1 .. SCHEMA_VERSION \/ ~db.tables
EventuallyOpen(p) == Ours ~> pc[p] = "open"
=============================================================================
