----------------------------- MODULE StateStore -----------------------------
(***************************************************************************)
(* The state database (mosaix-persistence/src/lib.rs): undo transactions,  *)
(* container trees and the revision last made durable.  Each write is an   *)
(* operator from the database to the next one; a write that fails leaves   *)
(* the rows alone and degrades the store until a write succeeds.           *)
(***************************************************************************)
EXTENDS Integers, FiniteSets
LOCAL INSTANCE FiniteSetsExt

CONSTANTS
    HistoryLimit,       \* MAX_UNDO_TRANSACTIONS
    HistoryDays         \* UNDO_RETENTION_SECONDS, in days

ASSUME HistoryAssumption == HistoryLimit \in Nat \ {0} /\ HistoryDays \in Nat

\* undo is a set of rows [id, day, entry]; ids are issued once and for all.
EmptyStore(trees) ==
    [revision |-> 0, undo |-> {}, issued |-> 0, trees |-> trees, degraded |-> FALSE]

Landed(db) == [db EXCEPT !.degraded = FALSE]
Failed(db) == [db EXCEPT !.degraded = TRUE]

\* Both bounds at once: too old, or not among the newest HistoryLimit.
Newer(rows, row)      == {r \in rows : r.id > row.id}
PrunedRows(rows, day) ==
    {row \in rows : row.day >= day - HistoryDays /\ Cardinality(Newer(rows, row)) < HistoryLimit}

PruneHistory(db, day) == [Landed(db) EXCEPT !.undo = PrunedRows(@, day)]

\* The new row and the pruning are one transaction of the database.
RecordTransaction(db, entry, day) ==
    LET row == [id |-> db.issued + 1, day |-> day, entry |-> entry]
    IN  [Landed(db) EXCEPT !.issued = @ + 1, !.undo = PrunedRows(@ \cup {row}, day)]

ConsumeTransaction(db, id) == [Landed(db) EXCEPT !.undo = {row \in @ : row.id # id}]

(* Mutant: the row recorded first. *)
OldestRows(db) == {row \in db.undo : \A r \in db.undo : row.id <= r.id}

\* The only row undo looks at, if there is one.
NewestRows(db) == {row \in db.undo : Newer(db.undo, row) = {}}

\* A revision that is not newer writes nothing, and clears no degradation.
CommitRevision(db, revision) ==
    IF revision <= db.revision THEN db ELSE [Landed(db) EXCEPT !.revision = revision]

\* An empty tree is no row.
SaveTree(db, display, tree) ==
    [Landed(db) EXCEPT !.trees[display] = IF tree.root = <<>> THEN <<>> ELSE <<tree>>]
=============================================================================
