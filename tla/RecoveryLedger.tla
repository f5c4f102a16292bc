--------------------------- MODULE RecoveryLedger ---------------------------
(***************************************************************************)
(* The recovery ledger of crates/mosaix-persistence/src/ledger.rs and the  *)
(* rules of crates/mosaix-domain/src/recovery.rs that read it, as a value  *)
(* and the operators on it.  The ledger is a set of entries; the file      *)
(* outlives the process, and a session number stands for the session id.   *)
(*                                                                         *)
(* An entry's bounds and show state are left out: they are where a restore *)
(* puts the window, and every restore puts it back on the screen.  Handles *)
(* are not reused: a handle names the recorded window or nothing.          *)
(***************************************************************************)
EXTENDS Integers, FiniteSets

CONSTANT Window

(* RecoveryEntry *)
Entry == [id : Nat, window : Window, session : Nat,
          parked : BOOLEAN, restored : BOOLEAN]

(* RecoveryLedger::record *)
Recorded(entries, id, w, session) ==
    entries \cup {[id |-> id, window |-> w, session |-> session,
                  parked |-> FALSE, restored |-> FALSE]}

(* RecoveryLedger::mark_parked *)
MarkedParked(entries, id) ==
    {IF e.id = id THEN [e EXCEPT !.parked = TRUE] ELSE e : e \in entries}

(* RecoveryLedger::mark_restored *)
MarkedRestored(entries, id) ==
    {IF e.id = id THEN [e EXCEPT !.restored = TRUE] ELSE e : e \in entries}

(* RecoveryEntry::is_open *)
IsOpen(e) == e.parked /\ ~e.restored

OpenEntries(entries) == {e \in entries : IsOpen(e)}

(* Mutant: forgets what earlier sessions parked. *)
PrunedToSession(entries, session) ==
    {e \in entries : ~e.restored /\ e.session = session}

(* RecoveryLedger::prune *)
Pruned(entries, session) ==
    {e \in entries : ~e.restored /\ (e.parked \/ e.session = session)}

(* Mutant: a closed entry makes an open one of its window ambiguous. *)
VerifiedEntriesSole(entries, alive) ==
    {e \in OpenEntries(entries) :
        e.window \in alive /\ \A f \in entries : f.window = e.window => f = e}

(* plan_recovery, the entries it verifies: two open entries for one handle *)
(* are ambiguous, and a handle that names no window is stale.              *)
VerifiedEntries(entries, alive) ==
    {e \in OpenEntries(entries) :
        /\ e.window \in alive
        /\ \A f \in OpenEntries(entries) : f.window = e.window => f = e}

(* restore_parked_window, before it touches the window: the entry exists,  *)
(* it records this window, and the handle still names it.                  *)
MayRestore(entries, id, w, alive) ==
    /\ w \in alive
    /\ \E e \in entries : e.id = id /\ e.window = w
=============================================================================
