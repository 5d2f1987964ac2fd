-------------------------------- MODULE Store --------------------------------
(***************************************************************************)
(* The monitors table of crates/storage: one row per monitor id, and what  *)
(* each statement of SqliteStore does to it.  Every statement runs under   *)
(* the one connection's mutex, so a statement is one atomic step.          *)
(*                                                                         *)
(* A row keeps what the engine's control flow depends on: the status       *)
(* column, the target, whether interval_secs lies in 1..=86400, the kind   *)
(* and whether agent_id is set.                                            *)
(***************************************************************************)
EXTENDS Integers

CONSTANTS MaxId,     \* bound on the row ids a run may use
          Target,    \* the target strings
          Absent     \* no such row, entry or value

Id     == 1..MaxId
Kind   == {"network", "k8s", "host"}
Status == {"Pending", "Up", "Down", "Paused", "Stale"}

Row == [status : Status, target : Target, valid : BOOLEAN,
        kind : Kind, linked : BOOLEAN]

ASSUME StoreAssumption == /\ MaxId \in Nat
                          /\ Absent \notin Row

Table == [Id -> Row \cup {Absent}]

Stored(table) == {m \in Id : table[m] # Absent}

\* codec::row_to_monitor: a row whose interval is out of range reads as Unknown,
\* whatever its status column holds.
StatusRead(row) == IF row.valid THEN row.status ELSE "Unknown"

\* The id SQLite gives the next row of a table keyed by INTEGER PRIMARY KEY
\* without AUTOINCREMENT: one more than the largest id now in the table, so the
\* id of a deleted last row is given out again.
IsNextRowId(table, m) ==
    /\ \A k \in Stored(table) : k < m
    /\ m = 1 \/ m - 1 \in Stored(table)

\* insert_monitor, called by service::add_monitor with a validated interval.
NewRow(target, kind, linked) ==
    [status |-> "Pending", target |-> target, valid |-> TRUE,
     kind |-> kind, linked |-> linked]

\* Mutant of UpdatedRow: a repaired row keeps the status it had.
UpdatedRowKeepingStatus(row, target, newInterval, link) ==
    [row EXCEPT !.target = target, !.valid = @ \/ newInterval, !.linked = @ \/ link]

\* update_monitor: COALESCE over the fields given; a new interval on a row that
\* held an invalid one also puts the row back to Pending.
UpdatedRow(row, target, newInterval, link) ==
    [row EXCEPT !.target = target,
                !.status = IF ~row.valid /\ newInterval THEN "Pending" ELSE @,
                !.valid  = @ \/ newInterval,
                !.linked = @ \/ link]

\* Mutant of WithStatus: INSERT OR REPLACE in the place of UPDATE.
UpsertedStatus(table, m, status) ==
    IF table[m] = Absent
    THEN [table EXCEPT ![m] = [NewRow(CHOOSE t \in Target : TRUE, "network", FALSE)
                                  EXCEPT !.status = status]]
    ELSE [table EXCEPT ![m].status = status]

\* set_monitor_status: unconditional, and NotFound (no effect) without the row.
WithStatus(table, m, status) ==
    IF table[m] = Absent THEN table
    ELSE [table EXCEPT ![m].status = status]
=============================================================================
