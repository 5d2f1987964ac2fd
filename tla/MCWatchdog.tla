------------------------------ MODULE MCWatchdog ------------------------------
(***************************************************************************)
(* Values of Watchdog's constants for TLC.                                 *)
(***************************************************************************)
EXTENDS Watchdog

CONSTANTS t1

MCTarget == {t1}

\* Monitors one agent feeds, as an earlier run of the daemon may have left them.
FedRow(status) ==
    [status |-> status, target |-> t1, valid |-> TRUE, kind |-> "host", linked |-> TRUE]

MCFedRows == {FedRow("Up"), FedRow("Down")}
=============================================================================
