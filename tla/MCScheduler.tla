----------------------------- MODULE MCScheduler -----------------------------
(***************************************************************************)
(* Values of Scheduler's constants for TLC.                                *)
(***************************************************************************)
EXTENDS Scheduler

CONSTANTS t1, t2

MCTarget == {t1, t2}

\* A fresh network monitor, and one left Up, Paused or with a bad interval by an
\* earlier run.
NetworkRow(status, valid) ==
    [status |-> status, target |-> t1, valid |-> valid,
     kind |-> "network", linked |-> FALSE]

MCNetworkRows == {NetworkRow("Up", TRUE), NetworkRow("Paused", TRUE),
                  NetworkRow("Up", FALSE)}

\* A monitor of each kind as an earlier run may have left it, each with its own way
\* of being probed: by an agent only, by a collector, by the daemon.
LeftRow(kind, linked, status) ==
    [status |-> status, target |-> t1, valid |-> TRUE,
     kind |-> kind, linked |-> linked]

MCLeftRows == {LeftRow("host", TRUE, "Stale"), LeftRow("k8s", FALSE, "Down"),
               LeftRow("network", FALSE, "Paused")}
=============================================================================
