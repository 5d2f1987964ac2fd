---------------------------- MODULE MCResultWriter ----------------------------
(***************************************************************************)
(* Values of ResultWriter's constants for TLC.                             *)
(***************************************************************************)
EXTENDS ResultWriter

CONSTANTS m1, m2

MCMonitor == {m1, m2}
=============================================================================
