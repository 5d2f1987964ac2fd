--------------------------- MODULE MonitorLifecycle ---------------------------
(***************************************************************************)
(* What the program promises about a monitor's status, whoever looks at    *)
(* it: the state machine of DESIGN.md 5.2 and 5.3 as the code keeps it,    *)
(* with no registry, probe or queue in it.                                 *)
(*                                                                         *)
(*   - a monitor begins Pending, and a resumed or repaired one is Pending  *)
(*     again, never what it was before;                                    *)
(*   - the engine says Up, Down or Stale, only of a monitor that exists    *)
(*     and whose interval is valid;                                        *)
(*   - only an operator pauses, resumes or removes.                        *)
(*                                                                         *)
(* LateVerdicts says whether a verdict may land on a monitor that has just *)
(* been paused.  The documented machine says no; the code says yes.        *)
(***************************************************************************)
CONSTANTS Monitor, LateVerdicts

VARIABLE status    \* what a reader of the table is told

Verdicts == {"Up", "Down", "Stale"}
Judgeable == {"Pending"} \cup Verdicts \cup (IF LateVerdicts THEN {"Paused"} ELSE {})

Becomes(m, s) == status' = [status EXCEPT ![m] = s]

Create(m) == status[m] = "None" /\ Becomes(m, "Pending")
Delete(m) == status[m] # "None" /\ Becomes(m, "None")
Suspend(m) == status[m] \notin {"None", "Unknown"} /\ Becomes(m, "Paused")
Reset(m)  == status[m] # "None" /\ Becomes(m, "Pending")
Judge(m, s) == status[m] \in Judgeable /\ Becomes(m, s)

LInit == status \in [Monitor -> {"None", "Pending", "Paused", "Unknown"} \cup Verdicts]

LNext == \E m \in Monitor :
            \/ Create(m)
            \/ Delete(m)
            \/ Suspend(m)
            \/ Reset(m)
            \/ \E s \in Verdicts : Judge(m, s)

LSpec == LInit /\ [][LNext]_status
=============================================================================
