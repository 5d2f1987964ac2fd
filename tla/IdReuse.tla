------------------------------- MODULE IdReuse -------------------------------
(***************************************************************************)
(* The scheduler beside a history that knows one monitor from another under *)
(* the same id.  The table gives the highest id out again once it is free  *)
(* (INTEGER PRIMARY KEY without AUTOINCREMENT); the registry, keyed by id, *)
(* takes what it then finds for the monitor it knew.                       *)
(***************************************************************************)
EXTENDS Scheduler

VARIABLE own   \* history: failures handled since the monitor was added or succeeded

reuseVars == <<vars, own>>

-----------------------------------------------------------------------------
\* The id is given to a monitor just added.
GivenOut(m) == monitors[m] = Absent /\ monitors'[m] # Absent

\* The failures of a monitor its latest result leaves, if that was a definite one: the
\* counters say which.
OwnFailures(m) ==
    IF out' # [result |-> m, live |-> TRUE] THEN own[m]
    ELSE IF registry'[m].flap.fail = 0 THEN 0 ELSE Bump(own[m], DownThreshold)

ReuseInit == Init /\ own = [m \in Id |-> 0]

ReuseNext ==
    \/ Handles /\ own' = [m \in Id |-> OwnFailures(m)]
    \/ HandlesNone /\ own' = [m \in Id |-> IF GivenOut(m) THEN 0 ELSE own[m]]

ReuseSpec == ReuseInit /\ [][ReuseNext]_reuseVars

-----------------------------------------------------------------------------
(***************************************************************************)
(* What DESIGN.md says of flap damping and the code does not keep to.      *)
(***************************************************************************)

\* A single dropped packet does not page anyone: a monitor becomes Down only on the last
\* of DownThreshold failed results handled since it was added.  resync keeps the
\* FlapState of the monitor that had the id before.
DownIsItsOwn ==
    [][\A m \in Id : BecomesDown(m) => own'[m] >= DownThreshold]_reuseVars
=============================================================================
