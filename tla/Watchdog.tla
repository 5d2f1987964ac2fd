------------------------------- MODULE Watchdog -------------------------------
(***************************************************************************)
(* The agent-liveness watchdog of crates/engine/src/watchdog.rs beside the *)
(* scheduler: a second task that writes statuses and submits alerts.       *)
(*                                                                         *)
(* A sweep reads the agents, then the monitors, then writes one status     *)
(* after another, awaiting the store each time: everything else runs in    *)
(* between, on the rows the sweep has read.  There is one agent, the one a *)
(* linked monitor names.                                                   *)
(*                                                                         *)
(* The watchdog's write and its alert are two steps here.  The scheduler's *)
(* are one: of the two orders in which the two tasks' alerts can overtake  *)
(* their writes, this module shows one.                                    *)
(***************************************************************************)
EXTENDS Scheduler, FiniteSetsExt

VARIABLES heard,    \* the agent's last heartbeat is within heartbeat_timeout
          sweep     \* how far the present sweep has come

wvars == <<vars, heard, sweep>>

\* `left`: monitors the sweep has still to mark; `telling`: the one it has marked
\* and not yet submitted the alert for.
Asleep == [phase |-> "asleep", left |-> {}, telling |-> Absent]

\* Nothing of the scheduler's own moves.
schedulerOwn == <<registry, collectors, quarantined, tasks, assigned, pushes, hand,
                  out, streak>>

-----------------------------------------------------------------------------
\* The heartbeats, in the agents table.

\* Ninety seconds pass without a request of the agent's.
HeartbeatLapses ==
    /\ heard
    /\ heard' = FALSE
    /\ UNCHANGED <<vars, sweep>>

\* An ingest request without results, or register_agent.
HeartbeatArrives ==
    /\ ~heard
    /\ heard' = TRUE
    /\ UNCHANGED <<vars, sweep>>

-----------------------------------------------------------------------------
\* sweep.

\* list_agents: without a silent agent, or if the read fails, the sweep is over.
SweepBegins ==
    /\ sweep.phase = "asleep"
    /\ ~heard
    /\ sweep' = [sweep EXCEPT !.phase = "listing"]
    /\ UNCHANGED <<vars, heard>>

\* Mutant of Silenced: only monitors that are Up are demoted.
SilencedIfUp == {m \in Stored(monitors) :
                    monitors[m].linked /\ StatusRead(monitors[m]) = "Up"}

\* The rows a sweep goes on to mark, as it reads them.
Silenced == {m \in Stored(monitors) :
                 /\ monitors[m].linked
                 /\ StatusRead(monitors[m]) \notin {"Paused", "Stale", "Unknown"}}

SweepLists ==
    /\ sweep.phase = "listing"
    /\ \/ sweep' = [sweep EXCEPT !.phase = "marking", !.left = Silenced] /\ UNCHANGED budget
       \/ sweep' = Asleep /\ StoreFails
    /\ UNCHANGED <<schedulerOwn, monitors, announced, heard>>

\* Mutant of SweepMarks: a silent agent's monitors are said to be Down.
SweepMarksDown ==
    /\ sweep.phase = "marking" /\ sweep.telling = Absent /\ sweep.left # {}
    /\ LET m == Min(sweep.left) IN
          /\ monitors' = WithStatus(monitors, m, "Down")
          /\ sweep' = [sweep EXCEPT !.left = @ \ {m}]
    /\ UNCHANGED <<schedulerOwn, announced, budget, heard>>

\* set_monitor_status for the next row, in the order of the ids; a row deleted
\* meanwhile is an error like any other, and an error is only logged.
SweepMarks ==
    /\ sweep.phase = "marking" /\ sweep.telling = Absent /\ sweep.left # {}
    /\ LET m == Min(sweep.left) IN
       \/ /\ monitors[m] # Absent
          /\ monitors' = WithStatus(monitors, m, "Stale")
          /\ sweep' = [sweep EXCEPT !.left = @ \ {m}, !.telling = m]
          /\ UNCHANGED budget
       \/ /\ monitors[m] = Absent
          /\ sweep' = [sweep EXCEPT !.left = @ \ {m}]
          /\ UNCHANGED <<monitors, budget>>
       \/ /\ StoreFails
          /\ sweep' = [sweep EXCEPT !.left = @ \ {m}]
          /\ UNCHANGED monitors
    /\ UNCHANGED <<schedulerOwn, announced, heard>>

\* alerts.submit for the row just marked.
SweepTells ==
    /\ sweep.telling # Absent
    /\ announced' = [announced EXCEPT ![sweep.telling] = "Stale"]
    /\ sweep' = [sweep EXCEPT !.telling = Absent]
    /\ UNCHANGED <<schedulerOwn, monitors, budget, heard>>

SweepEnds ==
    /\ sweep.phase = "marking" /\ sweep.telling = Absent /\ sweep.left = {}
    /\ sweep' = Asleep
    /\ UNCHANGED <<vars, heard>>

-----------------------------------------------------------------------------
\* A step of the scheduler, its operators or its agent.  A request that pushes a
\* result is a heartbeat too; a restart ends the sweep with everything else.
SchedulerStep ==
    /\ Next
    /\ heard' = (heard \/ Len(pushes') > Len(pushes))
    /\ sweep' = IF budget'.crashes < budget.crashes THEN Asleep ELSE sweep

WInit == Init /\ heard = TRUE /\ sweep = Asleep

SweepStep == SweepBegins \/ SweepLists \/ SweepMarks \/ SweepTells \/ SweepEnds

WNext == SchedulerStep \/ HeartbeatLapses \/ HeartbeatArrives \/ SweepStep

WSpec == WInit /\ [][WNext]_wvars

\* The sweep's own task runs on, its ticker fires, and so do the scheduler's.
WFairSpec ==
    /\ WSpec
    /\ WF_wvars(SweepStep)
    /\ WF_wvars(SchedulerStep /\ Resync)
    /\ WF_wvars(SchedulerStep /\ (HandlePushed \/ HandlePushedUnknown))
    /\ WF_wvars(SchedulerStep /\ HandlePushedResynced)

-----------------------------------------------------------------------------
(***************************************************************************)
(* Properties.                                                             *)
(***************************************************************************)
\* A feed that has gone silent for good shows: whatever late results, stale rows and
\* failed writes come in between, each monitor it feeds is in the end Stale, and
\* stays so.  (A Kubernetes monitor can name an agent too and is polled all the same.)
Watched(m) == /\ monitors[m] # Absent
              /\ monitors[m].linked
              /\ monitors[m].kind # "k8s"
              /\ StatusRead(monitors[m]) \notin {"Paused", "Unknown"}

SilenceShows ==
    <>[]~heard => \A m \in Id : <>[](Watched(m) => monitors[m].status = "Stale")

\* With two tasks writing statuses the counters still decide alone what is Down: as in
\* DownIsEarned, DownThreshold failed results in a row under the monitor's id, which are
\* its own unless the engine had something left of what the id stood for before.
DownIsStillEarned ==
    [][\A m \in Id : BecomesDown(m) => streak'[m] >= DownThreshold]_wvars
=============================================================================
