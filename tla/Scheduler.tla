------------------------------ MODULE Scheduler ------------------------------
(***************************************************************************)
(* The scheduler task of crates/engine/src/scheduler.rs together with the  *)
(* two things it shares with the rest of the program: the monitors table,  *)
(* which the CLI and the HTTP handlers write without telling the scheduler *)
(* anything, and the queue of results agents push.                         *)
(*                                                                         *)
(* The scheduler is one task.  It works on a registry, its own copy of the *)
(* table, which Resync brings up to date every few seconds; between two    *)
(* resyncs the copy is out of date.  Its handlers await the store at most  *)
(* once each, and nothing but the scheduler reads the registry, so a       *)
(* handler is one atomic step; handle_pushed may await twice (a resync,    *)
(* then a status write) and is two.                                        *)
(***************************************************************************)
EXTENDS Flap, Store, Sequences

CONSTANTS Kinds,            \* the kinds of monitor the operators create
          Links,            \* whether those monitors name an agent
          BadTarget,        \* targets not of the form cluster/namespace/name
          HasK8sFactory,    \* is a Kubernetes collector factory configured
          InitialRows,      \* rows an earlier run of the daemon may have left
          MaxTasks,         \* bound on identical tasks in flight
          IngestCapacity,   \* capacity of the pushed-result channel
          MaxOps,           \* bound on operators' commands
          MaxFaults,        \* bound on calls of the store that fail
          MaxCrashes        \* bound on restarts of the daemon

ASSUME SchedulerAssumption ==
    /\ Kinds \subseteq Kind
    /\ Links \subseteq BOOLEAN
    /\ BadTarget \subseteq Target
    /\ HasK8sFactory \in BOOLEAN
    /\ InitialRows \subseteq Row
    /\ MaxTasks \in Nat /\ IngestCapacity \in Nat
    /\ MaxOps \in Nat /\ MaxFaults \in Nat /\ MaxCrashes \in Nat
    /\ Absent \notin Target
    /\ Absent \notin [row : Row, due : BOOLEAN, flap : FlapState]
    /\ Absent \notin [id : Id, outcome : {"success", "failure", "unavailable"}]

VARIABLES monitors,     \* the table
          registry,     \* Scheduler::registry
          collectors,   \* Scheduler::k8s_collectors: the target each one polls
          quarantined,  \* Scheduler::quarantined
          tasks,        \* the JoinSet: how many of each task are in flight
          assigned,     \* monitors in their agents' assignment queues
          pushes,       \* the channel IngestHandle feeds
          hand,         \* pushed result held across handle_pushed's resync
          out,          \* what the last step sent to the writer and to /ws
          announced,    \* history: last status an alert was submitted for
          streak,       \* history: failures counted under each id, see BeginsAfresh
          budget        \* commands, faults and restarts left to a run

vars == <<monitors, registry, collectors, quarantined, tasks, assigned,
          pushes, hand, out, announced, streak, budget>>

local == <<registry, collectors, quarantined, tasks, assigned, pushes, hand,
           announced>>

-----------------------------------------------------------------------------
Outcome == {"success", "failure", "unavailable"}
Push    == [id : Id, outcome : Outcome]
Entry   == [row : Row, due : BOOLEAN, flap : FlapState]

\* A task is a central probe, a collector poll, or the stand-in spawned when no
\* collector can be had.  The target is the one it was spawned with; the id is
\* also what `owners` keeps for it.
Task == [id : Id, target : Target, way : {"probe", "poll", "none"}]

Silent == [result |-> 0, live |-> FALSE]
Verdict == {"Up", "Down", "Stale"}

Registered == {m \in Id : registry[m] # Absent}
Due        == {m \in Registered : registry[m].due}

\* The loop is between two handlers.
AtRest == hand = Absent

-----------------------------------------------------------------------------
\* Operators' commands, from the CLI or the HTTP handlers (crates/backend/src/service.rs).

Command == /\ budget.ops > 0
           /\ budget' = [budget EXCEPT !.ops = @ - 1]
           /\ out' = Silent
           /\ UNCHANGED local

\* Something of what the id has stood for until now is still with the engine: its
\* registry entry and the counters in it, a task in flight, a result pushed.
Leftover(m) ==
    \/ registry[m] # Absent
    \/ \E task \in Task : task.id = m /\ tasks[task] > 0
    \/ \E i \in DOMAIN pushes : pushes[i].id = m
    \/ hand # Absent /\ hand.id = m

\* The failures in a row are those of the monitor and target the id now stands for,
\* from the time it does, unless something is left over: what the engine then counts
\* goes on from there, and so does the history.
BeginsAfresh(m) == streak' = IF Leftover(m) THEN streak ELSE [streak EXCEPT ![m] = 0]

Add(m, target, kind, linked) ==
    /\ Command
    /\ IsNextRowId(monitors, m)
    /\ monitors' = [monitors EXCEPT ![m] = NewRow(target, kind, linked)]
    /\ BeginsAfresh(m)

Edit(m, target, newInterval, link) ==
    /\ Command
    /\ monitors[m] # Absent
    /\ monitors' = [monitors EXCEPT ![m] = UpdatedRow(@, target, newInterval, link)]
    /\ IF target = monitors[m].target THEN UNCHANGED streak ELSE BeginsAfresh(m)

Remove(m) ==
    /\ Command
    /\ monitors[m] # Absent
    /\ monitors' = [monitors EXCEPT ![m] = Absent]
    /\ UNCHANGED streak

Pause(m) ==
    /\ Command
    /\ monitors[m] # Absent
    /\ monitors' = WithStatus(monitors, m, "Paused")
    /\ UNCHANGED streak

Resume(m) ==
    /\ Command
    /\ monitors[m] # Absent
    /\ monitors' = WithStatus(monitors, m, "Pending")
    /\ UNCHANGED streak

Commands ==
    \E m \in Id :
        \/ \E t \in Target, k \in Kinds, l \in Links : Add(m, t, k, l)
        \/ \E t \in Target, i \in BOOLEAN, l \in Links : Edit(m, t, i, l)
        \/ Remove(m)
        \/ Pause(m)
        \/ Resume(m)

-----------------------------------------------------------------------------
\* resync: the registry, the collectors and the quarantine after list_monitors
\* returned the present table.  A monitor already known keeps its deadline and
\* its flap counters.

\* Mutant of Eligible: paused monitors are not filtered out.
EligibleEvenPaused(row) == row # Absent /\ row.valid

Eligible(row) == row # Absent /\ row.valid /\ row.status # "Paused"

\* Mutants of SyncedRegistry: a monitor already known keeps its old copy; or it
\* loses its flap counters.
SyncedRegistryNewOnly ==
    [m \in Id |->
        IF ~Eligible(monitors[m]) THEN Absent
        ELSE IF registry[m] = Absent
             THEN [row |-> monitors[m], due |-> TRUE, flap |-> FreshFlap]
             ELSE registry[m]]

SyncedRegistryAfresh ==
    [m \in Id |->
        IF ~Eligible(monitors[m]) THEN Absent
        ELSE [row |-> monitors[m], flap |-> FreshFlap,
              due |-> IF registry[m] = Absent THEN TRUE ELSE registry[m].due]]

SyncedRegistry ==
    [m \in Id |->
        IF ~Eligible(monitors[m]) THEN Absent
        ELSE IF registry[m] = Absent
             THEN [row |-> monitors[m], due |-> TRUE, flap |-> FreshFlap]
             ELSE [registry[m] EXCEPT !.row = monitors[m]]]

SyncedCollectors ==
    [m \in Id |-> IF Eligible(monitors[m]) THEN collectors[m] ELSE Absent]

SyncedQuarantine == {m \in Stored(monitors) : ~monitors[m].valid}

Reconcile == /\ registry' = SyncedRegistry
             /\ collectors' = SyncedCollectors
             /\ quarantined' = SyncedQuarantine

\* A call of the store returns an error, which the engine only logs.
StoreFails == /\ budget.faults > 0
              /\ budget' = [budget EXCEPT !.faults = @ - 1]

\* The resync timer fires.  A failed list_monitors leaves everything as it was.
Resync ==
    /\ AtRest
    /\ Reconcile
    /\ out' = Silent
    /\ UNCHANGED <<monitors, tasks, assigned, pushes, hand, announced, streak, budget>>

-----------------------------------------------------------------------------
\* dispatch_due.

\* A registered monitor's next_check_at is reached.
DeadlinePasses(m) ==
    /\ m \in Registered \ Due
    /\ registry' = [registry EXCEPT ![m].due = TRUE]
    /\ UNCHANGED <<monitors, collectors, quarantined, tasks, assigned, pushes,
                   hand, out, announced, streak, budget>>

Polled(m)   == registry[m].row.kind = "k8s"

Probed(m)   == registry[m].row.kind = "network" /\ ~registry[m].row.linked
Regional(m) == registry[m].row.kind = "network" /\ registry[m].row.linked

\* The factory may be asked for m's collector: none is cached yet, and both the
\* factory and a target it can parse are there.  It may still fail.
MayBuild(m) == /\ Polled(m)
               /\ collectors[m] = Absent
               /\ HasK8sFactory
               /\ registry[m].row.target \notin BadTarget

Collector(m, built) ==
    IF m \in built THEN registry[m].row.target ELSE collectors[m]

\* What dispatch_network or dispatch_k8s spawns for a due monitor.
NewTask(m, built) ==
    IF Probed(m)
    THEN [id |-> m, target |-> registry[m].row.target, way |-> "probe"]
    ELSE IF Collector(m, built) # Absent
         THEN [id |-> m, target |-> Collector(m, built), way |-> "poll"]
         ELSE [id |-> m, target |-> registry[m].row.target, way |-> "none"]

\* The earliest deadline wakes the loop: every due monitor gets a new deadline
\* and is handed to its agent's queue, left to its agent, or given a task.
DispatchDue ==
    /\ AtRest
    /\ Due # {}
    /\ \E built \in SUBSET {m \in Due : MayBuild(m)} :
        LET spawned == {NewTask(m, built) : m \in {d \in Due : Probed(d) \/ Polled(d)}}
        IN  /\ \A task \in spawned : tasks[task] < MaxTasks
            /\ tasks' = [task \in Task |->
                            IF task \in spawned THEN tasks[task] + 1 ELSE tasks[task]]
            /\ collectors' = [m \in Id |-> Collector(m, built)]
    /\ registry' = [m \in Id |->
                       IF m \in Due THEN [registry[m] EXCEPT !.due = FALSE]
                       ELSE registry[m]]
    /\ assigned' = assigned \cup {m \in Due : Regional(m)}
    /\ out' = Silent
    /\ UNCHANGED <<monitors, quarantined, pushes, hand, announced, streak, budget>>

-----------------------------------------------------------------------------
\* The handlers of a result.

\* Mutant of Transition: no alert for Stale.
TransitionHidingStale(m, status) ==
    /\ announced' = IF status = "Stale" THEN announced
                    ELSE [announced EXCEPT ![m] = status]
    /\ monitors' = WithStatus(monitors, m, status)
    /\ UNCHANGED budget

\* The registry already holds the new status: write it to the store, where the
\* write may fail and is only logged, and submit an alert whether it did or not.
Transition(m, status) ==
    /\ announced' = [announced EXCEPT ![m] = status]
    /\ \/ monitors' = WithStatus(monitors, m, status) /\ UNCHANGED budget
       \/ StoreFails /\ UNCHANGED monitors

NoTransition == UNCHANGED <<announced, monitors, budget>>

EntryWith(entry, flap, status) ==
    [entry EXCEPT !.flap = flap, !.row.status = status]

\* apply_result: nothing at all for a monitor that is not registered.
ApplyResult(m, success) ==
    IF registry[m] = Absent
    THEN out' = Silent /\ NoTransition /\ UNCHANGED <<registry, streak>>
    ELSE LET counted == Counted(registry[m].flap, success)
             current == registry[m].row.status
             judged  == Judged(counted, success, current)
         IN  /\ registry' = [registry EXCEPT ![m] = EntryWith(@, counted, judged)]
             /\ streak' = [streak EXCEPT ![m] =
                              IF success THEN 0 ELSE Bump(@, DownThreshold)]
             /\ IF judged = current THEN NoTransition ELSE Transition(m, judged)
             /\ out' = [result |-> m, live |-> TRUE]

\* Mutants of MarkStaleAndRecord: the status of an unregistered monitor is written
\* too; or the result is counted as a failure.
MarkStaleUnregistered(m) ==
    /\ out' = [result |-> m, live |-> FALSE]
    /\ Transition(m, "Stale")
    /\ UNCHANGED <<registry, streak>>

MarkStaleCounting(m) ==
    /\ out' = [result |-> m, live |-> FALSE]
    /\ UNCHANGED streak
    /\ IF registry[m] # Absent /\ registry[m].row.status # "Stale"
       THEN /\ registry' = [registry EXCEPT ![m] =
                                EntryWith(@, Counted(@.flap, FALSE), "Stale")]
            /\ Transition(m, "Stale")
       ELSE NoTransition /\ UNCHANGED registry

\* mark_stale_and_record: to Stale at once and past the counters; the result goes
\* to the writer even without a registered monitor, and never to /ws.
MarkStaleAndRecord(m) ==
    /\ out' = [result |-> m, live |-> FALSE]
    /\ UNCHANGED streak
    /\ IF registry[m] # Absent /\ registry[m].row.status # "Stale"
       THEN /\ registry' = [registry EXCEPT ![m] = EntryWith(@, @.flap, "Stale")]
            /\ Transition(m, "Stale")
       ELSE NoTransition /\ UNCHANGED registry

HandleOutcome(m, outcome) ==
    IF outcome = "unavailable" THEN MarkStaleAndRecord(m)
    ELSE ApplyResult(m, outcome = "success")

\* What a task can end with: a stand-in only reports that there is no collector;
\* a panic is turned into an Unavailable of the monitor `owners` names.
Ends(task) == IF task.way = "none" THEN {"unavailable"} ELSE Outcome \cup {"panic"}

\* handle_joined: tasks end in any order, whatever the order they began in.
HandleJoined(task) ==
    /\ AtRest
    /\ tasks[task] > 0
    /\ \E end \in Ends(task) :
        HandleOutcome(task.id, IF end = "panic" THEN "unavailable" ELSE end)
    /\ tasks' = [tasks EXCEPT ![task] = @ - 1]
    /\ UNCHANGED <<collectors, quarantined, assigned, pushes, hand>>

-----------------------------------------------------------------------------
\* Agents (ingest.rs and assignments.rs of crates/backend).

\* Mutant of AgentPushes: the channel has no bound.
AgentPushesUnbounded(m, outcome) ==
    /\ monitors[m] # Absent
    /\ monitors[m].linked
    /\ pushes' = Append(pushes, [id |-> m, outcome |-> outcome])
    /\ UNCHANGED <<monitors, registry, collectors, quarantined, tasks, assigned,
                   hand, out, announced, streak, budget>>

\* POST ingest: a result for a monitor that names the agent is submitted; into a
\* full channel it is dropped, which changes nothing.
AgentPushes(m, outcome) ==
    /\ monitors[m] # Absent
    /\ monitors[m].linked
    /\ Len(pushes) < IngestCapacity
    /\ pushes' = Append(pushes, [id |-> m, outcome |-> outcome])
    /\ UNCHANGED <<monitors, registry, collectors, quarantined, tasks, assigned,
                   hand, out, announced, streak, budget>>

\* GET assignments: drained, not peeked.
AgentPulls ==
    /\ assigned # {}
    /\ assigned' = {}
    /\ UNCHANGED <<monitors, registry, collectors, quarantined, tasks, pushes,
                   hand, out, announced, streak, budget>>

\* handle_pushed for a monitor already registered.
HandlePushed ==
    /\ AtRest
    /\ pushes # <<>>
    /\ registry[Head(pushes).id] # Absent
    /\ pushes' = Tail(pushes)
    /\ HandleOutcome(Head(pushes).id, Head(pushes).outcome)
    /\ UNCHANGED <<collectors, quarantined, tasks, assigned, hand>>

\* handle_pushed for one that is not: first a resync, here...
HandlePushedUnknown ==
    /\ AtRest
    /\ pushes # <<>>
    /\ registry[Head(pushes).id] = Absent
    /\ pushes' = Tail(pushes)
    /\ hand' = Head(pushes)
    /\ \/ Reconcile /\ UNCHANGED budget
       \/ StoreFails /\ UNCHANGED <<registry, collectors, quarantined>>
    /\ out' = Silent
    /\ UNCHANGED <<monitors, tasks, assigned, announced, streak>>

\* ...then the result, after the awaits in between let the others run.
HandlePushedResynced ==
    /\ ~AtRest
    /\ hand' = Absent
    /\ HandleOutcome(hand.id, hand.outcome)
    /\ UNCHANGED <<collectors, quarantined, tasks, assigned, pushes>>

-----------------------------------------------------------------------------
\* The daemon is killed and started again: the table is all that survives.  (Killed
\* inside a handler it may also have written a status it never announced: what is
\* said about `announced` is said of runs without restarts.)
Restart ==
    /\ budget.crashes > 0
    /\ budget' = [budget EXCEPT !.crashes = @ - 1]
    /\ registry' = [m \in Id |-> Absent]
    /\ collectors' = [m \in Id |-> Absent]
    /\ quarantined' = {}
    /\ tasks' = [task \in Task |-> 0]
    /\ assigned' = {}
    /\ pushes' = <<>>
    /\ hand' = Absent
    /\ out' = Silent
    /\ UNCHANGED <<monitors, announced, streak>>

LastAnnounced(row) ==
    IF row # Absent /\ row.status \in Verdict THEN row.status ELSE Absent

Init ==
    /\ monitors \in [Id -> InitialRows \cup {Absent}]
    /\ registry = [m \in Id |-> Absent]
    /\ collectors = [m \in Id |-> Absent]
    /\ quarantined = {}
    /\ tasks = [task \in Task |-> 0]
    /\ assigned = {}
    /\ pushes = <<>>
    /\ hand = Absent
    /\ out = Silent
    /\ announced = [m \in Id |-> LastAnnounced(monitors[m])]
    /\ streak = [m \in Id |-> 0]
    /\ budget = [ops |-> MaxOps, faults |-> MaxFaults, crashes |-> MaxCrashes]

\* The steps that handle a result, and the others.
Handles ==
    \/ \E task \in Task : HandleJoined(task)
    \/ HandlePushed
    \/ HandlePushedResynced

HandlesNone ==
    \/ Commands
    \/ Resync
    \/ \E m \in Id : DeadlinePasses(m)
    \/ DispatchDue
    \/ \E m \in Id, outcome \in Outcome : AgentPushes(m, outcome)
    \/ AgentPulls
    \/ HandlePushedUnknown
    \/ Restart

Next == Handles \/ HandlesNone

Spec == Init /\ [][Next]_vars

-----------------------------------------------------------------------------
(***************************************************************************)
(* Fairness.  tokio::select! picks among the ready branches at random, so a *)
(* branch that stays ready is taken; timers fire; a network probe has a    *)
(* hard timeout, a stand-in returns at once.  Nothing bounds a collector's *)
(* poll, and nobody obliges an operator or an agent to act.                *)
(***************************************************************************)
Fairness ==
    /\ WF_vars(Resync)
    /\ WF_vars(DispatchDue)
    /\ WF_vars(HandlePushed)
    /\ WF_vars(HandlePushedUnknown)
    /\ WF_vars(HandlePushedResynced)
    /\ \A m \in Id : WF_vars(DeadlinePasses(m))
    /\ \A task \in {t \in Task : t.way # "poll"} : WF_vars(HandleJoined(task))

FairSpec == Spec /\ Fairness

-----------------------------------------------------------------------------
(***************************************************************************)
(* Properties.                                                             *)
(***************************************************************************)

\* Every variable keeps its type.
TypeOK ==
    /\ monitors \in Table
    /\ registry \in [Id -> Entry \cup {Absent}]
    /\ collectors \in [Id -> Target \cup {Absent}]
    /\ quarantined \in SUBSET Id
    /\ tasks \in [Task -> 0..MaxTasks]
    /\ assigned \in SUBSET Id
    /\ pushes \in Seq(Push)
    /\ Len(pushes) <= IngestCapacity
    /\ hand \in Push \cup {Absent}
    /\ out \in [result : 0..MaxId, live : BOOLEAN]
    /\ announced \in [Id -> Verdict \cup {Absent}]
    /\ streak \in [Id -> 0..DownThreshold]
    /\ budget \in [ops : 0..MaxOps, faults : 0..MaxFaults, crashes : 0..MaxCrashes]

\* The engine acts only on what it may act on: a paused monitor or one with an
\* invalid interval is never scheduled, and a quarantined one never is, whatever
\* commands, late results and restarts come in between two resyncs.
OnlyRunnableScheduled ==
    \A m \in Registered :
        /\ registry[m].row.valid
        /\ registry[m].row.status # "Paused"
        /\ m \notin quarantined
        /\ monitors[m] # Absent => monitors[m].valid

\* What makes a monitor Down, in the table or in the alerts, is the last of
\* DownThreshold failed results counted under its id that no successful one separates -
\* across resyncs, restarts, late results and results that were merely unavailable.
\* They are its own, and of its present target, if the engine had nothing left of the
\* id's former monitor or target when the id came to stand for this one.  Where it had
\* (the id removed and given out again, or the target edited, before the registry and
\* the results in flight have forgotten it) the failures of the one are counted on for
\* the other, as resync keeps the FlapState of any id it knows: for a new monitor
\* under an old id IdReuse!DownIsItsOwn shows what comes of that.
BecomesDown(m) ==
    \/ announced[m] # "Down" /\ announced'[m] = "Down"
    \/ /\ monitors'[m] # Absent
       /\ monitors'[m].status = "Down"
       /\ monitors[m] = Absent \/ monitors[m].status # "Down"

DownIsEarned ==
    [][\A m \in Id : BecomesDown(m) => streak'[m] >= DownThreshold]_vars

\* Once the registry has dropped a paused monitor the engine leaves it paused:
\* of all the results still in flight or queued for it none changes its status,
\* only an operator's command does.
PauseSticks ==
    [][\A m \in Id :
          (/\ monitors[m] # Absent /\ monitors[m].status = "Paused"
           /\ registry[m] = Absent
           /\ monitors'[m] # monitors[m])
          => budget'.ops < budget.ops]_vars

\* The last alert submitted for a monitor says what its status now is, both in the
\* table and in the copy the engine evaluates.
LastAlertTrue ==
    \A m \in Id :
        /\ monitors[m] # Absent /\ monitors[m].status \in Verdict
           => announced[m] = monitors[m].status
        /\ registry[m] # Absent /\ registry[m].row.status \in Verdict
           => announced[m] = registry[m].row.status

\* No status write has failed and nobody has killed the daemon.
Undisturbed == budget.faults = MaxFaults /\ budget.crashes = MaxCrashes

\* The alerts and the statuses agree across overlapping results, stale copies and
\* resyncs, pauses and removals, until a status write fails or the daemon is killed:
\* both lose a transition between its write and its alert for good.
FeedMatchesStatus == Undisturbed => LastAlertTrue

\* What the feeds miss is never mistaken for a failure: neither an unavailable
\* result nor a panic moves a monitor to Down or counts toward it.
UnavailableIsNotDown ==
    [][(out'.result # 0 /\ ~out'.live) =>
          \A m \in Id : /\ ~BecomesDown(m)
                        /\ registry[m] # Absent /\ registry'[m] # Absent
                           => registry'[m].flap = registry[m].flap]_vars

-----------------------------------------------------------------------------
\* The engine's copy agrees with the table.
InSync(m) ==
    IF Eligible(monitors[m])
    THEN registry[m] # Absent /\ registry[m].row = monitors[m]
    ELSE registry[m] = Absent

\* The registry catches up with the table again and again, whatever operators,
\* failed writes and late results do to either.
RegistryCatchesUp == \A m \in Id : []<>InSync(m)

\* A monitor the engine probes itself does not stay Pending for ever.
AwaitsVerdict(m) ==
    /\ Eligible(monitors[m])
    /\ monitors[m].status = "Pending"
    /\ monitors[m].kind = "network"
    /\ ~monitors[m].linked

PendingResolves == \A m \in Id : AwaitsVerdict(m) ~> ~AwaitsVerdict(m)

\* What the comment on resync says, "picks up monitors added/removed/edited since the
\* last sync", of the collectors: again and again the collector polls the target the
\* registry holds.  The code keeps a collector by its monitor's id, whatever its target.
EditsReachCollectors ==
    \A m \in Id : []<>(collectors[m] = Absent \/ registry[m] = Absent
                       \/ collectors[m] = registry[m].row.target)

-----------------------------------------------------------------------------
\* The status column as its readers are told it.
Told == [m \in Id |-> IF monitors[m] = Absent THEN "None" ELSE StatusRead(monitors[m])]

Promised   == INSTANCE MonitorLifecycle
                  WITH Monitor <- Id, status <- Told, LateVerdicts <- TRUE
Documented == INSTANCE MonitorLifecycle
                  WITH Monitor <- Id, status <- Told, LateVerdicts <- FALSE

\* Every behaviour of the scheduler, its operators and its agents is one of the
\* status machine a reader of the table may count on.
KeepsLifecycle == Promised!LSpec

\* The machine DESIGN.md 5.3 draws, which leaves Paused by a user's resume alone.
KeepsDocumentedLifecycle == Documented!LSpec
=============================================================================
