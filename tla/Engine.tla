-------------------------------- MODULE Engine --------------------------------
(***************************************************************************)
(* The running daemon and its shutdown: EngineHandle of                    *)
(* crates/engine/src/lib.rs with the five tasks it spawns, the backend's   *)
(* server, and the code of src/main.rs that starts and stops them.         *)
(*                                                                         *)
(* The writer and the alert task are the modules ResultWriter and          *)
(* AlertDelivery.  Nothing tells either of them to stop: the writer ends   *)
(* when the scheduler, its only sender, has ended, and the alert task when *)
(* the scheduler and the watchdog have.  The scheduler's own decisions are *)
(* module Scheduler's; here an outcome is a result to write, with or       *)
(* without a status to persist and an alert.                               *)
(***************************************************************************)
EXTENDS Naturals, Sequences

CONSTANTS Monitor,                               \* as in ResultWriter
          WriterCapacity, BatchSize, MaxResults,
          AlertCapacity, RetryCapacity, MaxAlerts, MaxRefusals,
          MaxFaults,                             \* in the writer and in the alert task
          IngestCapacity,                        \* EngineConfig::ingest_capacity
          MaxProbes,                             \* bound on probes in flight
          MaxOpen                                \* bound on requests in flight

ASSUME EngineAssumption ==
    /\ WriterCapacity \in Nat \ {0} /\ BatchSize \in Nat \ {0} /\ MaxResults \in Nat
    /\ AlertCapacity \in Nat \ {0} /\ RetryCapacity \in Nat \ {0} /\ MaxAlerts \in Nat
    /\ MaxRefusals \in Nat /\ MaxFaults \in Nat
    /\ IngestCapacity \in Nat \ {0} /\ MaxProbes \in Nat /\ MaxOpen \in Nat

VARIABLES
    main,         \* how far main is: serving, or which task its shutdown awaits
    mode,         \* "daemon" (start and web) or "tui", which serves itself only
    stop,         \* the shutdown channel's value
    ready,        \* the pruner's ready channel's value
    scheduler,    \* what the scheduler task does
    persisting,   \* its handler awaits set_monitor_status
    probes,       \* tasks in its JoinSet
    pushes,       \* how many results the pushed-result channel holds
    watchdog,     \* what the watchdog task does
    pruner,       \* what the pruner task does
    server,       \* the backend's server task
    open,         \* ingest requests it is handling
    joined,       \* history: outcomes of registered monitors the scheduler has taken
    transitions,  \* history: statuses written
    cut,          \* history: handlers the drain deadline cut off
    exists, queue, batch, writing, inserted, results, faults,       \* ResultWriter
    requests, alerting, current, outcome, retry, pending, recorded, \* AlertDelivery
    received, alerts, trouble

mainVars      == <<main, mode, stop, ready>>
schedulerVars == <<scheduler, persisting, probes, joined, cut>>
serverVars    == <<server, open>>
writerVars    == <<exists, queue, batch, writing, inserted, results, faults>>
alertVars     == <<requests, alerting, current, outcome, retry, pending, recorded,
                   received, alerts, trouble>>
engineVars    == <<mainVars, schedulerVars, serverVars, pushes, watchdog, pruner, transitions>>

vars == <<engineVars, writerVars, alertVars>>

-----------------------------------------------------------------------------
\* The writer's channel is open while the scheduler task is there.
WriterHeld == scheduler # "ended"

Writer == INSTANCE ResultWriter
             WITH Capacity <- WriterCapacity, phase <- writing, held <- WriterHeld,
                  submitted <- results

\* The alerts' channel is open while a clone of Alerts is: one moved into the
\* scheduler, the other into the watchdog.
AlertsHeld == scheduler # "ended" \/ watchdog # "ended"

Alerting == INSTANCE AlertDelivery
               WITH Capacity <- AlertCapacity, MaxAlertFaults <- MaxFaults,
                    held <- AlertsHeld, submitted <- alerts, sinkTrouble <- trouble

Stage == <<"scheduler", "watchdog", "writer", "alerts", "pruner", "server">>

Main      == {"booting", "serving", "exited"} \cup {Stage[i] : i \in DOMAIN Stage}
Loop      == {"resyncing", "looping", "draining", "ended"}
Sweeper   == {"idle", "sweeping", "ended"}
Pruner    == {"waiting", "passing", "ended"}
Server    == {"serving", "closing", "ended"}

-----------------------------------------------------------------------------
\* The scheduler.  Results and alerts are submitted without awaiting anything.

ResyncBegins ==
    /\ scheduler = "looping" /\ ~persisting
    /\ scheduler' = "resyncing"
    /\ UNCHANGED <<mainVars, persisting, probes, joined, cut, serverVars, pushes,
                   watchdog, pruner, transitions, writerVars, alertVars>>

ResyncEnds ==
    /\ scheduler = "resyncing"
    /\ scheduler' = "looping"
    /\ UNCHANGED <<mainVars, persisting, probes, joined, cut, serverVars, pushes,
                   watchdog, pruner, transitions, writerVars, alertVars>>

\* dispatch_due; what is dispatched must be within the bound on results.
Dispatch ==
    /\ scheduler = "looping" /\ ~persisting
    /\ probes < MaxProbes /\ joined + probes < MaxResults
    /\ probes' = probes + 1
    /\ UNCHANGED <<mainVars, scheduler, persisting, joined, cut, serverVars, pushes,
                   watchdog, pruner, transitions, writerVars, alertVars>>

\* How many outcomes the scheduler has in hand.
InHand == IF persisting THEN 1 ELSE 0

\* An outcome in hand is a result to submit, or a status to persist first; one of a
\* monitor the registry has dropped is ignored.
Applied ==
    \/ UNCHANGED <<joined, persisting, writerVars>>
    \/ /\ joined' = joined + 1
       /\ \E m \in Monitor : Writer!Submit(m)
       /\ UNCHANGED persisting
    \/ /\ joined' = joined + 1
       /\ alerts < MaxAlerts
       /\ persisting' = TRUE
       /\ UNCHANGED writerVars

\* Mutant of TakesOutcome: the drain only waits for the tasks.
TakesOutcomeInLoop ==
    /\ scheduler \in {"looping", "draining"} /\ ~persisting
    /\ probes > 0
    /\ probes' = probes - 1
    /\ UNCHANGED <<scheduler, watchdog>>
    /\ IF scheduler = "looping" THEN Applied
       ELSE joined' = joined + 1 /\ UNCHANGED <<persisting, writerVars>>
    /\ UNCHANGED <<mainVars, cut, serverVars, pushes, pruner, transitions, alertVars>>

\* handle_joined, in the loop or in the drain.
TakesOutcome ==
    /\ scheduler \in {"looping", "draining"} /\ ~persisting
    /\ probes > 0
    /\ probes' = probes - 1
    /\ UNCHANGED <<scheduler, watchdog>>
    /\ Applied
    /\ UNCHANGED <<mainVars, cut, serverVars, pushes, pruner, transitions, alertVars>>

\* handle_pushed, which the drain does not call.
TakesPush ==
    /\ scheduler = "looping" /\ ~persisting
    /\ pushes > 0 /\ joined + probes < MaxResults
    /\ pushes' = pushes - 1
    /\ UNCHANGED <<scheduler, watchdog>>
    /\ Applied
    /\ UNCHANGED <<mainVars, probes, cut, serverVars, pruner, transitions, alertVars>>

\* persist_status returns, having written the status or not; alert and result follow.
Persisted ==
    /\ persisting
    /\ persisting' = FALSE
    /\ transitions' \in {transitions, transitions + 1}
    /\ UNCHANGED <<mainVars, scheduler, watchdog>>
    /\ Alerting!Submit
    /\ \E m \in Monitor : Writer!Submit(m)
    /\ UNCHANGED <<probes, joined, cut, serverVars, pushes, pruner>>

\* shutdown.changed() is taken, between two handlers.
Stops ==
    /\ scheduler = "looping" /\ ~persisting
    /\ stop
    /\ scheduler' = "draining"
    /\ UNCHANGED <<mainVars, persisting, probes, joined, cut, serverVars, pushes,
                   watchdog, pruner, transitions, writerVars, alertVars>>

\* The drain is complete: run returns, and its Writer and Alerts are dropped.
Drained ==
    /\ scheduler = "draining" /\ ~persisting
    /\ probes = 0
    /\ scheduler' = "ended"
    /\ UNCHANGED <<mainVars, persisting, probes, joined, cut, serverVars, pushes,
                   watchdog, pruner, transitions, writerVars, alertVars>>

\* Mutant of DrainDeadline: there is none.
DrainDeadlineNever == FALSE /\ UNCHANGED vars

\* shutdown_deadline: the drain is dropped wherever it stands and the tasks with it.  A
\* status write it awaits is on a thread of its own and goes on.
DrainDeadline ==
    /\ scheduler = "draining"
    /\ scheduler' = "ended"
    /\ probes' = 0
    /\ persisting' = FALSE
    /\ IF persisting
       THEN cut' = cut + 1 /\ transitions' \in {transitions, transitions + 1}
       ELSE UNCHANGED <<cut, transitions>>
    /\ UNCHANGED <<mainVars, joined, serverVars, pushes, watchdog, pruner, writerVars,
                   alertVars>>

-----------------------------------------------------------------------------
\* The watchdog and the pruner.

SweepBegins ==
    /\ watchdog = "idle"
    /\ watchdog' = "sweeping"
    /\ UNCHANGED <<mainVars, schedulerVars, serverVars, pushes, pruner, transitions,
                   writerVars, alertVars>>

\* A sweep marks a monitor and submits its alert.
SweepMarks ==
    /\ watchdog = "sweeping"
    /\ alerts + InHand < MaxAlerts
    /\ transitions' = transitions + 1
    /\ UNCHANGED <<mainVars, scheduler, watchdog>>
    /\ Alerting!Submit
    /\ UNCHANGED <<persisting, probes, joined, cut, serverVars, pushes, pruner,
                   writerVars>>

SweepEnds ==
    /\ watchdog = "sweeping"
    /\ watchdog' = "idle"
    /\ UNCHANGED <<mainVars, schedulerVars, serverVars, pushes, pruner, transitions,
                   writerVars, alertVars>>

WatchdogStops ==
    /\ watchdog = "idle"
    /\ stop
    /\ watchdog' = "ended"
    /\ UNCHANGED <<mainVars, schedulerVars, serverVars, pushes, pruner, transitions,
                   writerVars, alertVars>>

\* The pruner waits for ready, then makes its passes...
PrunerBegins ==
    /\ pruner = "waiting"
    /\ ready
    /\ pruner' = "passing"
    /\ UNCHANGED <<mainVars, schedulerVars, serverVars, pushes, watchdog, transitions,
                   writerVars, alertVars>>

\* ...and stops in the first wait or between two passes, each of which has its limits.
PrunerStops ==
    /\ pruner # "ended"
    /\ stop
    /\ pruner' = "ended"
    /\ UNCHANGED <<mainVars, schedulerVars, serverVars, pushes, watchdog, transitions,
                   writerVars, alertVars>>

\* The writer's and the alert task's own steps.
WriterTakes ==
    /\ UNCHANGED <<engineVars, alertVars>>
    /\ Writer!Receive \/ Writer!Closed

WriterFlushes ==
    /\ UNCHANGED <<engineVars, alertVars>>
    /\ Writer!Tick \/ Writer!Flush

AlertsTake ==
    /\ UNCHANGED <<engineVars, writerVars>>
    /\ Alerting!Take \/ Alerting!TaskEnds

AlertsRetry ==
    /\ UNCHANGED <<engineVars, writerVars>>
    /\ Alerting!Drain

AlertsGoOn ==
    /\ UNCHANGED <<engineVars, writerVars>>
    /\ Alerting!Notified \/ Alerting!Record \/ Alerting!Retried

-----------------------------------------------------------------------------
\* The server.  The embedded one of `monitra tui` is never told to close.

RequestArrives ==
    /\ server = "serving"
    /\ open < MaxOpen
    /\ open' = open + 1
    /\ UNCHANGED <<mainVars, schedulerVars, server, pushes, watchdog, pruner, transitions,
                   writerVars, alertVars>>

\* Mutant of RequestEnds: the channel has no bound.
RequestEndsUnbounded ==
    /\ open > 0
    /\ open' = open - 1
    /\ pushes' = pushes + 1
    /\ UNCHANGED <<mainVars, schedulerVars, server, watchdog, pruner, transitions,
                   writerVars, alertVars>>

\* An ingest request hands in its result and is answered.  The channel may be full, or
\* its receiver gone with the scheduler.
RequestEnds ==
    /\ open > 0
    /\ open' = open - 1
    /\ pushes' = IF pushes < IngestCapacity /\ scheduler # "ended"
                 THEN pushes + 1 ELSE pushes
    /\ UNCHANGED <<mainVars, schedulerVars, server, watchdog, pruner, transitions,
                   writerVars, alertVars>>

\* with_graceful_shutdown: nothing new is accepted, what is open is finished.
ServerCloses ==
    /\ \/ server = "serving" /\ stop /\ mode = "daemon" /\ server' = "closing"
       \/ server = "closing" /\ open = 0 /\ server' = "ended"
    /\ UNCHANGED <<mainVars, schedulerVars, open, pushes, watchdog, pruner, transitions,
                   writerVars, alertVars>>

-----------------------------------------------------------------------------
\* main.

\* mark_ready, once the server has been spawned.
Boots ==
    /\ main = "booting"
    /\ main' = "serving"
    /\ ready' = TRUE
    /\ UNCHANGED <<mode, stop, schedulerVars, serverVars, pushes, watchdog, pruner,
                   transitions, writerVars, alertVars>>

\* A signal, or the end of the terminal's render loop; or the server task is gone.
Shutdown ==
    /\ main = "serving"
    /\ main' = "scheduler"
    /\ stop' = TRUE
    /\ \/ UNCHANGED serverVars
       \/ mode = "daemon" /\ server' = "ended" /\ open' = 0
    /\ UNCHANGED <<mode, ready, schedulerVars, pushes, watchdog, pruner, transitions,
                   writerVars, alertVars>>

\* The task main awaits is done; main awaits the server only in a daemon.
Over(stage) ==
    \/ stage = "scheduler" /\ scheduler = "ended"
    \/ stage = "watchdog"  /\ watchdog = "ended"
    \/ stage = "writer"    /\ writing = "ended"
    \/ stage = "alerts"    /\ alerting = "ended"
    \/ stage = "pruner"    /\ pruner = "ended"
    \/ stage = "server"    /\ (server = "ended" \/ mode = "tui")

\* Mutant of Awaited: the writer is not awaited.
AwaitedButWriter ==
    /\ \E i \in DOMAIN Stage :
          /\ main = Stage[i]
          /\ Over(Stage[i]) \/ Stage[i] = "writer"
          /\ main' = IF i = Len(Stage) THEN "exited" ELSE Stage[i + 1]
    /\ UNCHANGED <<mode, stop, ready, schedulerVars, serverVars, pushes, watchdog, pruner,
                   transitions, writerVars, alertVars>>

\* EngineHandle::shutdown awaits the tasks one after another.
Awaited ==
    /\ \E i \in DOMAIN Stage :
          /\ main = Stage[i]
          /\ Over(Stage[i])
          /\ main' = IF i = Len(Stage) THEN "exited" ELSE Stage[i + 1]
    /\ UNCHANGED <<mode, stop, ready, schedulerVars, serverVars, pushes, watchdog, pruner,
                   transitions, writerVars, alertVars>>

-----------------------------------------------------------------------------
Init ==
    /\ main = "booting"
    /\ mode \in {"daemon", "tui"}
    /\ stop = FALSE /\ ready = FALSE
    /\ scheduler = "resyncing" /\ persisting = FALSE
    /\ probes = 0 /\ pushes = 0
    /\ watchdog = "idle"
    /\ pruner = "waiting"
    /\ server = "serving" /\ open = 0
    /\ joined = 0 /\ transitions = 0 /\ cut = 0
    /\ Writer!Init
    /\ Alerting!AlertsInit

SchedulerStep ==
    \/ ResyncBegins \/ ResyncEnds \/ Dispatch \/ TakesOutcome \/ TakesPush \/ Persisted
    \/ Stops \/ Drained \/ DrainDeadline

TaskStep ==
    \/ SchedulerStep
    \/ SweepBegins \/ SweepMarks \/ SweepEnds \/ WatchdogStops
    \/ PrunerBegins \/ PrunerStops
    \/ WriterTakes \/ WriterFlushes
    \/ AlertsTake \/ AlertsRetry \/ AlertsGoOn
    \/ RequestArrives \/ RequestEnds \/ ServerCloses
    \/ Boots \/ Shutdown \/ Awaited

\* The process exits, and with it whatever still runs.
Next == main # "exited" /\ TaskStep

Spec == Init /\ [][Next]_vars

\* The store, the sink and the requests' clients answer.  Probes need not: a Kubernetes
\* poll has no timeout.  select! picks among its ready branches at random, so the
\* shutdown's is taken though others are ready each time.
FairSpec ==
    /\ Spec
    /\ WF_vars(Boots \/ Awaited)
    /\ WF_vars(ResyncEnds \/ Persisted \/ Drained \/ DrainDeadline) /\ SF_vars(Stops)
    /\ WF_vars(SweepEnds) /\ SF_vars(WatchdogStops)
    /\ WF_vars(PrunerStops)
    /\ WF_vars(WriterTakes \/ WriterFlushes)
    /\ WF_vars(AlertsTake \/ AlertsGoOn)
    /\ WF_vars(RequestEnds) /\ WF_vars(ServerCloses)

-----------------------------------------------------------------------------
(***************************************************************************)
(* Properties.                                                             *)
(***************************************************************************)
TypeOK ==
    /\ main \in Main
    /\ mode \in {"daemon", "tui"}
    /\ stop \in BOOLEAN /\ ready \in BOOLEAN
    /\ scheduler \in Loop /\ persisting \in BOOLEAN
    /\ probes \in 0..MaxProbes
    /\ pushes \in 0..IngestCapacity
    /\ watchdog \in Sweeper
    /\ pruner \in Pruner
    /\ server \in Server /\ open \in 0..MaxOpen
    /\ joined \in 0..MaxResults
    /\ transitions \in Nat /\ cut \in Nat
    /\ Writer!TypeOK
    /\ Alerting!AlertsTypeOK

\* A shutdown leaves nothing behind: when the process exits after one, every result the
\* writer accepted has been in a transaction and every alert accepted has been tried,
\* and no task of the engine is still there to produce another.
NothingLeftBehind ==
    main = "exited" =>
        /\ scheduler = "ended" /\ watchdog = "ended" /\ pruner = "ended"
        /\ writing = "ended" /\ queue = <<>> /\ batch = <<>>
        /\ alerting = "ended" /\ requests = <<>>

\* No outcome is lost between a probe and the writer, nor a status change between the
\* table and the alerts: the drain deadline may cut off one handler and nothing else.
OutcomesAccounted ==
    /\ cut <= 1
    /\ joined = results + InHand + cut
    /\ transitions <= alerts + cut

\* Shutdown ends although probes hang: the engine's tasks end in an order in which none
\* waits for one that main or another task still keeps open.
ShutdownEnds == stop ~> main = "exited"
=============================================================================
