----------------------------- MODULE EngineProofs -----------------------------
(***************************************************************************)
(* The engine, of any size: what a shutdown leaves behind, the types, and  *)
(* that the writer and the alert task keep their promises as parts of it.  *)
(***************************************************************************)
EXTENDS Engine, SequenceTheorems, TLAPS

-----------------------------------------------------------------------------
\* What main has awaited is over.
AwaitedAreOver ==
    /\ main \notin {"booting", "serving", "scheduler"} => scheduler = "ended"
    /\ main \in {"writer", "alerts", "pruner", "server", "exited"} => watchdog = "ended"
    /\ main \in {"alerts", "pruner", "server", "exited"} => writing = "ended"
    /\ main \in {"pruner", "server", "exited"} => alerting = "ended"
    /\ main \in {"server", "exited"} => pruner = "ended"

\* A task that has ended has been through all it was sent, and its senders are gone.
EndedAreEmpty ==
    /\ writing = "last" => scheduler = "ended" /\ queue = <<>>
    /\ writing = "ended" => scheduler = "ended" /\ queue = <<>> /\ batch = <<>>
    /\ alerting = "ended" => ~AlertsHeld /\ requests = <<>>

EInv == main \in Main /\ AwaitedAreOver /\ EndedAreEmpty

LEMMA InitEInv == Init => EInv
<1> SUFFICES ASSUME Init PROVE EInv
    OBVIOUS
<1> QED
    BY DEF Init, EInv, AwaitedAreOver, EndedAreEmpty, Main, Stage, Writer!Init,
           Alerting!AlertsInit

\* Each kind of step keeps it.
LEMMA SchedulerKeepsEInv == ASSUME EInv, SchedulerStep PROVE EInv'
<1> USE DEF EInv, AwaitedAreOver, EndedAreEmpty, AlertsHeld, WriterHeld, mainVars,
            serverVars, writerVars, alertVars
<1>1. CASE ResyncBegins
      BY <1>1 DEF ResyncBegins
<1>2. CASE ResyncEnds
      BY <1>2 DEF ResyncEnds
<1>3. CASE Dispatch
      BY <1>3 DEF Dispatch
<1>4. CASE TakesOutcome
      BY <1>4 DEF TakesOutcome, Applied, Writer!Submit
<1>5. CASE TakesPush
      BY <1>5 DEF TakesPush, Applied, Writer!Submit
<1>6. CASE Persisted
      BY <1>6 DEF Persisted, Writer!Submit, Alerting!Submit
<1>7. CASE Stops
      BY <1>7 DEF Stops
<1>8. CASE Drained
      BY <1>8 DEF Drained
<1>9. CASE DrainDeadline
      BY <1>9 DEF DrainDeadline
<1> QED
    BY <1>1, <1>2, <1>3, <1>4, <1>5, <1>6, <1>7, <1>8, <1>9 DEF SchedulerStep

LEMMA OthersKeepEInv ==
    ASSUME EInv,
           \/ SweepBegins \/ SweepMarks \/ SweepEnds \/ WatchdogStops
           \/ PrunerBegins \/ PrunerStops
           \/ RequestArrives \/ RequestEnds \/ ServerCloses
    PROVE  EInv'
<1> USE DEF EInv, AwaitedAreOver, EndedAreEmpty, AlertsHeld, mainVars, schedulerVars,
            serverVars, writerVars, alertVars
<1>1. CASE SweepBegins
      BY <1>1 DEF SweepBegins
<1>2. CASE SweepMarks
      BY <1>2 DEF SweepMarks, Alerting!Submit
<1>3. CASE SweepEnds
      BY <1>3 DEF SweepEnds
<1>4. CASE WatchdogStops
      BY <1>4 DEF WatchdogStops
<1>5. CASE PrunerBegins \/ PrunerStops
      BY <1>5 DEF PrunerBegins, PrunerStops
<1>6. CASE RequestArrives \/ RequestEnds \/ ServerCloses
      BY <1>6 DEF RequestArrives, RequestEnds, ServerCloses
<1> QED
    BY <1>1, <1>2, <1>3, <1>4, <1>5, <1>6

LEMMA WriterKeepsEInv == ASSUME EInv, WriterTakes \/ WriterFlushes PROVE EInv'
<1> USE DEF EInv, AwaitedAreOver, EndedAreEmpty, AlertsHeld, WriterHeld, engineVars,
            mainVars, schedulerVars, serverVars, alertVars
<1>1. CASE UNCHANGED <<engineVars, alertVars>> /\ Writer!Receive
      BY <1>1 DEF Writer!Receive
<1>2. CASE UNCHANGED <<engineVars, alertVars>> /\ Writer!Closed
      BY <1>2 DEF Writer!Closed
<1>3. CASE UNCHANGED <<engineVars, alertVars>> /\ Writer!Tick
      BY <1>3 DEF Writer!Tick
<1>4. CASE UNCHANGED <<engineVars, alertVars>> /\ Writer!Flush
      BY <1>4 DEF Writer!Flush
<1> QED
    BY <1>1, <1>2, <1>3, <1>4 DEF WriterTakes, WriterFlushes

LEMMA AlertsKeepEInv ==
    ASSUME EInv, AlertsTake \/ AlertsRetry \/ AlertsGoOn PROVE EInv'
<1> USE DEF EInv, AwaitedAreOver, EndedAreEmpty, AlertsHeld, engineVars, mainVars,
            schedulerVars, serverVars, writerVars
<1>1. CASE UNCHANGED <<engineVars, writerVars>> /\ (Alerting!Take \/ Alerting!TaskEnds)
      BY <1>1 DEF Alerting!Take, Alerting!TaskEnds
<1>2. CASE UNCHANGED <<engineVars, writerVars>> /\ Alerting!Drain
      BY <1>2 DEF Alerting!Drain
<1>3. CASE UNCHANGED <<engineVars, writerVars>>
           /\ (Alerting!Notified \/ Alerting!Record \/ Alerting!Retried)
      BY <1>3 DEF Alerting!Notified, Alerting!Record, Alerting!Retried
<1> QED
    BY <1>1, <1>2, <1>3 DEF AlertsTake, AlertsRetry, AlertsGoOn

\* main goes on only to the stage after one that is over.
LEMMA MainKeepsEInv == ASSUME EInv, Boots \/ Shutdown \/ Awaited PROVE EInv'
<1> USE DEF EInv, EndedAreEmpty, AlertsHeld, schedulerVars, writerVars, alertVars
<1>1. CASE Boots \/ Shutdown
      BY <1>1 DEF Boots, Shutdown, AwaitedAreOver, Main, Stage
<1>2. CASE Awaited
  <2>1. PICK i \in DOMAIN Stage :
            /\ main = Stage[i]
            /\ Over(Stage[i])
            /\ main' = IF i = Len(Stage) THEN "exited" ELSE Stage[i + 1]
        BY <1>2 DEF Awaited
  <2>2. i \in 1..6 /\ Len(Stage) = 6
        BY DEF Stage
  <2>3. EndedAreEmpty'
        BY <1>2 DEF Awaited
  <2>4. main' \in Main
        BY <2>1, <2>2 DEF Main, Stage
  <2>5. AwaitedAreOver'
        BY <1>2, <2>1, <2>2 DEF Awaited, AwaitedAreOver, Over, Stage
  <2> QED
      BY <2>3, <2>4, <2>5
<1> QED
    BY <1>1, <1>2

LEMMA NextEInv == EInv /\ [Next]_vars => EInv'
<1> SUFFICES ASSUME EInv, [Next]_vars PROVE EInv'
    OBVIOUS
<1>1. CASE Next
      BY <1>1, SchedulerKeepsEInv, OthersKeepEInv, WriterKeepsEInv, AlertsKeepEInv,
         MainKeepsEInv DEF Next, TaskStep
<1>2. CASE UNCHANGED vars
      BY <1>2 DEF vars, engineVars, mainVars, schedulerVars, serverVars, writerVars,
                  alertVars, EInv, AwaitedAreOver, EndedAreEmpty, AlertsHeld
<1> QED
    BY <1>1, <1>2

\* EngineHandle::shutdown: when the process exits every task of the engine is over, the
\* writer's channel and batch are empty and so is the alert task's channel, whatever
\* the capacities, the timing and the failures.
THEOREM NothingIsLeftBehind == Spec => []NothingLeftBehind
<1>1. EInv => NothingLeftBehind
      BY DEF EInv, AwaitedAreOver, EndedAreEmpty, NothingLeftBehind
<1> QED
    BY <1>1, InitEInv, NextEInv, PTL DEF Spec

-----------------------------------------------------------------------------
\* The accounts balance while the scheduler is there because nothing is cut off then,
\* and afterwards because nothing is in hand any more.
CountersAreNumbers == /\ joined \in Nat /\ results \in Nat /\ cut \in Nat
                      /\ transitions \in Nat /\ alerts \in Nat

CutEnds == /\ scheduler # "ended" => cut = 0
           /\ scheduler = "ended" => InHand = 0

AInv == CountersAreNumbers /\ CutEnds /\ OutcomesAccounted

LEMMA InHandIs == /\ persisting => InHand = 1
                  /\ ~persisting => InHand = 0
                  /\ persisting' => InHand' = 1
                  /\ ~persisting' => InHand' = 0
BY DEF InHand

LEMMA InitAInv == Init => AInv
<1> SUFFICES ASSUME Init PROVE AInv
    OBVIOUS
<1>1. InHand = 0
      BY InHandIs DEF Init
<1>2. /\ joined = 0 /\ results = 0 /\ cut = 0 /\ transitions = 0 /\ alerts = 0
      /\ scheduler # "ended"
      BY DEF Init, Writer!Init, Alerting!AlertsInit
<1> QED
    BY <1>1, <1>2 DEF AInv, CountersAreNumbers, CutEnds, OutcomesAccounted

\* An outcome taken is ignored, submitted or still in hand.
LEMMA AppliedIsAccounted ==
    ASSUME AInv, ~persisting, Applied, scheduler # "ended",
           UNCHANGED <<scheduler, cut, transitions, alerts>>
    PROVE  AInv'
<1>1. InHand = 0
      BY InHandIs
<1>2. \/ joined' = joined /\ results' = results /\ InHand' = 0
      \/ joined' = joined + 1 /\ results' = results + 1 /\ InHand' = 0
      \/ joined' = joined + 1 /\ results' = results /\ InHand' = 1
      BY InHandIs DEF Applied, Writer!Submit, writerVars
<1> QED
    BY <1>1, <1>2 DEF AInv, CountersAreNumbers, CutEnds, OutcomesAccounted

LEMMA SchedulerKeepsAInv == ASSUME AInv, SchedulerStep PROVE AInv'
<1> USE DEF AInv, CountersAreNumbers, CutEnds, OutcomesAccounted
<1>1. CASE ResyncBegins \/ ResyncEnds \/ Dispatch \/ Stops \/ Drained
  <2>1. /\ UNCHANGED <<joined, results, cut, transitions, alerts, persisting>>
        /\ scheduler # "ended"
        /\ scheduler' = "ended" => ~persisting
        BY <1>1 DEF ResyncBegins, ResyncEnds, Dispatch, Stops, Drained, writerVars, alertVars
  <2>2. InHand' = InHand
        BY <2>1 DEF InHand
  <2> QED
      BY <2>1, <2>2, InHandIs
<1>2. CASE TakesOutcome
      BY <1>2, AppliedIsAccounted DEF TakesOutcome, alertVars
<1>3. CASE TakesPush
      BY <1>3, AppliedIsAccounted DEF TakesPush, alertVars
<1>4. CASE Persisted
  <2>1. /\ UNCHANGED <<scheduler, joined, cut>>
        /\ results' = results + 1 /\ alerts' = alerts + 1
        /\ transitions' = transitions \/ transitions' = transitions + 1
        BY <1>4 DEF Persisted, Writer!Submit, Alerting!Submit
  <2>2. InHand = 1 /\ InHand' = 0
        BY <1>4, InHandIs DEF Persisted
  <2> QED
      BY <2>1, <2>2
<1>5. CASE DrainDeadline
  <2>1. /\ scheduler # "ended" /\ scheduler' = "ended" /\ InHand' = 0
        /\ UNCHANGED <<joined, results, alerts>>
        BY <1>5, InHandIs DEF DrainDeadline, writerVars, alertVars
  <2>2. CASE persisting
    <3>1. cut' = cut + 1 /\ (transitions' = transitions \/ transitions' = transitions + 1)
          BY <1>5, <2>2 DEF DrainDeadline
    <3> QED
        BY <2>1, <2>2, <3>1, InHandIs
  <2>3. CASE ~persisting
    <3>1. UNCHANGED <<cut, transitions>>
          BY <1>5, <2>3 DEF DrainDeadline
    <3> QED
        BY <2>1, <2>3, <3>1, InHandIs
  <2> QED
      BY <2>2, <2>3
<1> QED
    BY <1>1, <1>2, <1>3, <1>4, <1>5 DEF SchedulerStep

LEMMA OthersKeepAInv == ASSUME AInv, TaskStep, ~SchedulerStep PROVE AInv'
<1> USE DEF AInv, CountersAreNumbers, CutEnds, OutcomesAccounted, InHand, engineVars,
            schedulerVars, writerVars, alertVars
<1>1. CASE SweepMarks
      BY <1>1 DEF SweepMarks, Alerting!Submit
<1>2. CASE SweepBegins \/ SweepEnds \/ WatchdogStops \/ PrunerBegins \/ PrunerStops
      BY <1>2 DEF SweepBegins, SweepEnds, WatchdogStops, PrunerBegins, PrunerStops
<1>3. CASE RequestArrives \/ RequestEnds \/ ServerCloses \/ Boots \/ Shutdown \/ Awaited
      BY <1>3 DEF RequestArrives, RequestEnds, ServerCloses, Boots, Shutdown, Awaited
<1>4. CASE WriterTakes
      BY <1>4 DEF WriterTakes, Writer!Receive, Writer!Closed
<1>5. CASE WriterFlushes
      BY <1>5 DEF WriterFlushes, Writer!Tick, Writer!Flush
<1>6. CASE AlertsTake \/ AlertsRetry
      BY <1>6 DEF AlertsTake, AlertsRetry, Alerting!Take, Alerting!TaskEnds, Alerting!Drain
<1>7. CASE AlertsGoOn
      BY <1>7 DEF AlertsGoOn, Alerting!Notified, Alerting!Record, Alerting!Retried
<1> QED
    BY <1>1, <1>2, <1>3, <1>4, <1>5, <1>6, <1>7 DEF TaskStep

LEMMA NextAInv == AInv /\ [Next]_vars => AInv'
<1> SUFFICES ASSUME AInv, [Next]_vars PROVE AInv'
    OBVIOUS
<1>1. CASE Next
      BY <1>1, SchedulerKeepsAInv, OthersKeepAInv DEF Next
<1>2. CASE UNCHANGED vars
      BY <1>2 DEF vars, engineVars, schedulerVars, writerVars, alertVars, AInv,
                  CountersAreNumbers, CutEnds, OutcomesAccounted, InHand
<1> QED
    BY <1>1, <1>2

\* Scheduler::run and the watchdog's sweep: whenever it is stopped, every outcome in hand
\* has been submitted to the writer and every status written to the alerts, but for the
\* one handler the drain deadline may cut off.
THEOREM OutcomesAreAccounted == Spec => []OutcomesAccounted
<1>1. AInv => OutcomesAccounted
      BY DEF AInv
<1> QED
    BY <1>1, InitAInv, NextAInv, PTL DEF Spec
-----------------------------------------------------------------------------
\* The types of all but the alert task.  Beyond them: room for what the tasks in flight
\* may bring, and a batch that is flushed as soon as it is full.
Room == joined + probes <= MaxResults

BatchNotFull == writing = "waiting" => Len(batch) < BatchSize

EngineTypes ==
    /\ main \in Main
    /\ mode \in {"daemon", "tui"}
    /\ scheduler \in Loop
    /\ probes \in 0..MaxProbes
    /\ pushes \in 0..IngestCapacity
    /\ watchdog \in Sweeper
    /\ pruner \in Pruner
    /\ server \in Server /\ open \in 0..MaxOpen
    /\ joined \in 0..MaxResults
    /\ transitions \in Nat /\ cut \in Nat
    /\ Room

SwitchTypes == stop \in BOOLEAN /\ ready \in BOOLEAN /\ persisting \in BOOLEAN
WriterTypes == Writer!TypeOK /\ BatchNotFull

TInv == EngineTypes /\ SwitchTypes /\ WriterTypes

LEMMA InitTInv == Init => TInv
<1> SUFFICES ASSUME Init PROVE TInv
    OBVIOUS
<1> USE EngineAssumption DEF EngineAssumption
<1>1. EngineTypes
      BY DEF Init, EngineTypes, Room, Main, Stage, Loop, Sweeper, Pruner, Server
<1>2. WriterTypes
      BY DEF Init, Writer!Init, WriterTypes, BatchNotFull, Writer!TypeOK, Writer!Phase,
             WriterHeld
<1>3. SwitchTypes
      BY Zenon DEF Init, SwitchTypes
<1> QED
    BY <1>1, <1>2, <1>3 DEF TInv

\* What the sender does keeps the channel typed; so does what leaves the task alone.
LEMMA WriterSubmitTypes ==
    ASSUME WriterTypes, NEW m \in Monitor, Writer!Submit(m) PROVE WriterTypes'
<1> USE EngineAssumption
        DEF EngineAssumption, WriterTypes, BatchNotFull, Writer!TypeOK, Writer!Submit
<1>1. results' \in 0..MaxResults
      OBVIOUS
<1>2. queue' \in Seq(Writer!Result) /\ Len(queue') <= WriterCapacity
  <2>1. [number |-> results + 1, monitor |-> m] \in Writer!Result
        BY DEF Writer!Result
  <2> QED
      BY <2>1
<1> QED
    BY <1>1, <1>2 DEF WriterHeld

LEMMA IdleTypes == WriterTypes /\ UNCHANGED writerVars => WriterTypes'
BY DEF WriterTypes, BatchNotFull, Writer!TypeOK, WriterHeld, writerVars

\* The writer's own steps.
LEMMA WriterStepTypes ==
    ASSUME WriterTypes, WriterTakes \/ WriterFlushes PROVE WriterTypes'
<1> USE EngineAssumption
        DEF EngineAssumption, WriterTypes, BatchNotFull, Writer!TypeOK, Writer!Phase
<1>1. CASE Writer!Receive
  <2>1. Len(batch) < BatchSize /\ Head(queue) \in Writer!Result
        BY <1>1 DEF Writer!Receive
  <2>2. batch' \in Seq(Writer!Result) /\ Len(batch') = Len(batch) + 1
        BY <1>1, <2>1 DEF Writer!Receive
  <2>3. queue' \in Seq(Writer!Result) /\ Len(queue') <= WriterCapacity
        BY <1>1 DEF Writer!Receive
  <2> QED
      BY <1>1, <2>1, <2>2, <2>3 DEF Writer!Receive, WriterHeld
<1>2. CASE Writer!Closed \/ Writer!Tick
      BY <1>2 DEF Writer!Closed, Writer!Tick, WriterHeld
<1>3. CASE Writer!Flush
  <2>1. inserted' \in Seq(Writer!Result)
    <3>1. inserted' = inserted \o batch \/ inserted' = inserted
          BY <1>3 DEF Writer!Flush
    <3>2. inserted \o batch \in Seq(Writer!Result)
          BY ConcatProperties
    <3> QED
        BY <3>1, <3>2
  <2>2. faults' \in 0..MaxFaults
        BY <1>3 DEF Writer!Flush
  <2> QED
      BY <1>3, <2>1, <2>2 DEF Writer!Flush, WriterHeld
<1> QED
    BY <1>1, <1>2, <1>3 DEF WriterTakes, WriterFlushes

\* The engine's own variables.
LEMMA AppliedTypes ==
    ASSUME EngineTypes, WriterTypes, Applied,
           joined + 1 <= MaxResults
    PROVE  /\ (joined' = joined \/ joined' = joined + 1) /\ joined' \in 0..MaxResults
           /\ WriterTypes'
<1>1. CASE UNCHANGED <<joined, persisting, writerVars>>
      BY <1>1, IdleTypes DEF EngineTypes
<1>2. CASE /\ joined' = joined + 1
           /\ \E m \in Monitor : Writer!Submit(m)
           /\ UNCHANGED persisting
      BY <1>2, WriterSubmitTypes, EngineAssumption DEF EngineAssumption, EngineTypes
<1>3. CASE joined' = joined + 1 /\ persisting' = TRUE /\ UNCHANGED writerVars
      BY <1>3, IdleTypes, EngineAssumption DEF EngineAssumption, EngineTypes
<1> QED
    BY <1>1, <1>2, <1>3 DEF Applied

LEMMA SwitchesStayTyped == ASSUME SwitchTypes, TaskStep PROVE SwitchTypes'
<1>1. CASE ResyncBegins \/ ResyncEnds \/ Dispatch \/ Persisted \/ Stops \/ Drained
           \/ DrainDeadline
      BY <1>1, Zenon DEF ResyncBegins, ResyncEnds, Dispatch, Persisted, Stops, Drained,
         DrainDeadline, SwitchTypes, mainVars
<1>2. CASE TakesOutcome \/ TakesPush
  <2>1. Applied /\ UNCHANGED mainVars
        BY <1>2 DEF TakesOutcome, TakesPush
  <2> QED
      BY <2>1, Zenon DEF Applied, SwitchTypes, mainVars
<1>3. CASE SweepBegins \/ SweepMarks \/ SweepEnds \/ WatchdogStops \/ PrunerBegins
           \/ PrunerStops
      BY <1>3, Zenon DEF SweepBegins, SweepMarks, SweepEnds, WatchdogStops, PrunerBegins,
         PrunerStops, SwitchTypes, mainVars, schedulerVars
<1>4. CASE WriterTakes \/ WriterFlushes \/ AlertsTake \/ AlertsRetry \/ AlertsGoOn
      BY <1>4, Zenon DEF WriterTakes, WriterFlushes, AlertsTake, AlertsRetry, AlertsGoOn,
         SwitchTypes, engineVars, mainVars, schedulerVars
<1>5. CASE RequestArrives \/ RequestEnds \/ ServerCloses \/ Boots \/ Shutdown \/ Awaited
      BY <1>5, Zenon DEF RequestArrives, RequestEnds, ServerCloses, Boots, Shutdown,
         Awaited, SwitchTypes, mainVars, schedulerVars
<1> QED
    BY <1>1, <1>2, <1>3, <1>4, <1>5 DEF TaskStep, SchedulerStep

LEMMA SchedulerStepTypes == ASSUME TInv, SchedulerStep PROVE TInv'
<1> SUFFICES EngineTypes' /\ WriterTypes'
    BY SwitchesStayTyped DEF TaskStep, TInv
<1>0. EngineTypes /\ WriterTypes
      BY DEF TInv
<1> USE <1>0, EngineAssumption DEF EngineAssumption
<1>1. CASE ResyncBegins \/ ResyncEnds \/ Dispatch \/ Stops \/ Drained \/ DrainDeadline
  <2>1. UNCHANGED writerVars
        BY <1>1 DEF ResyncBegins, ResyncEnds, Dispatch, Stops, Drained, DrainDeadline
  <2>2. EngineTypes'
    <3> USE DEF EngineTypes, Room, Loop, mainVars, serverVars
    <3>1. CASE ResyncBegins \/ ResyncEnds \/ Stops \/ Drained
          BY <3>1 DEF ResyncBegins, ResyncEnds, Stops, Drained
    <3>2. CASE Dispatch
          BY <3>2 DEF Dispatch
    <3>3. CASE DrainDeadline
          BY <3>3 DEF DrainDeadline
    <3> QED
        BY <1>1, <3>1, <3>2, <3>3
  <2> QED
      BY <2>1, <2>2, IdleTypes
<1>2. CASE TakesOutcome
  <2>1. Applied /\ probes > 0 /\ probes' = probes - 1 /\ pushes' = pushes
        BY <1>2 DEF TakesOutcome
  <2>2. joined + 1 <= MaxResults
        BY <2>1 DEF EngineTypes, Room
  <2>3. /\ (joined' = joined \/ joined' = joined + 1) /\ joined' \in 0..MaxResults
        /\ WriterTypes'
        BY <2>1, <2>2, AppliedTypes
  <2>4. EngineTypes'
    <3>1. UNCHANGED <<main, mode, scheduler, watchdog, pruner, server, open, transitions,
                      cut>>
          BY <1>2 DEF TakesOutcome, mainVars, serverVars
    <3>2. /\ joined \in Nat /\ probes \in Nat /\ pushes \in Nat
          /\ probes <= MaxProbes /\ pushes <= IngestCapacity
          /\ joined + probes <= MaxResults
          BY DEF EngineTypes, Room
    <3>3. joined' + probes' <= MaxResults
      <4>1. CASE joined' = joined
            BY <2>1, <3>2, <4>1
      <4>2. CASE joined' = joined + 1
            BY <2>1, <3>2, <4>2
      <4> QED
          BY <2>3, <4>1, <4>2
    <3>4. probes' \in 0..MaxProbes /\ pushes' \in 0..IngestCapacity
          BY <2>1, <3>2
    <3> QED
        BY <2>3, <3>1, <3>3, <3>4 DEF EngineTypes, Room
  <2> QED
      BY <2>3, <2>4
<1>3. CASE TakesPush
  <2>1. Applied /\ joined + probes < MaxResults /\ probes' = probes
        /\ pushes > 0 /\ pushes' = pushes - 1
        BY <1>3 DEF TakesPush
  <2>2. joined + 1 <= MaxResults
        BY <2>1 DEF EngineTypes
  <2>3. /\ (joined' = joined \/ joined' = joined + 1) /\ joined' \in 0..MaxResults
        /\ WriterTypes'
        BY <2>1, <2>2, AppliedTypes
  <2>4. EngineTypes'
    <3>1. UNCHANGED <<main, mode, scheduler, watchdog, pruner, server, open, transitions,
                      cut>>
          BY <1>3 DEF TakesPush, mainVars, serverVars
    <3>2. /\ joined \in Nat /\ probes \in Nat /\ pushes \in Nat
          /\ probes <= MaxProbes /\ pushes <= IngestCapacity
          /\ joined + probes <= MaxResults
          BY DEF EngineTypes, Room
    <3>3. joined' + probes' <= MaxResults
      <4>1. CASE joined' = joined
            BY <2>1, <3>2, <4>1
      <4>2. CASE joined' = joined + 1
            BY <2>1, <3>2, <4>2
      <4> QED
          BY <2>3, <4>1, <4>2
    <3>4. probes' \in 0..MaxProbes /\ pushes' \in 0..IngestCapacity
          BY <2>1, <3>2
    <3> QED
        BY <2>3, <3>1, <3>3, <3>4 DEF EngineTypes, Room
  <2> QED
      BY <2>3, <2>4
<1>4. CASE Persisted
  <2>1. EngineTypes'
        BY <1>4 DEF Persisted, EngineTypes, Room, mainVars, serverVars
  <2>2. WriterTypes'
        BY <1>4, WriterSubmitTypes DEF Persisted
  <2> QED
      BY <2>1, <2>2
<1> QED
    BY <1>1, <1>2, <1>3, <1>4 DEF SchedulerStep

LEMMA OtherStepTypes == ASSUME TInv, TaskStep, ~SchedulerStep PROVE TInv'
<1> SUFFICES EngineTypes' /\ WriterTypes'
    BY SwitchesStayTyped DEF TaskStep, TInv
<1>0. EngineTypes /\ WriterTypes
      BY DEF TInv
<1> USE <1>0, EngineAssumption DEF EngineAssumption
<1>1. CASE SweepMarks
  <2>1. EngineTypes'
        BY <1>1 DEF SweepMarks, EngineTypes, Room, mainVars, serverVars
  <2>2. WriterTypes'
        BY <1>1, IdleTypes DEF SweepMarks
  <2> QED
      BY <2>1, <2>2
<1>2. CASE SweepBegins \/ SweepEnds \/ WatchdogStops \/ PrunerBegins \/ PrunerStops
  <2>1. UNCHANGED writerVars
        BY <1>2 DEF SweepBegins, SweepEnds, WatchdogStops, PrunerBegins, PrunerStops
  <2>2. EngineTypes'
        BY <1>2 DEF SweepBegins, SweepEnds, WatchdogStops, PrunerBegins, PrunerStops,
                    EngineTypes, Room, Sweeper, Pruner, mainVars, schedulerVars, serverVars
  <2> QED
      BY <2>1, <2>2, IdleTypes
<1>3. CASE RequestArrives \/ RequestEnds \/ ServerCloses
  <2>1. UNCHANGED writerVars
        BY <1>3 DEF RequestArrives, RequestEnds, ServerCloses
  <2>2. EngineTypes'
    <3> USE DEF EngineTypes, Room, Server, mainVars, schedulerVars
    <3>1. CASE RequestArrives \/ ServerCloses
          BY <3>1 DEF RequestArrives, ServerCloses
    <3>2. CASE RequestEnds
          BY <3>2 DEF RequestEnds
    <3> QED
        BY <1>3, <3>1, <3>2
  <2> QED
      BY <2>1, <2>2, IdleTypes
<1>4. CASE Boots \/ Shutdown \/ Awaited
  <2>1. UNCHANGED writerVars
        BY <1>4 DEF Boots, Shutdown, Awaited
  <2>2. main' \in Main
    <3>1. CASE Boots \/ Shutdown
          BY <3>1 DEF Boots, Shutdown, Main, Stage
    <3>2. CASE Awaited
          BY <3>2 DEF Awaited, Main, Stage
    <3> QED
        BY <1>4, <3>1, <3>2
  <2>3. EngineTypes'
        BY <1>4, <2>2 DEF Boots, Shutdown, Awaited, EngineTypes, Room, Server,
                          schedulerVars, serverVars
  <2> QED
      BY <2>1, <2>3, IdleTypes
<1>5. CASE WriterTakes \/ WriterFlushes
  <2>1. UNCHANGED <<engineVars, alertVars>>
        BY <1>5 DEF WriterTakes, WriterFlushes
  <2>2. EngineTypes'
        BY <2>1 DEF engineVars, EngineTypes, Room, mainVars, schedulerVars, serverVars
  <2> QED
      BY <1>5, <2>1, <2>2, IdleTypes, WriterStepTypes
<1>6. CASE AlertsTake \/ AlertsRetry \/ AlertsGoOn
  <2>1. UNCHANGED <<engineVars, writerVars>>
        BY <1>6 DEF AlertsTake, AlertsRetry, AlertsGoOn
  <2>2. EngineTypes'
        BY <2>1 DEF engineVars, EngineTypes, Room, mainVars, schedulerVars, serverVars
  <2> QED
      BY <2>1, <2>2, IdleTypes
<1> QED
    BY <1>1, <1>2, <1>3, <1>4, <1>5, <1>6 DEF TaskStep

LEMMA NextTInv == TInv /\ [Next]_vars => TInv'
<1> SUFFICES ASSUME TInv, [Next]_vars PROVE TInv'
    OBVIOUS
<1>1. CASE Next
      BY <1>1, SchedulerStepTypes, OtherStepTypes DEF Next
<1>2. CASE UNCHANGED vars
  <2>1. EngineTypes'
        BY <1>2 DEF vars, engineVars, TInv, EngineTypes, Room, mainVars, schedulerVars,
                    serverVars
  <2>2. SwitchTypes'
        BY <1>2, Zenon DEF vars, engineVars, TInv, SwitchTypes, mainVars, schedulerVars
  <2> QED
      BY <1>2, <2>1, <2>2, IdleTypes DEF vars, TInv
<1> QED
    BY <1>1, <1>2

-----------------------------------------------------------------------------
\* The alert task in the engine is that of AlertDelivery, whose senders are the
\* scheduler and the watchdog: what is proved of it alone holds of it here.
Task == INSTANCE AlertProofs
           WITH Capacity <- AlertCapacity, MaxAlertFaults <- MaxFaults,
                held <- AlertsHeld, submitted <- alerts, sinkTrouble <- trouble

\* What leaves the task alone may at most close its channel.
LEMMA SendersEnd ==
    ASSUME UNCHANGED alertVars,
           scheduler = "ended" => scheduler' = "ended",
           watchdog = "ended" => watchdog' = "ended"
    PROVE  Alerting!Drop \/ UNCHANGED Alerting!alertVars
<1>1. AlertsHeld \in BOOLEAN /\ AlertsHeld' \in BOOLEAN /\ (AlertsHeld' => AlertsHeld)
      BY DEF AlertsHeld
<1> QED
    BY <1>1 DEF Alerting!Drop, Alerting!alertVars, alertVars

LEMMA NextAlerts == [Next]_vars => [Alerting!AlertsNext]_Alerting!alertVars
<1> SUFFICES ASSUME [Next]_vars PROVE Alerting!AlertsNext \/ UNCHANGED Alerting!alertVars
    OBVIOUS
<1> USE DEF Alerting!AlertsNext
<1>1. CASE Persisted \/ SweepMarks
      BY <1>1 DEF Persisted, SweepMarks
<1>2. CASE AlertsTake \/ AlertsRetry \/ AlertsGoOn
      BY <1>2 DEF AlertsTake, AlertsRetry, AlertsGoOn
<1>3. CASE SchedulerStep /\ ~Persisted
  <2>1. UNCHANGED <<alertVars, watchdog>> /\ scheduler # "ended"
        BY <1>3 DEF SchedulerStep, ResyncBegins, ResyncEnds, Dispatch, TakesOutcome,
                    TakesPush, Stops, Drained, DrainDeadline
  <2> QED
      BY <2>1, SendersEnd
<1>4. CASE TaskStep /\ ~SchedulerStep /\ ~SweepMarks
           /\ ~(AlertsTake \/ AlertsRetry \/ AlertsGoOn)
  <2>1. UNCHANGED <<alertVars, scheduler>> /\ (watchdog # "ended" \/ UNCHANGED watchdog)
        BY <1>4 DEF TaskStep, SweepBegins, SweepEnds, WatchdogStops, PrunerBegins,
                    PrunerStops, WriterTakes, WriterFlushes, RequestArrives, RequestEnds,
                    ServerCloses, Boots, Shutdown, Awaited, engineVars, schedulerVars
  <2> QED
      BY <2>1, SendersEnd
<1>5. CASE UNCHANGED vars
  <2>1. UNCHANGED <<alertVars, scheduler, watchdog>>
        BY <1>5 DEF vars, engineVars, schedulerVars
  <2> QED
      BY <2>1, SendersEnd
<1> QED
    BY <1>1, <1>2, <1>3, <1>4, <1>5 DEF Next

LEMMA InitAlerts == Init => Alerting!AlertsInit
BY DEF Init

\* EngineHandle::start: the alert task the engine spawns does what AlertDelivery says, its
\* channel open for as long as the scheduler or the watchdog has its clone of Alerts.
THEOREM AlertTaskRefines == Spec => Alerting!AlertsSpec
BY InitAlerts, NextAlerts, PTL DEF Spec, Alerting!AlertsSpec

\* The two instances of AlertDelivery are the same.
LEMMA SameAlerts ==
    /\ Alerting!AlertsInit => Task!AlertsInit
    /\ [Alerting!AlertsNext]_Alerting!alertVars => [Task!AlertsNext]_Task!alertVars
    /\ Task!AlertsTypeOK => Alerting!AlertsTypeOK
    /\ Task!HistoryIsTrue => Alerting!HistoryIsTrue
    /\ Task!KeptInOrder => Alerting!KeptInOrder
<1>1. Alerting!AlertsInit => Task!AlertsInit
      BY DEF Alerting!AlertsInit, Task!AlertsInit, Alerting!Alert, Task!Alert
<1>2. [Alerting!AlertsNext]_Alerting!alertVars => [Task!AlertsNext]_Task!alertVars
      BY DEF Alerting!AlertsNext, Task!AlertsNext, Alerting!alertVars, Task!alertVars,
             Alerting!Submit, Task!Submit, Alerting!Drop, Task!Drop,
             Alerting!Take, Task!Take, Alerting!TaskEnds, Task!TaskEnds,
             Alerting!Drain, Task!Drain, Alerting!Record, Task!Record,
             Alerting!Notified, Task!Notified, Alerting!Retried, Task!Retried,
             Alerting!SinkAccepts, Task!SinkAccepts, Alerting!SinkErrs, Task!SinkErrs,
             Alerting!Enqueued, Task!Enqueued
<1>3. Task!AlertsTypeOK => Alerting!AlertsTypeOK
      BY DEF Alerting!AlertsTypeOK, Task!AlertsTypeOK, Alerting!Alert, Task!Alert,
             Alerting!AlertPhase, Task!AlertPhase,
             Alerting!DeliveryOutcome, Task!DeliveryOutcome
<1>4. Task!HistoryIsTrue => Alerting!HistoryIsTrue
      BY DEF Alerting!HistoryIsTrue, Task!HistoryIsTrue, Alerting!Alert, Task!Alert
<1>5. Task!KeptInOrder => Alerting!KeptInOrder
      BY DEF Alerting!KeptInOrder, Task!KeptInOrder, Alerting!Waiting, Task!Waiting,
             Alerting!Increasing, Task!Increasing
<1> QED
    BY <1>1, <1>2, <1>3, <1>4, <1>5

LEMMA AlertsAssumed == Task!AlertAssumption
BY EngineAssumption DEF EngineAssumption, Task!AlertAssumption

LEMMA TaskRefines == Spec => Task!AlertsSpec
<1>1. Init => Task!AlertsInit
      BY InitAlerts, SameAlerts
<1>2. [Next]_vars => [Task!AlertsNext]_Task!alertVars
      BY NextAlerts, SameAlerts
<1> QED
    BY <1>1, <1>2, PTL DEF Spec, Task!AlertsSpec

\* handle_request and drain_retries, in the whole engine and at shutdown too: the history
\* calls sent only what has reached the sink, and what is kept for retry stays in order.
THEOREM AlertsKeepTheirWord == Spec => [](Alerting!HistoryIsTrue /\ Alerting!KeptInOrder)
<1>1. Spec => []Task!HistoryIsTrue
      BY TaskRefines, AlertsAssumed, Task!HistoryStaysTrue, PTL
<1>2. Spec => []Task!KeptInOrder
      BY TaskRefines, AlertsAssumed, Task!RetriesKeepOrder, PTL
<1>3. Task!HistoryIsTrue => Alerting!HistoryIsTrue
      BY SameAlerts
<1>4. Task!KeptInOrder => Alerting!KeptInOrder
      BY SameAlerts
<1> QED
    BY <1>1, <1>2, <1>3, <1>4, PTL

\* Every reachable state of the engine is well typed: the channels, the batch and the
\* retry queue keep within their capacities, whatever happens.
THEOREM TypeCorrect == Spec => []TypeOK
<1>1. Spec => []TInv
      BY InitTInv, NextTInv, PTL DEF Spec
<1>2. Spec => []Task!AlertsTypeOK
      BY TaskRefines, AlertsAssumed, Task!AlertsTypeCorrect, PTL
<1>3. TInv /\ Task!AlertsTypeOK => TypeOK
      BY SameAlerts DEF TInv, EngineTypes, SwitchTypes, WriterTypes, TypeOK
<1> QED
    BY <1>1, <1>2, <1>3, PTL

-----------------------------------------------------------------------------
\* The writer in the engine, seen as the buffer of module LossyFifo: what is in the
\* batch and the channel is pending, what is in the table is gone.
Buffer == INSTANCE LossyFifo
             WITH Item <- Writer!Result, Bound <- WriterCapacity + BatchSize,
                  pending <- Writer!Pending, gone <- inserted, open <- WriterHeld

LEMMA Batches ==
    ASSUME TInv
    PROVE  /\ batch \in Seq(Writer!Result) /\ queue \in Seq(Writer!Result)
           /\ Len(batch) <= BatchSize
           /\ inserted \in Seq(Writer!Result)
BY DEF TInv, WriterTypes, Writer!TypeOK

LEMMA SubmitBuffers ==
    ASSUME TInv, NEW m \in Monitor, Writer!Submit(m), UNCHANGED scheduler
    PROVE  [Buffer!FNext]_Buffer!fvars
<1> DEFINE item == [number |-> results + 1, monitor |-> m]
<1>1. /\ WriterHeld /\ results < MaxResults
      /\ UNCHANGED <<batch, inserted>>
      /\ queue' = IF Len(queue) < WriterCapacity THEN Append(queue, item) ELSE queue
      BY DEF Writer!Submit
<1>2. WriterHeld' = WriterHeld
      BY DEF WriterHeld
<1>3. item \in Writer!Result
  <2>1. results + 1 \in 1..MaxResults
        BY <1>1, EngineAssumption DEF EngineAssumption, TInv, WriterTypes,
           Writer!TypeOK
  <2> QED
      BY <2>1 DEF Writer!Result
<1> HIDE DEF item
<1>4. CASE Len(queue) < WriterCapacity
  <2>1. queue' = Append(queue, item)
        BY <1>1, <1>4
  <2>2. Append(queue, item) = queue \o <<item>>
        BY <1>3, Batches
  <2>3. Append(batch \o queue, item) = (batch \o queue) \o <<item>>
        BY <1>3, Batches, ConcatProperties
  <2>4. batch \o (queue \o <<item>>) = (batch \o queue) \o <<item>>
    <3>1. <<item>> \in Seq(Writer!Result)
          BY <1>3
    <3> QED
        BY <3>1, Batches, ConcatAssociative
  <2>5. Writer!Pending' = Append(Writer!Pending, item)
        BY <1>1, <2>1, <2>2, <2>3, <2>4 DEF Writer!Pending
  <2>6. Len(Writer!Pending) < WriterCapacity + BatchSize
    <3>1. Len(batch \o queue) = Len(batch) + Len(queue)
          BY Batches, ConcatProperties
    <3>2. Len(batch) \in Nat /\ Len(queue) \in Nat /\ Len(batch) <= BatchSize
          BY Batches, LenProperties
    <3> QED
        BY <1>4, <3>1, <3>2, EngineAssumption DEF EngineAssumption, Writer!Pending
  <2> QED
      BY <1>1, <1>2, <1>3, <2>5, <2>6 DEF Buffer!FNext, Buffer!Accept
<1>5. CASE ~(Len(queue) < WriterCapacity)
      BY <1>1, <1>2, <1>5 DEF Buffer!fvars, Writer!Pending
<1> QED
    BY <1>4, <1>5

LEMMA ReceiveBuffers ==
    ASSUME TInv, Writer!Receive, UNCHANGED scheduler
    PROVE  [Buffer!FNext]_Buffer!fvars
<1>1. /\ queue # <<>> /\ batch' = Append(batch, Head(queue)) /\ queue' = Tail(queue)
      /\ inserted' = inserted
      BY DEF Writer!Receive
<1>2. /\ Head(queue) \in Writer!Result /\ <<Head(queue)>> \in Seq(Writer!Result)
      /\ Tail(queue) \in Seq(Writer!Result)
      BY <1>1, Batches
<1>3. batch' = batch \o <<Head(queue)>>
      BY <1>1, <1>2, Batches
<1>4. queue = <<Head(queue)>> \o Tail(queue)
      BY <1>1, <1>2, Batches
<1>5. (batch \o <<Head(queue)>>) \o Tail(queue) = batch \o (<<Head(queue)>> \o Tail(queue))
      BY <1>2, Batches, ConcatAssociative
<1>6. Writer!Pending' = Writer!Pending
      BY <1>1, <1>3, <1>4, <1>5 DEF Writer!Pending
<1> QED
    BY <1>1, <1>6 DEF Buffer!fvars, WriterHeld

LEMMA FlushBuffers ==
    ASSUME TInv, Writer!Flush, UNCHANGED scheduler
    PROVE  [Buffer!FNext]_Buffer!fvars
<1>1. /\ batch' = <<>> /\ queue' = queue
      /\ inserted' = inserted \o batch \/ inserted' = inserted
      BY DEF Writer!Flush
<1>2. Writer!Pending' = queue
      BY <1>1, Batches, ConcatEmptySeq DEF Writer!Pending
<1>3. WriterHeld' = WriterHeld
      BY DEF WriterHeld
<1>4. CASE batch = <<>>
      BY <1>1, <1>2, <1>3, <1>4, Batches, ConcatEmptySeq DEF Buffer!fvars, Writer!Pending
<1>5. CASE batch # <<>>
  <2> DEFINE k == Len(batch)
             n == Len(batch \o queue)
  <2>1. /\ batch \o queue \in Seq(Writer!Result)
        /\ n = k + Len(queue)
        /\ \A i \in 1 .. k + Len(queue) :
              (batch \o queue)[i] = IF i <= k THEN batch[i] ELSE queue[i - k]
        BY Batches, ConcatProperties
  <2>2. k \in Nat \ {0} /\ Len(queue) \in Nat
        BY <1>5, Batches, EmptySeq, LenProperties
  <2>3. SubSeq(batch \o queue, 1, k) = batch
    <3>1. /\ SubSeq(batch \o queue, 1, k) \in Seq(Writer!Result)
          /\ Len(SubSeq(batch \o queue, 1, k)) = k
          /\ \A i \in 1 .. k : SubSeq(batch \o queue, 1, k)[i] = (batch \o queue)[i]
          BY <2>1, <2>2
    <3>2. \A i \in 1 .. k : SubSeq(batch \o queue, 1, k)[i] = batch[i]
          BY <2>1, <2>2, <3>1
    <3> QED
        BY <3>1, <3>2, Batches, SeqEqual
  <2>4. SubSeq(batch \o queue, k + 1, n) = queue
    <3>1. /\ SubSeq(batch \o queue, k + 1, n) \in Seq(Writer!Result)
          /\ Len(SubSeq(batch \o queue, k + 1, n)) = Len(queue)
          /\ \A i \in 1 .. Len(queue) :
                SubSeq(batch \o queue, k + 1, n)[i] = (batch \o queue)[k + i]
          BY <2>1, <2>2
    <3>2. \A i \in 1 .. Len(queue) : SubSeq(batch \o queue, k + 1, n)[i] = queue[i]
          BY <2>1, <2>2, <3>1
    <3> QED
        BY <3>1, <3>2, Batches, SeqEqual
  <2>5. k \in 1 .. n
        BY <2>1, <2>2
  <2>6. Buffer!Leave(k)
        BY <1>1, <1>2, <1>3, <2>3, <2>4 DEF Buffer!Leave, Writer!Pending
  <2> QED
      BY <2>5, <2>6 DEF Buffer!FNext, Buffer!SomeLeave, Writer!Pending
<1> QED
    BY <1>4, <1>5

\* Every other step leaves the buffer alone, or closes it with the scheduler.
LEMMA OthersBuffer ==
    ASSUME UNCHANGED <<queue, batch, inserted>>,
           scheduler = "ended" => scheduler' = "ended"
    PROVE  [Buffer!FNext]_Buffer!fvars
BY DEF Buffer!FNext, Buffer!Close, Buffer!fvars, Writer!Pending, WriterHeld

LEMMA NextBuffers == TInv /\ [Next]_vars => [Buffer!FNext]_Buffer!fvars
<1> SUFFICES ASSUME TInv, [Next]_vars PROVE [Buffer!FNext]_Buffer!fvars
    OBVIOUS
<1>1. CASE TakesOutcome \/ TakesPush
  <2>1. scheduler' = scheduler /\ (Applied \/ UNCHANGED writerVars)
        BY <1>1 DEF TakesOutcome, TakesPush
  <2>2. CASE UNCHANGED writerVars
        BY <2>1, <2>2, OthersBuffer DEF writerVars
  <2>3. CASE \E m \in Monitor : Writer!Submit(m)
        BY <2>1, <2>3, SubmitBuffers
  <2> QED
      BY <2>1, <2>2, <2>3 DEF Applied
<1>2. CASE Persisted
      BY <1>2, SubmitBuffers DEF Persisted
<1>3. CASE WriterTakes \/ WriterFlushes
  <2>1. scheduler' = scheduler
        BY <1>3 DEF WriterTakes, WriterFlushes, engineVars, schedulerVars
  <2>2. CASE Writer!Closed \/ Writer!Tick
        BY <2>1, <2>2, OthersBuffer DEF Writer!Closed, Writer!Tick
  <2> QED
      BY <1>3, <2>1, <2>2, ReceiveBuffers, FlushBuffers DEF WriterTakes, WriterFlushes
<1>4. CASE SchedulerStep /\ ~(TakesOutcome \/ TakesPush \/ Persisted)
  <2>1. UNCHANGED writerVars /\ scheduler # "ended"
        BY <1>4 DEF SchedulerStep, ResyncBegins, ResyncEnds, Dispatch, Stops, Drained,
                    DrainDeadline
  <2> QED
      BY <2>1, OthersBuffer DEF writerVars
<1>5. CASE TaskStep /\ ~SchedulerStep /\ ~(WriterTakes \/ WriterFlushes)
  <2>1. UNCHANGED writerVars /\ scheduler' = scheduler
        BY <1>5 DEF TaskStep, SweepBegins, SweepMarks, SweepEnds, WatchdogStops,
                    PrunerBegins, PrunerStops, AlertsTake, AlertsRetry, AlertsGoOn,
                    RequestArrives, RequestEnds, ServerCloses, Boots, Shutdown, Awaited,
                    engineVars, schedulerVars
  <2> QED
      BY <2>1, OthersBuffer DEF writerVars
<1>6. CASE UNCHANGED vars
      BY <1>6, OthersBuffer DEF vars, engineVars, schedulerVars, writerVars
<1> QED
    BY <1>1, <1>2, <1>3, <1>4, <1>5, <1>6 DEF Next

\* Writer::submit and run: in the engine, from the start to the end of its shutdown, the
\* writer is a bounded buffer: results reach the table in the order the scheduler
\* submitted them, each at most once, a batch whole or not at all.
THEOREM WriterIsABuffer == Spec => Buffer!FInit /\ [][Buffer!FNext]_Buffer!fvars
<1>1. Init => Buffer!FInit
  <2> SUFFICES ASSUME Init PROVE Buffer!FInit
      OBVIOUS
  <2>1. batch = <<>> /\ queue = <<>> /\ inserted = <<>> /\ WriterHeld = TRUE
        BY DEF Init, Writer!Init, WriterHeld
  <2>2. <<>> \o <<>> = <<>>
        BY EmptySeq, ConcatEmptySeq
  <2> QED
      BY <2>1, <2>2 DEF Buffer!FInit, Writer!Pending
<1>2. Spec => []TInv
      BY InitTInv, NextTInv, PTL DEF Spec
<1> QED
    BY <1>1, <1>2, NextBuffers, PTL DEF Spec

-----------------------------------------------------------------------------
\* The writer in the engine is that of ResultWriter, whose sender is the scheduler.
LEMMA SenderEnds ==
    ASSUME UNCHANGED writerVars, scheduler = "ended" => scheduler' = "ended"
    PROVE  Writer!Drop \/ UNCHANGED Writer!vars
<1>1. WriterHeld \in BOOLEAN /\ WriterHeld' \in BOOLEAN /\ (WriterHeld' => WriterHeld)
      BY DEF WriterHeld
<1> QED
    BY <1>1 DEF Writer!Drop, Writer!vars, writerVars

LEMMA NextWrites == [Next]_vars => [Writer!Next]_Writer!vars
<1> SUFFICES ASSUME [Next]_vars PROVE Writer!Next \/ UNCHANGED Writer!vars
    OBVIOUS
<1> USE DEF Writer!Next
<1>1. CASE TakesOutcome \/ TakesPush
  <2>1. scheduler' = scheduler /\ Applied
        BY <1>1 DEF TakesOutcome, TakesPush
  <2> QED
      BY <2>1, SenderEnds DEF Applied
<1>2. CASE Persisted \/ WriterTakes \/ WriterFlushes
      BY <1>2 DEF Persisted, WriterTakes, WriterFlushes
<1>3. CASE SchedulerStep /\ ~(TakesOutcome \/ TakesPush \/ Persisted)
  <2>1. UNCHANGED writerVars /\ scheduler # "ended"
        BY <1>3 DEF SchedulerStep, ResyncBegins, ResyncEnds, Dispatch, Stops, Drained,
                    DrainDeadline
  <2> QED
      BY <2>1, SenderEnds
<1>4. CASE TaskStep /\ ~SchedulerStep /\ ~(WriterTakes \/ WriterFlushes)
  <2>1. UNCHANGED writerVars /\ scheduler' = scheduler
        BY <1>4 DEF TaskStep, SweepBegins, SweepMarks, SweepEnds, WatchdogStops,
                    PrunerBegins, PrunerStops, AlertsTake, AlertsRetry, AlertsGoOn,
                    RequestArrives, RequestEnds, ServerCloses, Boots, Shutdown, Awaited,
                    engineVars, schedulerVars
  <2> QED
      BY <2>1, SenderEnds
<1>5. CASE UNCHANGED vars
      BY <1>5, SenderEnds DEF vars, engineVars, schedulerVars
<1> QED
    BY <1>1, <1>2, <1>3, <1>4, <1>5 DEF Next

\* EngineHandle::start: the writer the engine spawns does what ResultWriter says, its
\* channel open for as long as the scheduler's task is there.
THEOREM WriterTaskRefines == Spec => Writer!Spec
<1>1. Init => Writer!Init
      BY DEF Init
<1> QED
    BY <1>1, NextWrites, PTL DEF Spec, Writer!Spec
=============================================================================
