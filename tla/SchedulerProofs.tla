--------------------------- MODULE SchedulerProofs ---------------------------
(***************************************************************************)
(* Theorems about Scheduler, and about Watchdog beside it, for every value *)
(* of the constants: any number of monitors and targets, any thresholds,   *)
(* any number of commands, faults, restarts and probes in flight.          *)
(***************************************************************************)
EXTENDS Watchdog, WellFoundedInduction, TLAPS

-----------------------------------------------------------------------------
(***************************************************************************)
(* What the operators of Flap and Store return.                            *)
(***************************************************************************)

\* Flap counters stay within their thresholds (FlapState::observe).
LEMMA CountedType ==
    ASSUME NEW flap \in FlapState, NEW success \in BOOLEAN
    PROVE  Counted(flap, success) \in FlapState
BY ThresholdAssumption DEF Counted, FlapState, Bump

\* Only a verdict or the status it already has is ever judged.
LEMMA JudgedType ==
    ASSUME NEW flap \in FlapState, NEW success \in BOOLEAN, NEW current \in Status
    PROVE  /\ Judged(Counted(flap, success), success, current) \in Status
           /\ Judged(Counted(flap, success), success, current) # current
                => Judged(Counted(flap, success), success, current) \in {"Up", "Down"}
BY DEF Judged, Status

\* A status write keeps the table a table, and touches the one row it names.
LEMMA WithStatusType ==
    ASSUME NEW table \in Table, NEW m \in Id, NEW status \in Status
    PROVE  /\ WithStatus(table, m, status) \in Table
           /\ \A k \in Id : k # m => WithStatus(table, m, status)[k] = table[k]
           /\ table[m] = Absent => WithStatus(table, m, status) = table
           /\ table[m] # Absent =>
                 /\ table[m] \in Row
                 /\ WithStatus(table, m, status)[m] = [table[m] EXCEPT !.status = status]
BY DEF WithStatus, Table, Row

\* Editing a row leaves a row, never makes a valid one invalid, and changes its
\* status to nothing but Pending.
LEMMA UpdatedRowType ==
    ASSUME NEW row \in Row, NEW target \in Target,
           NEW newInterval \in BOOLEAN, NEW link \in BOOLEAN
    PROVE  /\ UpdatedRow(row, target, newInterval, link) \in Row
           /\ row.valid => UpdatedRow(row, target, newInterval, link).valid
           /\ UpdatedRow(row, target, newInterval, link).status \in {row.status, "Pending"}
BY DEF UpdatedRow, Row, Status

LEMMA NewRowType ==
    ASSUME NEW target \in Target, NEW kind \in Kind, NEW linked \in BOOLEAN
    PROVE  NewRow(target, kind, linked) \in Row
BY DEF NewRow, Row, Status

-----------------------------------------------------------------------------
(***************************************************************************)
(* What the handlers of a result write.                                    *)
(***************************************************************************)
Budget == [ops : 0..MaxOps, faults : 0..MaxFaults, crashes : 0..MaxCrashes]

HandledType ==
    /\ monitors \in Table
    /\ registry \in [Id -> Entry \cup {Absent}]
    /\ out \in [result : 0..MaxId, live : BOOLEAN]
    /\ announced \in [Id -> Verdict \cup {Absent}]
    /\ streak \in [Id -> 0..DownThreshold]
    /\ budget \in Budget

LEMMA EntryType ==
    ASSUME registry \in [Id -> Entry \cup {Absent}], NEW m \in Id, registry[m] # Absent
    PROVE  /\ registry[m] \in Entry
           /\ registry[m].row \in Row
           /\ registry[m].row.status \in Status
           /\ registry[m].flap \in FlapState
<1>1. registry[m] \in Entry
    OBVIOUS
<1>2. registry[m].row \in Row /\ registry[m].flap \in FlapState
    BY <1>1 DEF Entry
<1>3. registry[m].row.status \in Status
    BY <1>2 DEF Row
<1> QED BY <1>1, <1>2, <1>3

LEMMA CountDown ==
    ASSUME NEW bound \in Nat, NEW left \in 0..bound, left > 0
    PROVE  left - 1 \in 0..bound /\ left - 1 < left
OBVIOUS

\* Each bound of a run is spent one unit at a time.
LEMMA BudgetSpent ==
    ASSUME budget \in Budget
    PROVE  /\ budget.ops > 0 => [budget EXCEPT !.ops = @ - 1] \in Budget
           /\ budget.faults > 0 => [budget EXCEPT !.faults = @ - 1] \in Budget
           /\ budget.crashes > 0 => [budget EXCEPT !.crashes = @ - 1] \in Budget
<1>1. /\ budget.ops \in 0..MaxOps
      /\ budget.faults \in 0..MaxFaults
      /\ budget.crashes \in 0..MaxCrashes
    BY DEF Budget
<1>2. /\ budget.ops > 0 => budget.ops - 1 \in 0..MaxOps
      /\ budget.faults > 0 => budget.faults - 1 \in 0..MaxFaults
      /\ budget.crashes > 0 => budget.crashes - 1 \in 0..MaxCrashes
    BY <1>1, CountDown, SchedulerAssumption
<1> QED BY <1>1, <1>2 DEF Budget

LEMMA StoreFailsType ==
    ASSUME HandledType, StoreFails
    PROVE  budget' \in Budget /\ budget'.ops = budget.ops
<1>1. budget \in Budget /\ budget.faults > 0
    BY DEF HandledType, StoreFails, Budget
<1>2. budget' \in Budget
    BY <1>1, BudgetSpent DEF StoreFails
<1> QED BY <1>1, <1>2 DEF StoreFails, Budget

LEMMA TransitionType ==
    ASSUME HandledType, NEW m \in Id, NEW status \in Verdict, Transition(m, status)
    PROVE  /\ monitors' \in Table
           /\ announced' \in [Id -> Verdict \cup {Absent}]
           /\ budget' \in Budget
           /\ budget'.ops = budget.ops
           /\ monitors' \in {monitors, WithStatus(monitors, m, status)}
<1>1. status \in Status
    BY DEF Verdict, Status
<1>2. WithStatus(monitors, m, status) \in Table
    BY <1>1, WithStatusType DEF HandledType
<1>3. CASE monitors' = WithStatus(monitors, m, status) /\ UNCHANGED budget
    BY <1>2, <1>3 DEF Transition, HandledType
<1>4. CASE StoreFails /\ UNCHANGED monitors
    BY <1>4, StoreFailsType DEF Transition, HandledType
<1> QED BY <1>3, <1>4 DEF Transition

LEMMA EntryWithType ==
    ASSUME NEW entry \in Entry, NEW flap \in FlapState, NEW status \in Status
    PROVE  /\ EntryWith(entry, flap, status) \in Entry
           /\ EntryWith(entry, flap, status).row.status = status
           /\ EntryWith(entry, flap, status).row.valid = entry.row.valid
           /\ EntryWith(entry, flap, status).flap = flap
<1>1. entry.row \in Row
    BY DEF Entry
<1>2. [entry.row EXCEPT !.status = status] \in Row
    BY <1>1 DEF Row
<1>3. EntryWith(entry, flap, status) =
         [entry EXCEPT !.flap = flap, !.row = [entry.row EXCEPT !.status = status]]
    BY DEF EntryWith, Entry
<1> QED BY <1>1, <1>2, <1>3 DEF Entry, Row

LEMMA EntryWritten ==
    ASSUME registry \in [Id -> Entry \cup {Absent}],
           NEW m \in Id, NEW entry \in Entry,
           registry' = [registry EXCEPT ![m] = entry]
    PROVE  registry' \in [Id -> Entry \cup {Absent}]
OBVIOUS

LEMMA OutType ==
    ASSUME NEW m \in Id
    PROVE  /\ [result |-> m, live |-> TRUE] \in [result : 0..MaxId, live : BOOLEAN]
           /\ [result |-> m, live |-> FALSE] \in [result : 0..MaxId, live : BOOLEAN]
           /\ Silent \in [result : 0..MaxId, live : BOOLEAN]
BY StoreAssumption DEF Id, Silent

\* A definite result keeps every type (apply_result).
LEMMA ApplyResultType ==
    ASSUME HandledType, NEW m \in Id, NEW success \in BOOLEAN, ApplyResult(m, success)
    PROVE  HandledType'
<1>1. CASE registry[m] = Absent
    BY <1>1, OutType DEF ApplyResult, NoTransition, HandledType
<1>2. CASE registry[m] # Absent
    <2> DEFINE counted == Counted(registry[m].flap, success)
               current == registry[m].row.status
               judged  == Judged(counted, success, current)
               entry   == EntryWith(registry[m], counted, judged)
    <2>1. /\ registry' = [registry EXCEPT ![m] = entry]
          /\ streak' = [streak EXCEPT ![m] =
                           IF success THEN 0 ELSE Bump(@, DownThreshold)]
          /\ IF judged = current THEN NoTransition ELSE Transition(m, judged)
          /\ out' = [result |-> m, live |-> TRUE]
        BY <1>2, Zenon DEF ApplyResult
    <2>2. /\ registry[m] \in Entry /\ registry[m].row \in Row
          /\ registry[m].flap \in FlapState /\ current \in Status
        BY <1>2, EntryType DEF HandledType
    <2>3. /\ counted \in FlapState
          /\ judged \in Status
          /\ judged # current => judged \in Verdict
        BY <2>2, CountedType, JudgedType DEF Verdict
    <2>5. entry \in Entry
        BY <2>2, <2>3, EntryWithType
    <2>6. registry' \in [Id -> Entry \cup {Absent}]
        <3> HIDE DEF entry
        <3> QED BY <2>1, <2>5, EntryWritten DEF HandledType
    <2>7. streak' \in [Id -> 0..DownThreshold]
        <3>1. streak[m] \in 0..DownThreshold /\ DownThreshold \in Nat
            BY ThresholdAssumption DEF HandledType
        <3>2. Bump(streak[m], DownThreshold) \in 0..DownThreshold
            BY <3>1 DEF Bump
        <3>3. streak' = [streak EXCEPT ![m] =
                            IF success THEN 0 ELSE Bump(streak[m], DownThreshold)]
            BY <2>1
        <3> QED BY <3>1, <3>2, <3>3 DEF HandledType
    <2>8. out' \in [result : 0..MaxId, live : BOOLEAN]
        BY <2>1, OutType
    <2>9. /\ monitors' \in Table
          /\ announced' \in [Id -> Verdict \cup {Absent}]
          /\ budget' \in Budget
        <3> HIDE DEF judged, current
        <3>1. CASE judged = current
            BY <2>1, <3>1 DEF NoTransition, HandledType
        <3>2. CASE judged # current
            BY <2>1, <2>3, <3>2, TransitionType
        <3> QED BY <3>1, <3>2
    <2> QED BY <2>6, <2>7, <2>8, <2>9 DEF HandledType
<1> QED BY <1>1, <1>2

\* So does an unavailable one (mark_stale_and_record).
LEMMA MarkStaleType ==
    ASSUME HandledType, NEW m \in Id, MarkStaleAndRecord(m)
    PROVE  HandledType'
<1>1. /\ out' \in [result : 0..MaxId, live : BOOLEAN]
      /\ streak' \in [Id -> 0..DownThreshold]
    BY OutType DEF MarkStaleAndRecord, HandledType
<1>2. CASE ~(registry[m] # Absent /\ registry[m].row.status # "Stale")
    BY <1>1, <1>2 DEF MarkStaleAndRecord, NoTransition, HandledType
<1>3. CASE registry[m] # Absent /\ registry[m].row.status # "Stale"
    <2> DEFINE entry == EntryWith(registry[m], registry[m].flap, "Stale")
    <2>1. registry' = [registry EXCEPT ![m] = entry] /\ Transition(m, "Stale")
        BY <1>3 DEF MarkStaleAndRecord
    <2>2. registry[m] \in Entry /\ registry[m].flap \in FlapState
        BY <1>3, EntryType DEF HandledType
    <2>4. entry \in Entry
        BY <2>2, EntryWithType DEF Status
    <2>5. registry' \in [Id -> Entry \cup {Absent}]
        <3> HIDE DEF entry
        <3> QED BY <2>1, <2>4, EntryWritten DEF HandledType
    <2>6. "Stale" \in Verdict
        BY DEF Verdict
    <2> QED BY <1>1, <2>1, <2>5, <2>6, TransitionType DEF HandledType
<1> QED BY <1>2, <1>3

LEMMA HandleOutcomeType ==
    ASSUME HandledType, NEW m \in Id, NEW outcome \in Outcome, HandleOutcome(m, outcome)
    PROVE  HandledType'
<1>1. CASE outcome = "unavailable"
    BY <1>1, MarkStaleType DEF HandleOutcome
<1>2. CASE outcome # "unavailable"
    <2>1. (outcome = "success") \in BOOLEAN
        OBVIOUS
    <2>2. ApplyResult(m, outcome = "success")
        BY <1>2 DEF HandleOutcome
    <2> QED BY <2>1, <2>2, ApplyResultType
<1> QED BY <1>1, <1>2

-----------------------------------------------------------------------------
(***************************************************************************)
(* Type correctness.                                                       *)
(***************************************************************************)
\* The rest of the types, which the handlers of a result leave alone or that the
\* actions calling them restore.
LoopType ==
    /\ collectors \in [Id -> Target \cup {Absent}]
    /\ quarantined \in SUBSET Id
    /\ tasks \in [Task -> 0..MaxTasks]
    /\ assigned \in SUBSET Id
    /\ pushes \in Seq(Push)
    /\ Len(pushes) <= IngestCapacity
    /\ hand \in Push \cup {Absent}

LEMMA TypeOKParts == TypeOK <=> HandledType /\ LoopType
BY DEF TypeOK, HandledType, LoopType, Budget

LEMMA TypeOKPartsNext == TypeOK' <=> HandledType' /\ LoopType'
BY DEF TypeOK, HandledType, LoopType, Budget

\* A resync builds a registry, collectors and a quarantine of the right types.
LEMMA ReconcileType ==
    ASSUME TypeOK, Reconcile
    PROVE  /\ registry' \in [Id -> Entry \cup {Absent}]
           /\ collectors' \in [Id -> Target \cup {Absent}]
           /\ quarantined' \in SUBSET Id
<1>1. FreshFlap \in FlapState
    BY ThresholdAssumption DEF FreshFlap, FlapState
<1>2. ASSUME NEW m \in Id
      PROVE  SyncedRegistry[m] \in Entry \cup {Absent}
    <2>1. CASE ~Eligible(monitors[m])
        BY <2>1 DEF SyncedRegistry
    <2>2. CASE Eligible(monitors[m])
        <3>1. monitors[m] \in Row
            BY <2>2 DEF Eligible, TypeOK, Table
        <3>2. CASE registry[m] = Absent
            <4>1. [row |-> monitors[m], due |-> TRUE, flap |-> FreshFlap] \in Entry
                BY <1>1, <3>1 DEF Entry
            <4>2. SyncedRegistry[m] = [row |-> monitors[m], due |-> TRUE, flap |-> FreshFlap]
                BY <2>2, <3>2 DEF SyncedRegistry
            <4> QED BY <4>1, <4>2
        <3>3. CASE registry[m] # Absent
            <4>1. registry[m] \in Entry
                BY <3>3 DEF TypeOK
            <4>2. [registry[m] EXCEPT !.row = monitors[m]] \in Entry
                BY <3>1, <4>1 DEF Entry
            <4>3. SyncedRegistry[m] = [registry[m] EXCEPT !.row = monitors[m]]
                BY <2>2, <3>3 DEF SyncedRegistry
            <4> QED BY <4>2, <4>3
        <3> QED BY <3>2, <3>3
    <2> QED BY <2>1, <2>2
<1>3. SyncedRegistry \in [Id -> Entry \cup {Absent}]
    BY <1>2 DEF SyncedRegistry
<1>4. SyncedCollectors \in [Id -> Target \cup {Absent}]
    BY DEF SyncedCollectors, TypeOK
<1>5. SyncedQuarantine \in SUBSET Id
    BY DEF SyncedQuarantine, Stored
<1> QED BY <1>3, <1>4, <1>5 DEF Reconcile

\* Whatever an operator does, a table is left.
LEMMA CommandsType ==
    ASSUME TypeOK, Commands
    PROVE  /\ Command
           /\ monitors' \in Table
<1> USE SchedulerAssumption
<1>1. PICK m \in Id :
        \/ \E t \in Target, k \in Kinds, l \in Links : Add(m, t, k, l)
        \/ \E t \in Target, i \in BOOLEAN, l \in Links : Edit(m, t, i, l)
        \/ Remove(m)
        \/ Pause(m)
        \/ Resume(m)
    BY DEF Commands
<1>2. monitors \in Table
    BY DEF TypeOK
<1>3. CASE \E t \in Target, k \in Kinds, l \in Links : Add(m, t, k, l)
    <2>1. PICK t \in Target, k \in Kinds, l \in Links : Add(m, t, k, l)
        BY <1>3
    <2>2. NewRow(t, k, l) \in Row
        BY NewRowType
    <2> QED BY <1>2, <2>1, <2>2 DEF Add, Table
<1>4. CASE \E t \in Target, i \in BOOLEAN, l \in Links : Edit(m, t, i, l)
    <2>1. PICK t \in Target, i \in BOOLEAN, l \in Links : Edit(m, t, i, l)
        BY <1>4
    <2>2. monitors[m] \in Row
        BY <1>2, <2>1 DEF Edit, Table
    <2>3. UpdatedRow(monitors[m], t, i, l) \in Row
        BY <2>2, UpdatedRowType
    <2> QED BY <1>2, <2>1, <2>3 DEF Edit, Table
<1>5. CASE Remove(m)
    BY <1>2, <1>5 DEF Remove, Table
<1>6. CASE Pause(m)
    BY <1>2, <1>6, WithStatusType DEF Pause, Status
<1>7. CASE Resume(m)
    BY <1>2, <1>7, WithStatusType DEF Resume, Status
<1> QED BY <1>1, <1>3, <1>4, <1>5, <1>6, <1>7

LEMMA InitType == Init => TypeOK
<1> SUFFICES ASSUME Init PROVE TypeOK
    OBVIOUS
<1> USE SchedulerAssumption DEF Init
<1>1. monitors \in Table
    BY DEF Table
<1>2. announced \in [Id -> Verdict \cup {Absent}]
    BY DEF LastAnnounced
<1>3. streak \in [Id -> 0..DownThreshold]
    BY ThresholdAssumption
<1>4. out \in [result : 0..MaxId, live : BOOLEAN]
    BY StoreAssumption DEF Silent
<1>5. tasks \in [Task -> 0..MaxTasks]
    OBVIOUS
<1>6. pushes \in Seq(Push) /\ Len(pushes) <= IngestCapacity
    OBVIOUS
<1>7. budget \in Budget
    BY DEF Budget
<1> QED BY <1>1, <1>2, <1>3, <1>4, <1>5, <1>6, <1>7 DEF TypeOK, Budget

\* Dispatching gives every due monitor's entry, task and collector its type.
LEMMA DispatchType == TypeOK /\ DispatchDue => TypeOK'
<1> SUFFICES ASSUME TypeOK, DispatchDue PROVE TypeOK'
    OBVIOUS
<1>1. PICK built \in SUBSET {m \in Due : MayBuild(m)} :
        LET spawned == {NewTask(m, built) : m \in {d \in Due : Probed(d) \/ Polled(d)}}
        IN  /\ \A task \in spawned : tasks[task] < MaxTasks
            /\ tasks' = [task \in Task |->
                            IF task \in spawned THEN tasks[task] + 1 ELSE tasks[task]]
            /\ collectors' = [m \in Id |-> Collector(m, built)]
    BY DEF DispatchDue
<1>2. tasks' \in [Task -> 0..MaxTasks]
    <2> DEFINE spawned == {NewTask(m, built) : m \in {d \in Due : Probed(d) \/ Polled(d)}}
    <2>1. ASSUME NEW task \in Task, task \in spawned
          PROVE  tasks[task] + 1 \in 0..MaxTasks
        <3>1. tasks[task] \in 0..MaxTasks /\ tasks[task] < MaxTasks
            BY <1>1, <2>1 DEF TypeOK
        <3> QED BY <3>1, SchedulerAssumption
    <2>2. tasks' = [task \in Task |->
                       IF task \in spawned THEN tasks[task] + 1 ELSE tasks[task]]
        BY <1>1
    <2> HIDE DEF spawned
    <2> QED BY <2>1, <2>2 DEF TypeOK
<1>3. collectors' \in [Id -> Target \cup {Absent}]
    <2>1. ASSUME NEW m \in Id PROVE Collector(m, built) \in Target \cup {Absent}
        <3>1. CASE m \in built
            <4>1. m \in Registered
                BY <1>1, <3>1 DEF Due
            <4>2. registry[m] # Absent /\ registry[m].row.target \in Target
                BY <4>1, EntryType DEF TypeOK, Registered, Row
            <4> QED BY <3>1, <4>2 DEF Collector
        <3>2. CASE m \notin built
            BY <3>2 DEF Collector, TypeOK
        <3> QED BY <3>1, <3>2
    <2> QED BY <1>1, <2>1
<1>4. registry' \in [Id -> Entry \cup {Absent}]
    <2>1. ASSUME NEW m \in Id, m \in Due
          PROVE  [registry[m] EXCEPT !.due = FALSE] \in Entry
        <3>1. registry[m] \in Entry
            BY <2>1 DEF Due, Registered, TypeOK
        <3> QED BY <3>1 DEF Entry
    <2> QED BY <2>1 DEF DispatchDue, TypeOK
<1>5. assigned' \in SUBSET Id
    BY DEF DispatchDue, Due, Registered, TypeOK
<1>6. out' \in [result : 0..MaxId, live : BOOLEAN]
    BY StoreAssumption DEF DispatchDue, Silent
<1> QED BY <1>2, <1>3, <1>4, <1>5, <1>6 DEF DispatchDue, TypeOK

\* A command leaves the history of a monitor the registry holds alone: it may only set
\* those of others back.
LEMMA CommandsHistory ==
    ASSUME TypeOK, Commands
    PROVE  /\ streak' \in [Id -> 0..DownThreshold]
           /\ \A k \in Registered : streak'[k] = streak[k]
<1>1. PICK m \in Id :
        \/ \E t \in Target, kd \in Kinds, l \in Links : Add(m, t, kd, l)
        \/ \E t \in Target, i \in BOOLEAN, l \in Links : Edit(m, t, i, l)
        \/ Remove(m)
        \/ Pause(m)
        \/ Resume(m)
    BY DEF Commands
<1>2. UNCHANGED streak \/ BeginsAfresh(m)
    BY <1>1 DEF Add, Edit, Remove, Pause, Resume
<1>3. streak \in [Id -> 0..DownThreshold] /\ 0 \in 0..DownThreshold
    BY ThresholdAssumption DEF TypeOK, ThresholdAssumption
<1>4. CASE UNCHANGED streak
    BY <1>3, <1>4
<1>5. CASE BeginsAfresh(m)
    <2>1. m \in Registered => Leftover(m)
        BY DEF Registered, Leftover
    <2>2. streak' = streak \/ (m \notin Registered /\ streak' = [streak EXCEPT ![m] = 0])
        BY <1>5, <2>1 DEF BeginsAfresh
    <2> QED BY <1>3, <2>2 DEF Registered
<1> QED BY <1>2, <1>4, <1>5

\* Every step keeps every type.
LEMMA NextType == TypeOK /\ [Next]_vars => TypeOK'
<1> SUFFICES ASSUME TypeOK, [Next]_vars PROVE TypeOK'
    OBVIOUS
<1>0. HandledType /\ LoopType /\ Silent \in [result : 0..MaxId, live : BOOLEAN]
    BY TypeOKParts, StoreAssumption DEF Silent
<1>1. CASE Commands
    <2>1. Command /\ monitors' \in Table
        BY <1>1, CommandsType
    <2>2. budget' \in Budget
        BY <1>0, <2>1, BudgetSpent DEF Command, HandledType
    <2>3. streak' \in [Id -> 0..DownThreshold]
        BY <1>1, CommandsHistory
    <2> QED BY <1>0, <2>1, <2>2, <2>3 DEF Command, local, TypeOK, Budget
<1>2. CASE Resync
    BY <1>0, <1>2, ReconcileType DEF Resync, TypeOK
<1>3. CASE \E m \in Id : DeadlinePasses(m)
    <2>1. PICK m \in Id : DeadlinePasses(m)
        BY <1>3
    <2>2. registry[m] \in Entry
        BY <2>1 DEF DeadlinePasses, Registered, TypeOK
    <2>3. [registry[m] EXCEPT !.due = TRUE] \in Entry
        BY <2>2 DEF Entry
    <2>4. registry' \in [Id -> Entry \cup {Absent}]
        BY <2>1, <2>3 DEF DeadlinePasses, TypeOK
    <2> QED BY <2>1, <2>4 DEF DeadlinePasses, TypeOK
<1>4. CASE DispatchDue
    BY <1>4, DispatchType
<1>5. CASE \E task \in Task : HandleJoined(task)
    <2>1. PICK task \in Task : HandleJoined(task)
        BY <1>5
    <2>2. PICK end \in Ends(task) :
            HandleOutcome(task.id, IF end = "panic" THEN "unavailable" ELSE end)
        BY <2>1 DEF HandleJoined
    <2>3. task.id \in Id /\ (IF end = "panic" THEN "unavailable" ELSE end) \in Outcome
        BY DEF Task, Ends, Outcome
    <2>4. HandledType'
        BY <1>0, <2>2, <2>3, HandleOutcomeType
    <2>5. tasks' \in [Task -> 0..MaxTasks]
        BY <2>1, CountDown, SchedulerAssumption DEF HandleJoined, TypeOK
    <2>6. LoopType'
        BY <1>0, <2>1, <2>5 DEF HandleJoined, LoopType
    <2> QED BY <2>4, <2>6, TypeOKPartsNext
<1>6. CASE \E m \in Id, outcome \in Outcome : AgentPushes(m, outcome)
    <2>1. PICK m \in Id, outcome \in Outcome : AgentPushes(m, outcome)
        BY <1>6
    <2>2. [id |-> m, outcome |-> outcome] \in Push
        BY DEF Push
    <2>3. pushes' \in Seq(Push) /\ Len(pushes') <= IngestCapacity
        BY <2>1, <2>2, SchedulerAssumption DEF AgentPushes, TypeOK
    <2> QED BY <2>1, <2>3 DEF AgentPushes, TypeOK
<1>7. CASE AgentPulls
    BY <1>7 DEF AgentPulls, TypeOK
<1>8. CASE HandlePushed
    <2>1. /\ Head(pushes) \in Push
          /\ pushes' \in Seq(Push)
          /\ Len(pushes') <= IngestCapacity
        BY <1>8, SchedulerAssumption DEF HandlePushed, TypeOK
    <2>2. HandledType'
        BY <1>0, <1>8, <2>1, HandleOutcomeType DEF HandlePushed, Push
    <2>3. LoopType'
        BY <1>0, <1>8, <2>1 DEF HandlePushed, LoopType
    <2> QED BY <2>2, <2>3, TypeOKPartsNext
<1>9. CASE HandlePushedUnknown
    <2>1. /\ Head(pushes) \in Push
          /\ pushes' \in Seq(Push)
          /\ Len(pushes') <= IngestCapacity
        BY <1>9, SchedulerAssumption DEF HandlePushedUnknown, TypeOK
    <2>2. CASE Reconcile /\ UNCHANGED budget
        BY <1>0, <1>9, <2>1, <2>2, ReconcileType
           DEF HandlePushedUnknown, TypeOK, Budget
    <2>3. CASE StoreFails /\ UNCHANGED <<registry, collectors, quarantined>>
        BY <1>0, <1>9, <2>1, <2>3, StoreFailsType
           DEF HandlePushedUnknown, TypeOK, Budget
    <2> QED BY <1>9, <2>2, <2>3 DEF HandlePushedUnknown
<1>10. CASE HandlePushedResynced
    <2>1. hand \in Push
        BY <1>0, <1>10 DEF HandlePushedResynced, AtRest, LoopType
    <2>2. HandledType'
        BY <1>0, <1>10, <2>1, HandleOutcomeType DEF HandlePushedResynced, Push
    <2>3. LoopType'
        BY <1>0, <1>10 DEF HandlePushedResynced, LoopType
    <2> QED BY <2>2, <2>3, TypeOKPartsNext
<1>11. CASE Restart
    <2>1. budget' \in Budget
        BY <1>0, <1>11, BudgetSpent DEF Restart, HandledType
    <2>2. tasks' \in [Task -> 0..MaxTasks] /\ pushes' \in Seq(Push)
          /\ Len(pushes') <= IngestCapacity
        BY <1>11, SchedulerAssumption DEF Restart
    <2> QED BY <1>0, <1>11, <2>1, <2>2 DEF Restart, TypeOK, Budget
<1>12. CASE UNCHANGED vars
    BY <1>12 DEF vars, TypeOK
<1> QED BY <1>1, <1>2, <1>3, <1>4, <1>5, <1>6, <1>7, <1>8, <1>9, <1>10, <1>11, <1>12
        DEF Next, Handles, HandlesNone

\* Every variable of the scheduler keeps its type in every reachable state.
THEOREM TypeCorrect == Spec => []TypeOK
<1>1. Init => TypeOK
    BY InitType
<1>2. TypeOK /\ [Next]_vars => TypeOK'
    BY NextType
<1> QED BY <1>1, <1>2, PTL DEF Spec

-----------------------------------------------------------------------------
(***************************************************************************)
(* The invariant.  OnlyRunnableScheduled is inductive with the types; the   *)
(* counters of a registered monitor never run ahead of the failures really *)
(* handled for it, since they start at zero when it is registered, and     *)
(* nothing but a handled result moves either.                              *)
(***************************************************************************)
CountersEarned == \A m \in Registered : registry[m].flap.fail <= streak[m]

IInv == TypeOK /\ OnlyRunnableScheduled /\ CountersEarned

\* A resync registers runnable monitors only, with counters it kept or zeroed.
LEMMA ReconcileInv ==
    ASSUME IInv, Reconcile, UNCHANGED <<monitors, streak>>
    PROVE  OnlyRunnableScheduled' /\ CountersEarned'
<1> SUFFICES ASSUME NEW m \in Id, registry'[m] # Absent
             PROVE  /\ registry'[m].row.valid
                    /\ registry'[m].row.status # "Paused"
                    /\ m \notin quarantined'
                    /\ monitors'[m] # Absent => monitors'[m].valid
                    /\ registry'[m].flap.fail <= streak'[m]
    BY DEF OnlyRunnableScheduled, CountersEarned, Registered
<1>1. Eligible(monitors[m])
    BY DEF Reconcile, SyncedRegistry
<1>2. m \notin quarantined' /\ monitors'[m].valid
    BY <1>1 DEF Reconcile, SyncedQuarantine, Eligible
<1>3. CASE registry[m] = Absent
    <2>1. registry'[m] = [row |-> monitors[m], due |-> TRUE, flap |-> FreshFlap]
        BY <1>1, <1>3 DEF Reconcile, SyncedRegistry
    <2>2. 0 <= streak[m]
        BY DEF IInv, TypeOK
    <2> QED BY <1>1, <1>2, <2>1, <2>2 DEF Eligible, FreshFlap
<1>4. CASE registry[m] # Absent
    <2>1. registry'[m] = [registry[m] EXCEPT !.row = monitors[m]]
        BY <1>1, <1>4 DEF Reconcile, SyncedRegistry
    <2>2. registry[m] \in Entry
        BY <1>4 DEF IInv, TypeOK
    <2>3. registry'[m].row = monitors[m] /\ registry'[m].flap = registry[m].flap
        BY <2>1, <2>2 DEF Entry
    <2>4. registry[m].flap.fail <= streak[m]
        BY <1>4 DEF IInv, CountersEarned, Registered
    <2> QED BY <1>1, <1>2, <2>3, <2>4 DEF Eligible
<1> QED BY <1>3, <1>4

\* A transition announces its own monitor's new status, and writes it or fails to:
\* no other monitor is touched, and nothing of a row but its status.
LEMMA TransitionRows ==
    ASSUME HandledType, NEW m \in Id, NEW status \in Verdict, Transition(m, status)
    PROVE  /\ \A k \in Id : k # m =>
                 monitors'[k] = monitors[k] /\ announced'[k] = announced[k]
           /\ announced'[m] = status
           /\ monitors[m] = Absent => monitors' = monitors
           /\ monitors[m] # Absent =>
                 \/ monitors' = monitors
                 \/ /\ monitors'[m] # Absent
                    /\ monitors'[m].status = status
                    /\ monitors'[m].valid = monitors[m].valid
<1> DEFINE written == WithStatus(monitors, m, status)
<1>1. monitors' \in {monitors, written} /\ announced' = [announced EXCEPT ![m] = status]
    BY TransitionType DEF Transition
<1>2. status \in Status /\ monitors \in Table
    BY DEF Verdict, Status, HandledType
<1>3. /\ \A k \in Id : k # m => written[k] = monitors[k]
      /\ monitors[m] = Absent => written = monitors
      /\ monitors[m] # Absent => /\ monitors[m] \in Row
                                 /\ written[m] = [monitors[m] EXCEPT !.status = status]
    BY <1>2, WithStatusType
<1>4. monitors[m] # Absent => /\ written[m] \in Row
                              /\ written[m].status = status
                              /\ written[m].valid = monitors[m].valid
    BY <1>2, <1>3 DEF Row
<1>5. Absent \notin Row
    BY StoreAssumption
<1> HIDE DEF written
<1> QED BY <1>1, <1>3, <1>4, <1>5 DEF HandledType

\* A transition makes Down at most its own monitor, and only when told to.
LEMMA TransitionChanges ==
    ASSUME HandledType, NEW m \in Id, NEW status \in Verdict, Transition(m, status),
           NEW k \in Id, BecomesDown(k)
    PROVE  k = m /\ status = "Down"
BY TransitionRows DEF BecomesDown

\* A definite result moves the counters and the history together (apply_result).
LEMMA ApplyResultInv ==
    ASSUME IInv, NEW m \in Id, NEW success \in BOOLEAN, ApplyResult(m, success),
           UNCHANGED quarantined
    PROVE  /\ OnlyRunnableScheduled' /\ CountersEarned'
           /\ \A k \in Id : BecomesDown(k) => streak'[k] >= DownThreshold
<1>0. HandledType
    BY TypeOKParts DEF IInv
<1>1. CASE registry[m] = Absent
    BY <1>1 DEF ApplyResult, NoTransition, IInv, OnlyRunnableScheduled,
                CountersEarned, Registered, BecomesDown
<1>2. CASE registry[m] # Absent
    <2> DEFINE counted == Counted(registry[m].flap, success)
               current == registry[m].row.status
               judged  == Judged(counted, success, current)
               entry   == EntryWith(registry[m], counted, judged)
    <2>1. /\ registry' = [registry EXCEPT ![m] = entry]
          /\ streak' = [streak EXCEPT ![m] =
                           IF success THEN 0 ELSE Bump(@, DownThreshold)]
          /\ IF judged = current THEN NoTransition ELSE Transition(m, judged)
        BY <1>2, Zenon DEF ApplyResult
    <2>2. /\ registry[m] \in Entry /\ registry[m].row \in Row
          /\ registry[m].flap \in FlapState /\ current \in Status
        BY <1>0, <1>2, EntryType DEF HandledType
    <2>3. /\ counted \in FlapState
          /\ judged \in Status
          /\ judged # current => judged \in {"Up", "Down"}
        BY <2>2, CountedType, JudgedType
    <2>4. /\ entry.row.valid = registry[m].row.valid
          /\ entry.row.status = judged
          /\ entry.flap = counted
        BY <2>2, <2>3, EntryWithType
    <2>5. streak'[m] = IF success THEN 0 ELSE Bump(streak[m], DownThreshold)
        BY <2>1 DEF IInv, TypeOK
    <2>6. counted.fail <= streak'[m]
        <3>1. /\ registry[m].flap.fail \in 0..DownThreshold
              /\ streak[m] \in 0..DownThreshold
              /\ registry[m].flap.fail <= streak[m]
              /\ DownThreshold \in Nat
            BY <1>2, <2>2, ThresholdAssumption
               DEF IInv, TypeOK, CountersEarned, Registered, FlapState
        <3>2. CASE success
            <4>1. counted.fail = 0 /\ streak'[m] = 0
                BY <2>5, <3>2 DEF Counted
            <4> QED BY <4>1
        <3>3. CASE ~success
            <4>1. counted.fail = Bump(registry[m].flap.fail, DownThreshold)
                BY <3>3 DEF Counted
            <4>2. streak'[m] = Bump(streak[m], DownThreshold)
                BY <2>5, <3>3
            <4> QED BY <3>1, <4>1, <4>2 DEF Bump
        <3> QED BY <3>2, <3>3
    <2>7. judged = "Down" /\ judged # current => streak'[m] >= DownThreshold
        <3>1. judged = "Down" /\ judged # current => counted.fail >= DownThreshold
            <4> HIDE DEF counted, current
            <4> QED BY DEF Judged
        <3>2. counted.fail \in Nat /\ streak'[m] \in Nat /\ DownThreshold \in Nat
            BY <2>3, <2>5, ThresholdAssumption DEF FlapState, Bump, IInv, TypeOK
        <3> HIDE DEF judged, counted, current
        <3> QED BY <2>6, <3>1, <3>2
    <2>8. \A k \in Id : registry'[k] # Absent =>
              /\ registry[k] # Absent
              /\ k # m => registry'[k] = registry[k] /\ streak'[k] = streak[k]
              /\ k = m => registry'[k] = entry
        BY <1>2, <2>1 DEF IInv, TypeOK
    <2> HIDE DEF entry, judged, counted, current
    <2>9. CASE judged = current
        <3>1. UNCHANGED <<announced, monitors>>
            BY <2>1, <2>9 DEF NoTransition
        <3>2. judged # "Paused"
            BY <1>2, <2>9 DEF IInv, OnlyRunnableScheduled, Registered, current
        <3>3. OnlyRunnableScheduled'
            BY <1>2, <2>4, <2>8, <3>1, <3>2 DEF IInv, OnlyRunnableScheduled, Registered
        <3>4. CountersEarned'
            BY <2>4, <2>6, <2>8 DEF IInv, CountersEarned, Registered
        <3> QED BY <3>1, <3>3, <3>4 DEF BecomesDown
    <2>10. CASE judged # current
        <3>1. Transition(m, judged) /\ judged \in Verdict
            BY <2>1, <2>3, <2>10 DEF Verdict
        <3>2. \A k \in Id : (monitors[k] # Absent => monitors[k].valid)
                             => (monitors'[k] # Absent => monitors'[k].valid)
            BY <1>0, <3>1, TransitionRows
        <3>3. judged # "Paused"
            BY <2>3, <2>10
        <3>4. OnlyRunnableScheduled'
            BY <1>2, <2>4, <2>8, <3>2, <3>3 DEF IInv, OnlyRunnableScheduled, Registered
        <3>5. CountersEarned'
            BY <2>4, <2>6, <2>8 DEF IInv, CountersEarned, Registered
        <3>6. ASSUME NEW k \in Id, BecomesDown(k)
              PROVE  k = m /\ judged = "Down"
            BY <1>0, <3>1, <3>6, TransitionChanges
        <3>7. \A k \in Id : BecomesDown(k) => streak'[k] >= DownThreshold
            BY <2>7, <2>10, <3>6
        <3> QED BY <3>4, <3>5, <3>7
    <2> QED BY <2>9, <2>10
<1> QED BY <1>1, <1>2

\* A result that could not be had moves no counter (mark_stale_and_record).
LEMMA MarkStaleInv ==
    ASSUME IInv, NEW m \in Id, MarkStaleAndRecord(m), UNCHANGED quarantined
    PROVE  /\ OnlyRunnableScheduled' /\ CountersEarned'
           /\ \A k \in Id : ~BecomesDown(k)
<1>0. HandledType /\ UNCHANGED streak
    BY TypeOKParts DEF IInv, MarkStaleAndRecord
<1>1. CASE ~(registry[m] # Absent /\ registry[m].row.status # "Stale")
    BY <1>0, <1>1 DEF MarkStaleAndRecord, NoTransition, IInv, OnlyRunnableScheduled,
                      CountersEarned, Registered, BecomesDown
<1>2. CASE registry[m] # Absent /\ registry[m].row.status # "Stale"
    <2> DEFINE entry == EntryWith(registry[m], registry[m].flap, "Stale")
    <2>1. registry' = [registry EXCEPT ![m] = entry] /\ Transition(m, "Stale")
        BY <1>2 DEF MarkStaleAndRecord
    <2>2. registry[m] \in Entry /\ registry[m].flap \in FlapState
        BY <1>0, <1>2, EntryType DEF HandledType
    <2> "Stale" \in Status
        BY DEF Status
    <2>3. /\ entry.row.valid = registry[m].row.valid
          /\ entry.row.status = "Stale"
          /\ entry.flap = registry[m].flap
        BY <2>2, EntryWithType
    <2>4. \A k \in Id : registry'[k] # Absent =>
              /\ registry[k] # Absent
              /\ k # m => registry'[k] = registry[k]
              /\ k = m => registry'[k] = entry
        BY <1>2, <2>1 DEF IInv, TypeOK
    <2>5. "Stale" \in Verdict
        BY DEF Verdict
    <2>6. \A k \in Id : (monitors[k] # Absent => monitors[k].valid)
                         => (monitors'[k] # Absent => monitors'[k].valid)
        BY <1>0, <2>1, <2>5, TransitionRows
    <2>7. \A k \in Id : ~BecomesDown(k)
        BY <1>0, <2>1, <2>5, TransitionChanges
    <2> HIDE DEF entry
    <2>8. OnlyRunnableScheduled'
        BY <1>2, <2>3, <2>4, <2>6 DEF IInv, OnlyRunnableScheduled, Registered
    <2>9. CountersEarned'
        BY <1>0, <2>3, <2>4 DEF IInv, CountersEarned, Registered
    <2> QED BY <2>7, <2>8, <2>9
<1> QED BY <1>1, <1>2

LEMMA HandleOutcomeInv ==
    ASSUME IInv, NEW m \in Id, NEW outcome \in Outcome, HandleOutcome(m, outcome),
           UNCHANGED quarantined
    PROVE  /\ OnlyRunnableScheduled' /\ CountersEarned'
           /\ \A k \in Id : BecomesDown(k) => streak'[k] >= DownThreshold
<1>1. CASE outcome = "unavailable"
    BY <1>1, MarkStaleInv DEF HandleOutcome
<1>2. CASE outcome # "unavailable"
    <2>1. (outcome = "success") \in BOOLEAN
        OBVIOUS
    <2>2. ApplyResult(m, outcome = "success")
        BY <1>2 DEF HandleOutcome
    <2> QED BY <2>1, <2>2, ApplyResultInv
<1> QED BY <1>1, <1>2

\* The three actions that handle a result: which one it is.
SomeResultHandled ==
    /\ UNCHANGED quarantined
    /\ \E m \in Id, outcome \in Outcome : HandleOutcome(m, outcome)

LEMMA ResultHandled ==
    ASSUME TypeOK,
           \/ \E task \in Task : HandleJoined(task)
           \/ HandlePushed
           \/ HandlePushedResynced
    PROVE  SomeResultHandled
<1>1. CASE \E task \in Task : HandleJoined(task)
    <2>1. PICK task \in Task : HandleJoined(task)
        BY <1>1
    <2>2. PICK end \in Ends(task) :
            HandleOutcome(task.id, IF end = "panic" THEN "unavailable" ELSE end)
        BY <2>1 DEF HandleJoined
    <2>3. task.id \in Id /\ (IF end = "panic" THEN "unavailable" ELSE end) \in Outcome
        BY DEF Task, Ends, Outcome
    <2> QED BY <2>1, <2>2, <2>3 DEF HandleJoined, SomeResultHandled
<1>2. CASE HandlePushed
    <2>1. Head(pushes) \in Push
        BY <1>2 DEF HandlePushed, TypeOK
    <2> QED BY <1>2, <2>1 DEF HandlePushed, Push, Outcome, SomeResultHandled
<1>3. CASE HandlePushedResynced
    <2>1. hand \in Push
        BY <1>3 DEF HandlePushedResynced, AtRest, TypeOK
    <2> QED BY <1>3, <2>1 DEF HandlePushedResynced, Push, Outcome, SomeResultHandled
<1> QED BY <1>1, <1>2, <1>3

\* What an operator's command does to one row: nothing, a new row or a pause or a
\* pending status; and never an invalid interval where there was a valid one.
LEMMA CommandsRows ==
    ASSUME TypeOK, Commands, NEW k \in Id
    PROVE  /\ UNCHANGED local
           /\ monitors[k] # Absent /\ monitors[k].valid /\ monitors'[k] # Absent
                => monitors'[k].valid
           /\ monitors[k] = Absent /\ monitors'[k] # Absent => monitors'[k].valid
           /\ monitors'[k] # Absent =>
                 \/ monitors'[k].status \in {"Pending", "Paused"}
                 \/ monitors[k] # Absent /\ monitors'[k].status = monitors[k].status
<1> USE SchedulerAssumption
<1>0. monitors \in Table
    BY DEF TypeOK
<1>1. PICK m \in Id :
        \/ \E t \in Target, kd \in Kinds, l \in Links : Add(m, t, kd, l)
        \/ \E t \in Target, i \in BOOLEAN, l \in Links : Edit(m, t, i, l)
        \/ Remove(m)
        \/ Pause(m)
        \/ Resume(m)
    BY DEF Commands
<1>2. UNCHANGED local
    BY CommandsType DEF Command
<1>3. CASE \E t \in Target, kd \in Kinds, l \in Links : Add(m, t, kd, l)
    <2>1. PICK t \in Target, kd \in Kinds, l \in Links : Add(m, t, kd, l)
        BY <1>3
    <2>2. NewRow(t, kd, l).status = "Pending" /\ NewRow(t, kd, l).valid
        BY DEF NewRow
    <2>3. monitors'[m] = NewRow(t, kd, l) /\ (k # m => monitors'[k] = monitors[k])
        BY <1>0, <2>1 DEF Add, Table
    <2> QED BY <1>2, <2>2, <2>3
<1>4. CASE \E t \in Target, i \in BOOLEAN, l \in Links : Edit(m, t, i, l)
    <2>1. PICK t \in Target, i \in BOOLEAN, l \in Links : Edit(m, t, i, l)
        BY <1>4
    <2>2. monitors[m] \in Row /\ monitors[m] # Absent
        BY <1>0, <2>1 DEF Edit, Table
    <2>3. /\ monitors[m].valid => UpdatedRow(monitors[m], t, i, l).valid
          /\ UpdatedRow(monitors[m], t, i, l).status \in {monitors[m].status, "Pending"}
        BY <2>2, UpdatedRowType
    <2>4. /\ monitors'[m] = UpdatedRow(monitors[m], t, i, l)
          /\ k # m => monitors'[k] = monitors[k]
        BY <1>0, <2>1 DEF Edit, Table
    <2> QED BY <1>2, <2>2, <2>3, <2>4
<1>5. CASE Remove(m)
    BY <1>0, <1>2, <1>5 DEF Remove, Table
<1>6. ASSUME NEW status \in {"Paused", "Pending"}, monitors[m] # Absent,
             monitors' = WithStatus(monitors, m, status)
      PROVE  /\ k # m => monitors'[k] = monitors[k]
             /\ monitors'[m].status = status
             /\ monitors'[m].valid = monitors[m].valid
    <2>1. status \in Status
        BY DEF Status
    <2>2. /\ monitors[m] \in Row
          /\ monitors'[m] = [monitors[m] EXCEPT !.status = status]
          /\ k # m => monitors'[k] = monitors[k]
        BY <1>0, <1>6, <2>1, WithStatusType
    <2> QED BY <2>2 DEF Row
<1>7. CASE Pause(m)
    BY <1>2, <1>6, <1>7 DEF Pause
<1>8. CASE Resume(m)
    BY <1>2, <1>6, <1>8 DEF Resume
<1> QED BY <1>1, <1>3, <1>4, <1>5, <1>7, <1>8

\* Deadlines and dispatch move neither a row nor a counter of the registry.
LEMMA SchedulingKeepsRows ==
    ASSUME TypeOK, (\E m \in Id : DeadlinePasses(m)) \/ DispatchDue
    PROVE  /\ UNCHANGED <<monitors, quarantined, streak, announced>>
           /\ \A k \in Id : registry'[k] # Absent =>
                 /\ registry[k] # Absent
                 /\ registry'[k].row = registry[k].row
                 /\ registry'[k].flap = registry[k].flap
<1>1. CASE \E m \in Id : DeadlinePasses(m)
    <2>1. PICK m \in Id : DeadlinePasses(m)
        BY <1>1
    <2>2. registry[m] \in Entry /\ registry[m] # Absent
        BY <2>1 DEF DeadlinePasses, Registered, TypeOK
    <2>3. /\ [registry[m] EXCEPT !.due = TRUE].row = registry[m].row
          /\ [registry[m] EXCEPT !.due = TRUE].flap = registry[m].flap
        BY <2>2 DEF Entry
    <2> QED BY <2>1, <2>2, <2>3 DEF DeadlinePasses, TypeOK
<1>2. CASE DispatchDue
    <2>1. \A k \in Id : registry[k] # Absent =>
              /\ [registry[k] EXCEPT !.due = FALSE].row = registry[k].row
              /\ [registry[k] EXCEPT !.due = FALSE].flap = registry[k].flap
        BY EntryType DEF TypeOK, Entry
    <2> QED BY <1>2, <2>1 DEF DispatchDue, Due, Registered
<1> QED BY <1>1, <1>2

LEMMA InitInv == Init => IInv
<1> SUFFICES ASSUME Init PROVE IInv
    OBVIOUS
<1>1. Registered = {}
    BY DEF Init, Registered
<1> QED BY <1>1, InitType DEF IInv, OnlyRunnableScheduled, CountersEarned

\* Every step keeps the invariant, and makes a monitor Down only on enough failures.
LEMMA NextInv ==
    ASSUME IInv, [Next]_vars
    PROVE  IInv' /\ \A k \in Id : BecomesDown(k) => streak'[k] >= DownThreshold
<1> SUFFICES /\ OnlyRunnableScheduled' /\ CountersEarned'
             /\ \A k \in Id : BecomesDown(k) => streak'[k] >= DownThreshold
    BY NextType DEF IInv
<1> USE DEF IInv
<1>1. CASE Commands
    <2>1. \A k \in Id :
              /\ UNCHANGED local
              /\ monitors[k] # Absent /\ monitors[k].valid /\ monitors'[k] # Absent
                   => monitors'[k].valid
              /\ monitors[k] = Absent /\ monitors'[k] # Absent => monitors'[k].valid
              /\ monitors'[k] # Absent =>
                    \/ monitors'[k].status \in {"Pending", "Paused"}
                    \/ monitors[k] # Absent /\ monitors'[k].status = monitors[k].status
        BY <1>1, CommandsRows
    <2>2. UNCHANGED local
        BY <1>1, CommandsType DEF Command
    <2>3. UNCHANGED <<registry, quarantined, announced>>
        BY <2>2 DEF local
    <2>4. OnlyRunnableScheduled'
        BY <2>1, <2>3 DEF OnlyRunnableScheduled, Registered
    <2>5. CountersEarned'
        BY <1>1, <2>3, CommandsHistory DEF CountersEarned, Registered
    <2>6. \A k \in Id : ~BecomesDown(k)
        BY <2>1, <2>3 DEF BecomesDown
    <2> QED BY <2>4, <2>5, <2>6
<1>2. CASE Resync
    BY <1>2, ReconcileInv DEF Resync, BecomesDown
<1>3. CASE \E m \in Id : DeadlinePasses(m)
    BY <1>3, SchedulingKeepsRows DEF OnlyRunnableScheduled, CountersEarned, Registered,
                                     BecomesDown
<1>4. CASE DispatchDue
    BY <1>4, SchedulingKeepsRows DEF OnlyRunnableScheduled, CountersEarned, Registered,
                                     BecomesDown
<1>5. CASE \/ \E task \in Task : HandleJoined(task)
           \/ HandlePushed
           \/ HandlePushedResynced
    BY <1>5, ResultHandled, HandleOutcomeInv DEF SomeResultHandled
<1>6. CASE \E m \in Id, outcome \in Outcome : AgentPushes(m, outcome)
    BY <1>6 DEF AgentPushes, OnlyRunnableScheduled, CountersEarned, Registered, BecomesDown
<1>7. CASE AgentPulls
    BY <1>7 DEF AgentPulls, OnlyRunnableScheduled, CountersEarned, Registered, BecomesDown
<1>8. CASE HandlePushedUnknown
    <2>1. UNCHANGED <<monitors, streak, announced>>
        BY <1>8 DEF HandlePushedUnknown
    <2>2. CASE Reconcile
        BY <2>1, <2>2, ReconcileInv DEF BecomesDown
    <2>3. CASE UNCHANGED <<registry, collectors, quarantined>>
        BY <2>1, <2>3 DEF OnlyRunnableScheduled, CountersEarned, Registered, BecomesDown
    <2> QED BY <1>8, <2>2, <2>3 DEF HandlePushedUnknown
<1>9. CASE Restart
    BY <1>9 DEF Restart, OnlyRunnableScheduled, CountersEarned, Registered, BecomesDown
<1>10. CASE UNCHANGED vars
    BY <1>10 DEF vars, OnlyRunnableScheduled, CountersEarned, Registered, BecomesDown
<1> QED BY <1>1, <1>2, <1>3, <1>4, <1>5, <1>6, <1>7, <1>8, <1>9, <1>10
       DEF Next, Handles, HandlesNone

LEMMA Invariance == Spec => []IInv
<1>1. Init => IInv
    BY InitInv
<1>2. IInv /\ [Next]_vars => IInv'
    BY NextInv
<1> QED BY <1>1, <1>2, PTL DEF Spec

\* However commands, late results, resyncs and restarts interleave, the engine never
\* holds a paused, invalid or quarantined monitor in its schedule.
THEOREM SchedulesOnlyRunnable == Spec => []OnlyRunnableScheduled
<1>1. IInv => OnlyRunnableScheduled
    BY DEF IInv
<1> QED BY <1>1, Invariance, PTL

\* No monitor becomes Down, in the table or in an alert, before DownThreshold failures
\* that no success separates have been counted under its id (flap.rs): its own, if
\* nothing the engine had of the id's former monitor or target was left over when the id
\* came to stand for it (Leftover), and otherwise with those of the former.
THEOREM DownAfterEnoughFailures == Spec => DownIsEarned
<1>1. IInv /\ [Next]_vars
        => [\A m \in Id : BecomesDown(m) => streak'[m] >= DownThreshold]_vars
    BY NextInv
<1> QED BY <1>1, Invariance, PTL DEF Spec, DownIsEarned

-----------------------------------------------------------------------------
(***************************************************************************)
(* What handling a result may do to the statuses: at most one transition,  *)
(* of a registered monitor, that the registry's copy follows.              *)
(***************************************************************************)
Judges(m) ==
    /\ \A k \in Id : k # m => registry'[k] = registry[k]
    /\ \/ /\ UNCHANGED <<monitors, announced, budget>>
          /\ registry'[m] # Absent =>
                registry[m] # Absent /\ registry'[m].row.status = registry[m].row.status
       \/ \E status \in Verdict :
             /\ registry[m] # Absent
             /\ Transition(m, status)
             /\ registry'[m].row.status = status

LEMMA HandleOutcomeJudges ==
    ASSUME IInv, NEW m \in Id, NEW outcome \in Outcome, HandleOutcome(m, outcome)
    PROVE  Judges(m)
<1>0. HandledType
    BY TypeOKParts DEF IInv
<1>1. CASE registry[m] = Absent
    BY <1>1 DEF HandleOutcome, ApplyResult, MarkStaleAndRecord, NoTransition, Judges
<1>2. CASE registry[m] # Absent
    <2> DEFINE counted(success) == Counted(registry[m].flap, success)
               current == registry[m].row.status
               judged(success) == Judged(counted(success), success, current)
    <2>1. /\ registry[m] \in Entry /\ registry[m].flap \in FlapState /\ current \in Status
        BY <1>0, <1>2, EntryType DEF HandledType
    <2>2. CASE outcome = "unavailable"
        <3> "Stale" \in Status /\ "Stale" \in Verdict
            BY DEF Status, Verdict
        <3> DEFINE entry == EntryWith(registry[m], registry[m].flap, "Stale")
        <3>1. CASE current = "Stale"
            BY <1>2, <2>2, <3>1 DEF HandleOutcome, MarkStaleAndRecord, NoTransition, Judges
        <3>2. CASE current # "Stale"
            <4>1. registry' = [registry EXCEPT ![m] = entry] /\ Transition(m, "Stale")
                BY <1>2, <2>2, <3>2 DEF HandleOutcome, MarkStaleAndRecord
            <4>2. entry.row.status = "Stale"
                BY <2>1, EntryWithType
            <4> HIDE DEF entry
            <4> QED BY <1>0, <1>2, <4>1, <4>2 DEF Judges, HandledType
        <3> QED BY <3>1, <3>2
    <2>3. CASE outcome # "unavailable"
        <3>1. PICK success \in BOOLEAN : ApplyResult(m, success)
            <4>1. (outcome = "success") \in BOOLEAN
                OBVIOUS
            <4>2. ApplyResult(m, outcome = "success")
                BY <2>3 DEF HandleOutcome
            <4> QED BY <4>1, <4>2
        <3> DEFINE entry == EntryWith(registry[m], counted(success), judged(success))
        <3>2. /\ registry' = [registry EXCEPT ![m] = entry]
              /\ IF judged(success) = current THEN NoTransition
                 ELSE Transition(m, judged(success))
            BY <1>2, <3>1, Zenon DEF ApplyResult
        <3>3. /\ counted(success) \in FlapState
              /\ judged(success) \in Status
              /\ judged(success) # current => judged(success) \in Verdict
            BY <2>1, CountedType, JudgedType DEF Verdict
        <3>4. entry.row.status = judged(success)
            BY <2>1, <3>3, EntryWithType
        <3>5. registry'[m] = entry /\ \A k \in Id : k # m => registry'[k] = registry[k]
            <4> HIDE DEF entry
            <4> QED BY <1>0, <3>2 DEF HandledType
        <3> HIDE DEF entry, judged, counted
        <3> QED BY <1>2, <3>2, <3>3, <3>4, <3>5 DEF Judges, NoTransition
    <2> QED BY <2>2, <2>3
<1> QED BY <1>1, <1>2

\* Of a step, what the properties about the table need: it is a command, or the
\* handling of one result, or it leaves table, alerts and budget of commands alone.
TableStep ==
    \/ Commands
    \/ \E m \in Id : Judges(m)
    \/ UNCHANGED monitors

LEMMA NextTableStep ==
    ASSUME IInv, [Next]_vars
    PROVE  TableStep
<1>1. CASE \/ \E task \in Task : HandleJoined(task)
           \/ HandlePushed
           \/ HandlePushedResynced
    BY <1>1, ResultHandled, HandleOutcomeJudges DEF IInv, SomeResultHandled, TableStep
<1>2. CASE ~(\/ \E task \in Task : HandleJoined(task)
             \/ HandlePushed
             \/ HandlePushedResynced)
    BY <1>2 DEF Next, Handles, HandlesNone, vars, TableStep, Resync, DeadlinePasses,
                DispatchDue, AgentPushes, AgentPulls, HandlePushedUnknown, Restart
<1> QED BY <1>1, <1>2

\* Once a resync has dropped a paused monitor, no result still in flight, queued or
\* pushed for it changes its row: only a command does (service::pause_monitor).
THEOREM PausedStaysPaused == Spec => PauseSticks
<1> DEFINE P == \A m \in Id :
                  (/\ monitors[m] # Absent /\ monitors[m].status = "Paused"
                   /\ registry[m] = Absent
                   /\ monitors'[m] # monitors[m])
                  => budget'.ops < budget.ops
<1>1. ASSUME IInv, [Next]_vars PROVE P
    <2> SUFFICES ASSUME NEW m \in Id,
                        monitors[m] # Absent, registry[m] = Absent,
                        monitors'[m] # monitors[m]
                 PROVE  budget'.ops < budget.ops
        OBVIOUS
    <2>1. CASE Commands
        <3>1. Command /\ budget \in Budget
            BY <1>1, <2>1, CommandsType DEF IInv, TypeOK, Budget
        <3>2. budget.ops \in 0..MaxOps /\ budget'.ops = budget.ops - 1
            BY <3>1 DEF Command, Budget
        <3> QED BY <3>2, SchedulerAssumption
    <2>2. ASSUME NEW k \in Id, Judges(k) PROVE FALSE
        <3>1. PICK status \in Verdict : registry[k] # Absent /\ Transition(k, status)
            BY <2>2 DEF Judges
        <3>2. HandledType
            BY <1>1, TypeOKParts DEF IInv
        <3>3. m # k => monitors'[m] = monitors[m]
            BY <3>1, <3>2, TransitionRows
        <3> QED BY <3>1, <3>3
    <2> QED BY <1>1, <2>1, <2>2, NextTableStep DEF TableStep
<1>2. IInv /\ [Next]_vars => [P]_vars
    BY <1>1
<1> QED BY <1>2, Invariance, PTL DEF Spec, PauseSticks

-----------------------------------------------------------------------------
(***************************************************************************)
(* Results that are merely unavailable.                                    *)
(***************************************************************************)
\* A step that hides its result from /ws moves no counter and makes nothing Down.
Hidden == out'.result # 0 /\ ~out'.live

NothingCounted ==
    \A m \in Id : /\ ~BecomesDown(m)
                  /\ registry[m] # Absent /\ registry'[m] # Absent
                     => registry'[m].flap = registry[m].flap

LEMMA MarkStaleCountsNothing ==
    ASSUME IInv, NEW m \in Id, MarkStaleAndRecord(m), UNCHANGED quarantined
    PROVE  NothingCounted
<1>0. HandledType
    BY TypeOKParts DEF IInv
<1>1. \A k \in Id : ~BecomesDown(k)
    BY MarkStaleInv
<1>2. CASE UNCHANGED registry
    BY <1>1, <1>2 DEF NothingCounted
<1>3. CASE registry[m] # Absent
           /\ registry' = [registry EXCEPT ![m] = EntryWith(@, @.flap, "Stale")]
    <2>1. registry[m] \in Entry /\ registry[m].flap \in FlapState /\ "Stale" \in Status
        BY <1>0, <1>3, EntryType DEF HandledType, Status
    <2> DEFINE entry == EntryWith(registry[m], registry[m].flap, "Stale")
    <2>2. entry.flap = registry[m].flap
        BY <2>1, EntryWithType
    <2>3. registry' = [registry EXCEPT ![m] = entry]
        BY <1>3
    <2> HIDE DEF entry
    <2>4. \A k \in Id : registry'[k] = IF k = m THEN entry ELSE registry[k]
        BY <1>0, <2>3 DEF HandledType
    <2> QED BY <1>1, <2>2, <2>4 DEF NothingCounted
<1> QED BY <1>2, <1>3 DEF MarkStaleAndRecord

LEMMA HiddenCountsNothing ==
    ASSUME IInv, [Next]_vars, Hidden
    PROVE  NothingCounted
<1>1. CASE \/ \E task \in Task : HandleJoined(task)
           \/ HandlePushed
           \/ HandlePushedResynced
    <2>1. PICK m \in Id, outcome \in Outcome : HandleOutcome(m, outcome)
        BY <1>1, ResultHandled DEF IInv, SomeResultHandled
    <2>2. UNCHANGED quarantined
        BY <1>1, ResultHandled DEF IInv, SomeResultHandled
    <2>3. CASE outcome = "unavailable"
        BY <2>1, <2>2, <2>3, MarkStaleCountsNothing DEF HandleOutcome
    <2>4. CASE outcome # "unavailable"
        <3>1. ApplyResult(m, outcome = "success")
            BY <2>1, <2>4 DEF HandleOutcome
        <3>2. out' = Silent \/ out' = [result |-> m, live |-> TRUE]
            BY <3>1, Zenon DEF ApplyResult
        <3> QED BY <3>2 DEF Hidden, Silent
    <2> QED BY <2>3, <2>4
<1>2. CASE (\E m \in Id : DeadlinePasses(m)) \/ DispatchDue
    <2>1. UNCHANGED <<monitors, announced>>
        BY <1>2, SchedulingKeepsRows DEF IInv
    <2> QED BY <1>2, <2>1, SchedulingKeepsRows DEF IInv, NothingCounted, BecomesDown
<1>3. CASE (\E m \in Id, outcome \in Outcome : AgentPushes(m, outcome)) \/ AgentPulls
           \/ UNCHANGED vars
    BY <1>3 DEF AgentPushes, AgentPulls, vars, NothingCounted, BecomesDown
<1>4. CASE Commands \/ Resync \/ HandlePushedUnknown \/ Restart
    <2>1. out' = Silent
        BY <1>4, CommandsType DEF IInv, Command, Resync, HandlePushedUnknown, Restart
    <2> QED BY <2>1 DEF Hidden, Silent
<1> QED BY <1>1, <1>2, <1>3, <1>4 DEF Next, Handles, HandlesNone

\* A result that could not be had, or a panic, neither moves a flap counter nor makes any
\* monitor Down (mark_stale_and_record), whatever the counters and the row then are.
THEOREM UnavailableNeverDown == Spec => UnavailableIsNotDown
<1>1. ASSUME IInv, [Next]_vars PROVE [Hidden => NothingCounted]_vars
    BY <1>1, HiddenCountsNothing
<1>2. IInv /\ [Next]_vars => [Hidden => NothingCounted]_vars
    BY <1>1
<1> QED BY <1>2, Invariance, PTL DEF Spec, UnavailableIsNotDown, Hidden, NothingCounted

-----------------------------------------------------------------------------
(***************************************************************************)
(* The alert feed.                                                         *)
(***************************************************************************)
FInv == IInv /\ FeedMatchesStatus

LEMMA FeedInit == Init => FInv
<1> SUFFICES ASSUME Init PROVE LastAlertTrue
    BY InitInv DEF FInv, FeedMatchesStatus
<1> QED BY DEF Init, LastAlertTrue, LastAnnounced

\* Handling a result keeps the feed true if its status write does not fail.
LEMMA FeedJudges ==
    ASSUME IInv, LastAlertTrue, NEW m \in Id, Judges(m), ~StoreFails
    PROVE  LastAlertTrue'
<1>0. HandledType
    BY TypeOKParts DEF IInv
<1>1. CASE /\ UNCHANGED <<monitors, announced, budget>>
           /\ registry'[m] # Absent =>
                 registry[m] # Absent /\ registry'[m].row.status = registry[m].row.status
    BY <1>1 DEF Judges, LastAlertTrue
<1>2. ASSUME NEW status \in Verdict,
             registry[m] # Absent, Transition(m, status), registry'[m].row.status = status
      PROVE  LastAlertTrue'
    <2>1. /\ \A k \in Id : k # m =>
                 monitors'[k] = monitors[k] /\ announced'[k] = announced[k]
          /\ announced'[m] = status
        BY <1>0, <1>2, TransitionRows
    <2>2. monitors' = WithStatus(monitors, m, status)
        BY <1>2 DEF Transition
    <2>3. status \in Status /\ monitors \in Table
        BY <1>0 DEF HandledType, Verdict, Status
    <2>4. monitors'[m] # Absent => monitors'[m].status = status
        <3>1. /\ monitors[m] = Absent => monitors'[m] = Absent
              /\ monitors[m] # Absent =>
                    /\ monitors[m] \in Row
                    /\ monitors'[m] = [monitors[m] EXCEPT !.status = status]
            BY <2>2, <2>3, WithStatusType
        <3> QED BY <3>1 DEF Row
    <2>5. \A k \in Id : k # m => registry'[k] = registry[k]
        BY DEF Judges
    <2> QED BY <1>2, <2>1, <2>4, <2>5 DEF LastAlertTrue
<1> QED BY <1>1, <1>2 DEF Judges

\* After a resync the engine's copy is the table's.
LEMMA FeedReconcile ==
    ASSUME IInv, LastAlertTrue, Reconcile, UNCHANGED <<monitors, announced>>
    PROVE  LastAlertTrue'
<1> SUFFICES ASSUME NEW m \in Id, registry'[m] # Absent
             PROVE  monitors[m] # Absent /\ registry'[m].row = monitors[m]
    BY DEF LastAlertTrue
<1>1. Eligible(monitors[m])
    BY DEF Reconcile, SyncedRegistry
<1>2. CASE registry[m] = Absent
    BY <1>1, <1>2 DEF Reconcile, SyncedRegistry, Eligible
<1>3. CASE registry[m] # Absent
    <2>1. registry[m] \in Entry
        BY <1>3 DEF IInv, TypeOK
    <2> QED BY <1>1, <1>3, <2>1 DEF Reconcile, SyncedRegistry, Eligible, Entry
<1> QED BY <1>2, <1>3

\* A write that fails and a restart are remembered by the budget they spend.
LEMMA DisturbanceRemembered ==
    ASSUME TypeOK, Undisturbed'
    PROVE  ~StoreFails /\ ~Restart
<1>1. budget.faults \in 0..MaxFaults /\ budget.crashes \in 0..MaxCrashes
    BY DEF TypeOK
<1>2. StoreFails => budget'.faults = budget.faults - 1
    BY DEF StoreFails, TypeOK
<1>3. Restart => budget'.crashes = budget.crashes - 1
    BY DEF Restart, TypeOK
<1> QED BY <1>1, <1>2, <1>3, SchedulerAssumption DEF Undisturbed

LEMMA FeedNext ==
    ASSUME FInv, [Next]_vars
    PROVE  FInv'
<1> SUFFICES ASSUME Undisturbed' PROVE LastAlertTrue'
    BY NextInv DEF FInv, FeedMatchesStatus
<1>0. IInv /\ TypeOK /\ ~StoreFails /\ ~Restart
    BY DisturbanceRemembered DEF FInv, IInv
<1> DEFINE SameDisturbance == /\ budget'.faults = budget.faults
                              /\ budget'.crashes = budget.crashes
<1>a. ASSUME SameDisturbance PROVE LastAlertTrue
    BY <1>a DEF FInv, FeedMatchesStatus, Undisturbed
<1>b. ASSUME UNCHANGED budget PROVE LastAlertTrue
    BY <1>b, <1>a
<1> HIDE DEF SameDisturbance
<1>1. CASE Commands
    <2>0. LastAlertTrue
        <3>1. Command
            BY <1>0, <1>1, CommandsType
        <3> QED BY <1>0, <1>a, <3>1 DEF Command, TypeOK, SameDisturbance
    <2>1. UNCHANGED local
        BY <1>0, <1>1, CommandsType DEF Command
    <2>2. \A k \in Id : monitors'[k] # Absent =>
              \/ monitors'[k].status \in {"Pending", "Paused"}
              \/ monitors[k] # Absent /\ monitors'[k].status = monitors[k].status
        BY <1>0, <1>1, CommandsRows
    <2> QED BY <2>0, <2>1, <2>2 DEF local, LastAlertTrue, Verdict
<1>2. CASE Resync
    BY <1>0, <1>2, <1>b, FeedReconcile DEF Resync
<1>3. CASE (\E m \in Id : DeadlinePasses(m)) \/ DispatchDue
    <2>1. LastAlertTrue
        BY <1>3, <1>b DEF DeadlinePasses, DispatchDue
    <2> QED BY <1>0, <1>3, <2>1, SchedulingKeepsRows DEF LastAlertTrue
<1>4. CASE \/ \E task \in Task : HandleJoined(task)
           \/ HandlePushed
           \/ HandlePushedResynced
    <2>1. PICK m \in Id : Judges(m)
        BY <1>0, <1>4, ResultHandled, HandleOutcomeJudges DEF SomeResultHandled
    <2>2. UNCHANGED budget
        BY <1>0, <2>1 DEF Judges, Transition
    <2> QED BY <1>0, <1>b, <2>1, <2>2, FeedJudges
<1>5. CASE \E m \in Id, outcome \in Outcome : AgentPushes(m, outcome)
    BY <1>5, <1>b DEF AgentPushes, LastAlertTrue
<1>6. CASE AgentPulls
    BY <1>6, <1>b DEF AgentPulls, LastAlertTrue
<1>7. CASE HandlePushedUnknown
    BY <1>0, <1>7, <1>b, FeedReconcile DEF HandlePushedUnknown
<1>8. CASE UNCHANGED vars
    BY <1>8, <1>b DEF vars, LastAlertTrue
<1> QED BY <1>0, <1>1, <1>2, <1>3, <1>4, <1>5, <1>6, <1>7, <1>8
       DEF Next, Handles, HandlesNone

\* Until a status write fails or the daemon is killed, the last alert submitted for a
\* monitor is its status, in the table and in the engine's copy of it
\* (persist_status, then submit).
THEOREM AlertsTellTheStatus == Spec => []FeedMatchesStatus
<1>1. Init => FInv
    BY FeedInit
<1>2. FInv /\ [Next]_vars => FInv'
    BY FeedNext
<1>3. FInv => FeedMatchesStatus
    BY DEF FInv
<1> QED BY <1>1, <1>2, <1>3, PTL DEF Spec

-----------------------------------------------------------------------------
(***************************************************************************)
(* The refinement: what readers of the table are told is MonitorLifecycle. *)
(***************************************************************************)
\* A step that changes what is told of at most one monitor, seen from the outside.
LEMMA ToldBecomes ==
    ASSUME NEW m \in Id,
           \A k \in Id : k # m => monitors'[k] = monitors[k]
    PROVE  Told' = [Told EXCEPT ![m] = Told'[m]]
BY DEF Told, StatusRead

\* A row's status as told is its status, if the row is valid.
LEMMA ToldIs ==
    ASSUME NEW m \in Id
    PROVE  /\ monitors[m] = Absent => Told[m] = "None"
           /\ monitors[m] # Absent /\ ~monitors[m].valid => Told[m] = "Unknown"
           /\ monitors[m] # Absent /\ monitors[m].valid => Told[m] = monitors[m].status
BY DEF Told, StatusRead

LEMMA ToldIsNext ==
    ASSUME NEW m \in Id
    PROVE  /\ monitors'[m] = Absent => Told'[m] = "None"
           /\ monitors'[m] # Absent /\ ~monitors'[m].valid => Told'[m] = "Unknown"
           /\ monitors'[m] # Absent /\ monitors'[m].valid => Told'[m] = monitors'[m].status
BY DEF Told, StatusRead

LEMMA LifecycleInit == Init => Promised!LInit
<1> SUFFICES ASSUME Init PROVE Promised!LInit
    OBVIOUS
<1>1. ASSUME NEW m \in Id
      PROVE  Told[m] \in {"None", "Pending", "Paused", "Unknown"} \cup Promised!Verdicts
    <2>1. monitors[m] # Absent => monitors[m] \in Row
        BY SchedulerAssumption DEF Init
    <2> QED BY <2>1, ToldIs DEF Row, Status, Promised!Verdicts
<1> QED BY <1>1 DEF Promised!LInit, Told

\* Each command is an operator's step of the lifecycle or leaves it alone.
LEMMA CommandsLifecycle ==
    ASSUME TypeOK, Commands
    PROVE  [Promised!LNext]_Told
<1> USE SchedulerAssumption
<1>0. monitors \in Table
    BY DEF TypeOK
<1>1. PICK m \in Id :
        \/ \E t \in Target, kd \in Kinds, l \in Links : Add(m, t, kd, l)
        \/ \E t \in Target, i \in BOOLEAN, l \in Links : Edit(m, t, i, l)
        \/ Remove(m)
        \/ Pause(m)
        \/ Resume(m)
    BY DEF Commands
<1>2. CASE \E t \in Target, kd \in Kinds, l \in Links : Add(m, t, kd, l)
    <2>1. PICK t \in Target, kd \in Kinds, l \in Links : Add(m, t, kd, l)
        BY <1>2
    <2>2. monitors' = [monitors EXCEPT ![m] = NewRow(t, kd, l)] /\ monitors[m] = Absent
        BY <1>0, <2>1, StoreAssumption DEF Add, IsNextRowId, Stored, Id, Table
    <2>3. /\ NewRow(t, kd, l) \in Row
          /\ NewRow(t, kd, l).valid /\ NewRow(t, kd, l).status = "Pending"
        BY NewRowType DEF NewRow
    <2>4. monitors'[m] = NewRow(t, kd, l) /\ monitors'[m] # Absent
        BY <1>0, <2>2, <2>3, StoreAssumption DEF Table
    <2>5. Told[m] = "None" /\ Told'[m] = "Pending"
        BY <2>2, <2>3, <2>4, ToldIs, ToldIsNext
    <2>6. Told' = [Told EXCEPT ![m] = Told'[m]]
        BY <1>0, <2>2, ToldBecomes DEF Table
    <2> QED BY <2>5, <2>6 DEF Promised!LNext, Promised!Create, Promised!Becomes
<1>3. CASE \E t \in Target, i \in BOOLEAN, l \in Links : Edit(m, t, i, l)
    <2>1. PICK t \in Target, i \in BOOLEAN, l \in Links : Edit(m, t, i, l)
        BY <1>3
    <2> DEFINE edited == UpdatedRow(monitors[m], t, i, l)
    <2>2. /\ monitors[m] \in Row /\ monitors[m] # Absent
          /\ monitors' = [monitors EXCEPT ![m] = edited]
        BY <1>0, <2>1 DEF Edit, Table
    <2>3. edited \in Row
        BY <2>2, UpdatedRowType
    <2>4. monitors'[m] = edited /\ monitors'[m] # Absent
        <3> HIDE DEF edited
        <3> QED BY <1>0, <2>2, <2>3, StoreAssumption DEF Table
    <2>5. Told' = [Told EXCEPT ![m] = Told'[m]]
        <3> HIDE DEF edited
        <3> QED BY <1>0, <2>2, ToldBecomes DEF Table
    <2>6. CASE monitors[m].valid \/ ~i
        <3>1. edited.valid = monitors[m].valid /\ edited.status = monitors[m].status
            BY <2>2, <2>6 DEF UpdatedRow, Row
        <3>2. Told'[m] = Told[m]
            <4> HIDE DEF edited
            <4> QED BY <2>2, <2>4, <3>1, ToldIs, ToldIsNext
        <3> QED BY <2>5, <3>2 DEF Told
    <2>7. CASE ~monitors[m].valid /\ i
        <3>1. edited.valid /\ edited.status = "Pending"
            BY <2>2, <2>7 DEF UpdatedRow, Row
        <3>2. Told[m] = "Unknown" /\ Told'[m] = "Pending"
            <4> HIDE DEF edited
            <4> QED BY <2>2, <2>4, <2>7, <3>1, ToldIs, ToldIsNext
        <3> QED BY <2>5, <3>2 DEF Promised!LNext, Promised!Reset, Promised!Becomes
    <2> QED BY <2>6, <2>7
<1>4. CASE Remove(m)
    <2>1. /\ monitors[m] # Absent /\ monitors'[m] = Absent
          /\ \A k \in Id : k # m => monitors'[k] = monitors[k]
        BY <1>0, <1>4 DEF Remove, Table
    <2>2. Told[m] # "None" /\ Told'[m] = "None"
        <3>1. monitors[m].status # "None"
            BY <1>0, <2>1 DEF Table, Row, Status
        <3> QED BY <2>1, <3>1, ToldIs, ToldIsNext
    <2> QED BY <2>1, <2>2, ToldBecomes DEF Promised!LNext, Promised!Delete, Promised!Becomes
<1>5. ASSUME NEW status \in {"Paused", "Pending"}, monitors[m] # Absent,
             monitors' = WithStatus(monitors, m, status)
      PROVE  /\ Told' = [Told EXCEPT ![m] = Told'[m]]
             /\ Told[m] # "None"
             /\ \/ Told'[m] = Told[m]
                \/ Told[m] # "Unknown" /\ Told'[m] = status
    <2>1. status \in Status
        BY DEF Status
    <2>2. /\ monitors[m] \in Row
          /\ monitors'[m] = [monitors[m] EXCEPT !.status = status]
          /\ \A k \in Id : k # m => monitors'[k] = monitors[k]
        BY <1>0, <1>5, <2>1, WithStatusType
    <2>3. /\ monitors'[m] # Absent
          /\ monitors'[m].status = status
          /\ monitors'[m].valid = monitors[m].valid
        BY <2>1, <2>2, StoreAssumption DEF Row
    <2>4. monitors[m].status \notin {"None", "Unknown"}
        BY <2>2 DEF Row, Status
    <2> QED BY <1>5, <2>2, <2>3, <2>4, ToldBecomes, ToldIs, ToldIsNext
<1>6. CASE Pause(m)
    BY <1>5, <1>6 DEF Pause, Told, Promised!LNext, Promised!Suspend, Promised!Becomes
<1>7. CASE Resume(m)
    BY <1>5, <1>7 DEF Resume, Told, Promised!LNext, Promised!Reset, Promised!Becomes
<1> QED BY <1>1, <1>2, <1>3, <1>4, <1>6, <1>7

\* Handling a result is a verdict of the lifecycle or leaves it alone.
LEMMA JudgesLifecycle ==
    ASSUME IInv, NEW m \in Id, Judges(m)
    PROVE  [Promised!LNext]_Told
<1>0. HandledType
    BY TypeOKParts DEF IInv
<1>1. CASE UNCHANGED monitors
    BY <1>1 DEF Told
<1>2. CASE ~UNCHANGED monitors
    <2>1. PICK status \in Verdict : registry[m] # Absent /\ Transition(m, status)
        BY <1>2 DEF Judges
    <2>2. /\ \A k \in Id : k # m => monitors'[k] = monitors[k]
          /\ monitors[m] # Absent /\ monitors'[m] # Absent
          /\ monitors'[m].status = status
          /\ monitors'[m].valid = monitors[m].valid
        BY <1>0, <1>2, <2>1, TransitionRows
    <2>3. monitors[m].valid /\ monitors[m].status \in Status
        BY <1>0, <2>1, <2>2
           DEF IInv, OnlyRunnableScheduled, Registered, HandledType, Table, Row
    <2>4. Told[m] = monitors[m].status /\ Told'[m] = status
        BY <2>2, <2>3, ToldIs, ToldIsNext
    <2>5. Told[m] \in Promised!Judgeable /\ status \in Promised!Verdicts
        BY <2>3, <2>4 DEF Promised!Judgeable, Promised!Verdicts, Status, Verdict
    <2> QED BY <2>2, <2>4, <2>5, ToldBecomes
            DEF Promised!LNext, Promised!Judge, Promised!Becomes
<1> QED BY <1>1, <1>2

\* The scheduler, its operators, its agents and its restarts implement the lifecycle
\* a reader of the monitors table may count on.
THEOREM ImplementsLifecycle == Spec => KeepsLifecycle
<1>1. Init => Promised!LInit
    BY LifecycleInit
<1>2. IInv /\ [Next]_vars => [Promised!LNext]_Told
    <2> SUFFICES ASSUME IInv, [Next]_vars PROVE [Promised!LNext]_Told
        OBVIOUS
    <2>1. TypeOK
        BY DEF IInv
    <2>2. CASE UNCHANGED monitors
        BY <2>2 DEF Told
    <2> QED BY <2>1, <2>2, NextTableStep, CommandsLifecycle, JudgesLifecycle DEF TableStep
<1> QED BY <1>1, <1>2, Invariance, PTL DEF Spec, KeepsLifecycle, Promised!LSpec

-----------------------------------------------------------------------------
(***************************************************************************)
(* The watchdog beside the scheduler.                                      *)
(***************************************************************************)
SweepTyped ==
    sweep \in [phase : {"asleep", "listing", "marking"}, left : SUBSET Id,
               telling : Id \cup {Absent}]

\* A sweep marks only monitors whose rows were valid when it read them, and still are:
\* nothing makes a valid row invalid, and a row given out again is valid.
LeftAreValid == \A m \in sweep.left : monitors[m] # Absent => monitors[m].valid

WInv == IInv /\ SweepTyped /\ LeftAreValid

\* The ids are well ordered, so that a sweep has a next row while any is left.
LEMMA MinIsIn ==
    ASSUME NEW S, S \subseteq Nat, S # {}
    PROVE  Min(S) \in S
<1> DEFINE R == {pair \in Nat \X Nat : pair[1] < pair[2]}
<1>1. IsWellFoundedOn(R, Nat)
    BY NatLessThanWellFounded, Zenon DEF OpToRel
<1>2. PICK x \in S : \A y \in S : ~ (<<y, x>> \in R)
    BY <1>1, WFMin, Zenon
<1>3. ASSUME NEW y \in S PROVE x <= y
    <2>1. <<y, x>> \in Nat \X Nat /\ <<y, x>>[1] = y /\ <<y, x>>[2] = x
        OBVIOUS
    <2>2. ~(y < x)
        BY <1>2, <2>1, Zenon
    <2> QED BY <2>2
<1> QED BY <1>3 DEF Min

LEMMA NextRow ==
    ASSUME SweepTyped, sweep.left # {}
    PROVE  Min(sweep.left) \in sweep.left /\ Min(sweep.left) \in Id
<1>1. sweep.left \subseteq Id
    BY DEF SweepTyped
<1>2. Id \subseteq Nat
    BY StoreAssumption DEF Id
<1> QED BY <1>1, <1>2, MinIsIn

\* What the scheduler and its operators do never makes a valid row invalid.
LEMMA RowsStayValid ==
    ASSUME IInv, [Next]_vars, NEW k \in Id,
           monitors[k] # Absent => monitors[k].valid, monitors'[k] # Absent
    PROVE  monitors'[k].valid
<1>1. CASE Commands
    BY <1>1, CommandsRows DEF IInv
<1>2. ASSUME NEW m \in Id, Judges(m) PROVE monitors'[k].valid
    <2>1. HandledType
        BY TypeOKParts DEF IInv
    <2>2. CASE UNCHANGED monitors
        BY <2>2
    <2>3. CASE ~UNCHANGED monitors
        <3>1. PICK status \in Verdict : registry[m] # Absent /\ Transition(m, status)
            BY <1>2, <2>3 DEF Judges
        <3> QED BY <2>1, <2>3, <3>1, TransitionRows
    <2> QED BY <2>2, <2>3
<1> QED BY <1>1, <1>2, NextTableStep DEF TableStep

\* A status written by the sweep touches one row, and makes nothing Down.
LEMMA MarkedRows ==
    ASSUME WInv, NEW m \in sweep.left, monitors' = WithStatus(monitors, m, "Stale"),
           monitors[m] # Absent
    PROVE  /\ monitors' \in Table
           /\ m \in Id
           /\ \A k \in Id : k # m => monitors'[k] = monitors[k]
           /\ monitors'[m] # Absent
           /\ monitors'[m].status = "Stale" /\ monitors'[m].valid
           /\ monitors[m].valid /\ monitors[m].status \in Status
<1>1. m \in Id /\ monitors \in Table /\ "Stale" \in Status /\ monitors[m].valid
    BY DEF WInv, SweepTyped, LeftAreValid, IInv, TypeOK, Status
<1>2. /\ monitors' \in Table
      /\ \A k \in Id : k # m => monitors'[k] = monitors[k]
      /\ monitors[m] \in Row
      /\ monitors'[m] = [monitors[m] EXCEPT !.status = "Stale"]
    BY <1>1, WithStatusType
<1>3. /\ monitors'[m] \in Row /\ monitors'[m].status = "Stale"
      /\ monitors'[m].valid = monitors[m].valid
    BY <1>1, <1>2 DEF Row
<1> QED BY <1>1, <1>2, <1>3, StoreAssumption DEF Row

LEMMA InitWInv == WInit => WInv
BY InitInv, StoreAssumption DEF WInit, WInv, SweepTyped, LeftAreValid, Asleep

\* The watchdog's own steps leave alone what the scheduler's invariant rests on.
LEMMA WatchdogKeepsIInv ==
    ASSUME IInv, UNCHANGED schedulerOwn,
           monitors' \in Table,
           \A k \in Id : monitors[k] # Absent /\ monitors[k].valid /\ monitors'[k] # Absent
                            => monitors'[k].valid,
           \A k \in Id : monitors'[k] # Absent => monitors[k] # Absent,
           announced' \in [Id -> Verdict \cup {Absent}],
           budget' \in Budget
    PROVE  IInv'
<1>1. TypeOK'
    BY DEF IInv, TypeOK, schedulerOwn, Budget
<1>2. OnlyRunnableScheduled' /\ CountersEarned'
    BY DEF IInv, OnlyRunnableScheduled, CountersEarned, Registered, schedulerOwn
<1> QED BY <1>1, <1>2 DEF IInv

LEMMA SweepListsInv == ASSUME WInv, SweepLists PROVE WInv' /\ UNCHANGED monitors
<1>1. budget' \in Budget
    <2>1. HandledType
        BY TypeOKParts DEF WInv, IInv
    <2> QED BY <2>1, StoreFailsType DEF SweepLists, HandledType
<1>2. IInv'
    BY <1>1, WatchdogKeepsIInv DEF SweepLists, WInv, IInv, TypeOK
<1>3. Silenced \subseteq Id
    BY DEF Silenced, Stored
<1>4. CASE sweep' = [sweep EXCEPT !.phase = "marking", !.left = Silenced]
    <2>1. SweepTyped'
        BY <1>3, <1>4 DEF WInv, SweepTyped
    <2>2. sweep'.left = Silenced /\ UNCHANGED monitors
        BY <1>4 DEF WInv, SweepTyped, SweepLists
    <2>3. LeftAreValid'
        BY <2>2 DEF LeftAreValid, Silenced, StatusRead
    <2> QED BY <1>2, <2>1, <2>2, <2>3 DEF WInv
<1>5. CASE sweep' = Asleep
    BY <1>2, <1>5 DEF WInv, SweepTyped, LeftAreValid, Asleep, SweepLists
<1> QED BY <1>4, <1>5 DEF SweepLists

LEMMA SweepMarksInv ==
    ASSUME WInv, SweepMarks
    PROVE  WInv' /\ \A k \in Id : ~BecomesDown(k)
<1> DEFINE m == Min(sweep.left)
<1>1. m \in sweep.left /\ m \in Id
    BY NextRow DEF SweepMarks, WInv
<1>2. HandledType
    BY TypeOKParts DEF WInv, IInv
<1>3. /\ UNCHANGED <<schedulerOwn, announced, heard>>
      /\ \/ /\ monitors[m] # Absent
            /\ monitors' = WithStatus(monitors, m, "Stale")
            /\ sweep' = [sweep EXCEPT !.left = @ \ {m}, !.telling = m]
            /\ UNCHANGED budget
         \/ sweep' = [sweep EXCEPT !.left = @ \ {m}] /\ UNCHANGED <<monitors, budget>>
         \/ StoreFails /\ sweep' = [sweep EXCEPT !.left = @ \ {m}] /\ UNCHANGED monitors
    BY DEF SweepMarks
<1> HIDE DEF m
<1>4. /\ SweepTyped'
      /\ sweep'.left \subseteq sweep.left
    BY <1>1, <1>3 DEF WInv, SweepTyped
<1>5. CASE monitors[m] # Absent /\ monitors' = WithStatus(monitors, m, "Stale")
           /\ UNCHANGED budget
    <2>1. /\ monitors' \in Table
          /\ \A k \in Id : k # m => monitors'[k] = monitors[k]
          /\ monitors'[m].status = "Stale" /\ monitors'[m].valid
        BY <1>1, <1>5, MarkedRows
    <2>2. IInv'
        BY <1>2, <1>3, <1>5, <2>1, WatchdogKeepsIInv DEF WInv, HandledType
    <2>3. LeftAreValid'
        BY <1>4, <2>1 DEF WInv, LeftAreValid, SweepTyped
    <2>4. \A k \in Id : ~BecomesDown(k)
        BY <1>3, <2>1 DEF BecomesDown
    <2> QED BY <1>4, <2>2, <2>3, <2>4 DEF WInv
<1>6. CASE UNCHANGED monitors /\ (UNCHANGED budget \/ StoreFails)
    <2>1. budget' \in Budget
        BY <1>2, <1>6, StoreFailsType DEF HandledType
    <2>2. IInv'
        BY <1>2, <1>3, <1>6, <2>1, WatchdogKeepsIInv DEF WInv, HandledType
    <2>3. LeftAreValid'
        BY <1>4, <1>6 DEF WInv, LeftAreValid
    <2>4. \A k \in Id : ~BecomesDown(k)
        BY <1>3, <1>6 DEF BecomesDown
    <2> QED BY <1>4, <2>2, <2>3, <2>4 DEF WInv
<1> QED BY <1>3, <1>5, <1>6

LEMMA SweepTellsInv ==
    ASSUME WInv, SweepTells
    PROVE  WInv' /\ UNCHANGED monitors /\ \A k \in Id : ~BecomesDown(k)
<1>1. /\ UNCHANGED <<schedulerOwn, monitors, budget, heard>>
      /\ announced' = [announced EXCEPT ![sweep.telling] = "Stale"]
      /\ sweep' = [sweep EXCEPT !.telling = Absent]
      /\ sweep.telling \in Id
    BY DEF SweepTells, WInv, SweepTyped
<1>2. announced \in [Id -> Verdict \cup {Absent}] /\ monitors \in Table
      /\ budget \in Budget
    BY DEF WInv, IInv, TypeOK, Budget
<1>3. announced' \in [Id -> Verdict \cup {Absent}]
    BY <1>1, <1>2 DEF Verdict
<1>4. IInv'
    BY <1>1, <1>2, <1>3, WatchdogKeepsIInv DEF WInv
<1>5. SweepTyped' /\ sweep'.left = sweep.left
    BY <1>1 DEF WInv, SweepTyped
<1>6. LeftAreValid'
    BY <1>1, <1>5 DEF WInv, LeftAreValid
<1>7. \A k \in Id : ~BecomesDown(k)
    BY <1>1, <1>2 DEF BecomesDown
<1> QED BY <1>1, <1>4, <1>5, <1>6, <1>7 DEF WInv

\* The steps that only move the sweep on, or the heartbeats.
LEMMA IdleInv ==
    ASSUME WInv, SweepBegins \/ SweepEnds \/ HeartbeatLapses \/ HeartbeatArrives
                 \/ UNCHANGED wvars
    PROVE  WInv' /\ UNCHANGED vars
<1>1. UNCHANGED vars
    BY DEF SweepBegins, SweepEnds, HeartbeatLapses, HeartbeatArrives, wvars
<1>2. SweepTyped' /\ sweep'.left \subseteq sweep.left
    BY DEF WInv, SweepTyped, SweepBegins, SweepEnds, HeartbeatLapses, HeartbeatArrives,
           wvars, Asleep
<1>3. IInv' /\ UNCHANGED monitors
    BY <1>1, NextInv DEF WInv, vars
<1> QED BY <1>1, <1>2, <1>3 DEF WInv, LeftAreValid

LEMMA SchedulerStepInv == ASSUME WInv, SchedulerStep PROVE WInv'
<1>1. IInv' /\ Next
    BY NextInv DEF WInv, SchedulerStep
<1>2. SweepTyped' /\ sweep'.left \subseteq sweep.left
    BY DEF WInv, SweepTyped, SchedulerStep, Asleep
<1>3. sweep.left \subseteq Id
    BY DEF WInv, SweepTyped
<1>4. LeftAreValid'
    BY <1>1, <1>2, <1>3, RowsStayValid DEF WInv, LeftAreValid
<1> QED BY <1>1, <1>2, <1>4 DEF WInv

LEMMA NextWInv == ASSUME WInv, [WNext]_wvars PROVE WInv'
BY SchedulerStepInv, IdleInv, SweepListsInv, SweepMarksInv, SweepTellsInv DEF WNext, SweepStep

LEMMA WatchedInvariance == WSpec => []WInv
<1>1. WInit => WInv
    BY InitWInv
<1>2. WInv /\ [WNext]_wvars => WInv'
    BY NextWInv
<1> QED BY <1>1, <1>2, PTL DEF WSpec

\* With the watchdog beside the scheduler, the engine still never holds a paused, invalid
\* or quarantined monitor in its schedule, and every variable keeps its type.
THEOREM WatchedIsRunnable == WSpec => [](TypeOK /\ OnlyRunnableScheduled)
<1>1. WInv => TypeOK /\ OnlyRunnableScheduled
    BY DEF WInv, IInv
<1> QED BY <1>1, WatchedInvariance, PTL

\* With two tasks writing statuses (watchdog::sweep, persist_status) a monitor is Down,
\* in the table or in an alert, only after DownThreshold failures in a row counted under
\* its id, which are its own under the same condition.
THEOREM DownStillEarned == WSpec => DownIsStillEarned
<1> DEFINE P == \A m \in Id : BecomesDown(m) => streak'[m] >= DownThreshold
<1>1. ASSUME WInv, [WNext]_wvars PROVE [P]_wvars
    <2>1. CASE SchedulerStep
        BY <1>1, <2>1, NextInv DEF SchedulerStep, WInv
    <2>2. CASE UNCHANGED vars
        BY <2>2 DEF vars, BecomesDown
    <2>3. CASE SweepLists
        BY <1>1, <2>3, SweepListsInv DEF SweepLists, BecomesDown
    <2>4. CASE SweepMarks \/ SweepTells
        BY <1>1, <2>4, SweepMarksInv, SweepTellsInv
    <2> QED BY <1>1, <2>1, <2>2, <2>3, <2>4, IdleInv DEF WNext, SweepStep
<1>2. WInv /\ [WNext]_wvars => [P]_wvars
    BY <1>1
<1> QED BY <1>2, WatchedInvariance, PTL DEF WSpec, DownIsStillEarned

\* What readers of the table are told is still MonitorLifecycle when the watchdog, which
\* knows nothing of the registry, marks monitors Stale from the rows it has read.
THEOREM WatchdogKeepsLifecycle == WSpec => KeepsLifecycle
<1>1. WInit => Promised!LInit
    BY LifecycleInit DEF WInit
<1>2. ASSUME WInv, [WNext]_wvars PROVE [Promised!LNext]_Told
    <2>1. CASE [Next]_vars
        <3>1. IInv /\ TypeOK
            BY <1>2 DEF WInv, IInv
        <3> QED BY <2>1, <3>1, NextTableStep, CommandsLifecycle, JudgesLifecycle
                DEF TableStep, Told
    <2>2. CASE UNCHANGED monitors
        BY <2>2 DEF Told
    <2>3. CASE SweepMarks /\ ~UNCHANGED monitors
        <3> DEFINE m == Min(sweep.left)
        <3>1. m \in sweep.left /\ monitors[m] # Absent
              /\ monitors' = WithStatus(monitors, m, "Stale")
            BY <1>2, <2>3, NextRow DEF SweepMarks, WInv
        <3> HIDE DEF m
        <3>2. /\ m \in Id
              /\ \A k \in Id : k # m => monitors'[k] = monitors[k]
              /\ monitors'[m] # Absent
              /\ monitors'[m].status = "Stale" /\ monitors'[m].valid
              /\ monitors[m].valid /\ monitors[m].status \in Status
            BY <1>2, <3>1, MarkedRows
        <3>3. Told[m] = monitors[m].status /\ Told'[m] = "Stale"
            BY <3>1, <3>2, ToldIs, ToldIsNext
        <3>4. Told[m] \in Promised!Judgeable /\ "Stale" \in Promised!Verdicts
            BY <3>2, <3>3 DEF Promised!Judgeable, Promised!Verdicts, Status
        <3>5. Told' = [Told EXCEPT ![m] = "Stale"]
            BY <3>2, <3>3, ToldBecomes
        <3> QED BY <3>2, <3>4, <3>5 DEF Promised!LNext, Promised!Judge, Promised!Becomes
    <2> QED BY <1>2, <2>1, <2>2, <2>3, IdleInv, SweepListsInv, SweepTellsInv
            DEF WNext, SweepStep, SchedulerStep
<1>3. WInv /\ [WNext]_wvars => [Promised!LNext]_Told
    BY <1>2
<1> QED BY <1>1, <1>3, WatchedInvariance, PTL DEF WSpec, KeepsLifecycle, Promised!LSpec
=============================================================================
