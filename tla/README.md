# Verification of monitra

TLA+ models of the monitra daemon, its agents and its two dashboards, the
TLC runs that check them on small instances, and TLAPS proofs of their main
safety properties. Everything is translated from the source, Rust and TypeScript.
Paths are relative to the root of the repository; those of crates mostly go without
`crates/`, so that `engine/src/flap.rs` is `crates/engine/src/flap.rs`, and
`DESIGN.md` stands for `docs/DESIGN.md`.

Run from this directory:

    tlc -workers 2 -config SchedulerSafety.cfg MCScheduler.tla
    tlapm SchedulerProofs.tla

`PROJECT.json` lists the runs, what each definition was translated from, the
mutated definitions each property is known to reject, the hazards the
properties are aimed at, and the theorems.

## 1. The system

One process, the daemon (`src/main.rs`, crates `engine`, `backend`,
`storage`, `provider`), probes targets and keeps verdicts in SQLite. Agents
(`agent`) are further processes that push results to it; dashboards (`tui`,
`web`) read it. The command line writes the same database from processes of
its own.

### Inventory

| Component | State it keeps | Operations | Talks to |
|---|---|---|---|
| Monitors table: `storage/src/lib.rs`, `codec.rs`, `backend/src/service.rs` | one row per monitor: status, target, interval, kind, agent | insert, update (COALESCE), set status, delete; a bad interval reads as `Unknown` | written by CLI, HTTP handlers, scheduler, watchdog; read by all |
| Flap damping: `engine/src/flap.rs` | two counters per monitor | `observe` | called by the scheduler |
| Scheduler: `engine/src/scheduler.rs` | registry (a copy of the table with deadlines and counters), Kubernetes collectors, quarantine, `JoinSet` of tasks | one `select!` loop: resync, dispatch, join, pushed result, shutdown with a drain | table; writer, alerts, broadcast channel; assignment queues; pushed-result channel |
| Watchdog: `engine/src/watchdog.rs` | nothing between sweeps | a sweep marks the monitors of silent agents `Stale` | agents and monitors tables; alerts |
| Result writer: `engine/src/writer.rs` | bounded channel, batch | batched insert on size or tick, last flush when the channel closes | fed by the scheduler; `check_results` |
| Alert delivery: `engine/src/alerts.rs`, `provider/src/policy.rs` | bounded channel, bounded retry queue | notify, record, retry on a tick | fed by scheduler and watchdog; the sinks; `alert_events` |
| Pruner: `engine/src/pruner.rs` | whether the last pass was behind | after the first resync, passes of bounded delete batches, with a count of what is left | `check_results` |
| Readers of results: `backend/src/service.rs`, `monitors.rs`, `regions.rs`, CLI | none; an answer is several statements | history of a monitor, comparison of regions, both bounded by the retention | `check_results`, agents |
| Probers: `probe/src/lib.rs`, `http.rs`, `tcp.rs`, `icmp.rs` | none; each holds one of the scheduler's permits | one probe with a hard timeout | targets |
| Kubernetes collector: `collector-kubernetes` | a client per cluster, built at the start | read kubeconfig or service account; poll a workload in one or two requests | API servers |
| Local checks: `agent/src/checks` | none | disk, systemd unit, scan of `/proc`, which passes over what it cannot read | the agent's host |
| Engine handle and `main`: `engine/src/lib.rs`, `src/main.rs` | shutdown and ready channels, the tasks' handles | start, mark ready, shutdown | all of the above and the server |
| Agent: `agent/src/lib.rs`, `buffer.rs`, `client.rs` | bounded buffer of results not yet pushed | a cycle of checks, a fetch of assignments, probes and one push; one last push on a signal | the two agent routes |
| Agent routes: `backend/src/ingest.rs`, `assignments.rs`, `auth.rs` | per-agent assignment queues (in the engine) | push, list; both after a token check against the agents table | scheduler's channel, agents table |
| Live feed: `backend/src/ws.rs`, `auth.rs` | one broadcast receiver per connection | upgrade what carries the token, forward, close on lag and on shutdown | broadcast channel, client |
| Terminal dashboard: `tui/src/data.rs`, `client.rs`, `app.rs` | two timers, latest snapshot, selection; a stream it never has | poll on tick or after an attempt to connect, clamp the selection | HTTP views; the live feed, which refuses it (see 5) |
| Web dashboard: `web/src/App.tsx`, `auth.tsx`, `api/client.ts` | token in `localStorage` (shared by tabs), session, requests under way, socket, snapshot, selection, history | check and store a token, refresh, subscribe, select | token gate, HTTP views, live feed |
| HTTP views, web assets | none | read-only | store |
| Notifiers | none | one HTTP request each | outside world |
| Configuration: `provider/src/config.rs`, `registry.rs`, `category.rs`, `token.rs`, `src/main.rs` | user's file, project file, environment and flags of a start | resolve a field over the layers; `setup`, `service attach` and `detach`, cluster add and remove, each of which loads, edits and writes the user's file; generate and save a token | one file, shared by all processes of a user |
| Migrations: `storage/src/migrations.rs` | schema, versions in `schema_migrations` | look up, apply and record one migration after the other | run by every process that opens the store |
| Cache: `provider/src/cache.rs`, `policy.rs` | an in-process map | fall back once | nothing builds one outside tests |

### What is hard, and what correct means

- *Scheduler and table.* Between two resyncs the registry is stale; operators
  write the table meanwhile, and give an id out again; tasks of one monitor
  overlap; a status write is unconditional. Correct: only runnable monitors are scheduled, `Down` takes
  its failures whatever is interleaved, alerts and statuses agree, nothing but
  an operator undoes a pause once the registry knows it, and both the registry
  and a Pending monitor get there in the end.
- *Watchdog beside scheduler.* Two tasks write statuses on rows they read
  earlier. Correct: the same status machine, the same damping, and silence
  shows in the end.
- *Kubernetes monitors.* A collector is built for a target that operators edit;
  a push and a task may name a monitor that is gone. Correct: a feed that cannot
  tell never makes a monitor `Down`, and what is polled is what the row says
  (it is not, see 5).
- *Pruner beside readers.* A pass is many statements, an answer too, and the
  two interleave with writes and with time. Correct: an answer is whole for
  the time it covers, a pass that claims to be done is, what has expired goes.
- *Probes and polls.* They share the permits; a probe has a timeout, a poll
  none; clusters refuse, garble, change tokens between two requests.
  Correct: only a workload's own trouble makes it fail, and permits come free.
- *Writer and alerts.* Bounded channels that drop, batches that fail, a retry
  queue emptied before an await, tasks that end only when their senders do.
  Correct: order, at most once, truth of the history, nothing kept for ever,
  an end.
- *Agents.* Lost and late answers on both routes, an agent that gives up on a
  request that is still being handled, token rotation, restarts of either
  side, signals. Correct: order and no duplicates in what is held, loss by
  overflow only, repetition by faults only, delivery and heartbeat in the end.
- *Shutdown.* Six things awaited one after another, each waiting for channels
  others hold. Correct: it ends, although a probe hangs, and leaves nothing
  behind.
- *Browser.* Requests overlap and are answered in any order, also across two
  sessions; tabs share a token; the daemon restarts with another. Correct: no
  late answer ends a good session, the screen follows the daemon, no monitor's
  results stay under another's name.
- *Host.* Processes come, go and change name while `/proc` is read, and some
  cannot be. Correct: a scan claims no more than it has read.
- *Live feed and terminal.* A ring buffer that overtakes a slow client; timers that
  cancel each other, two tasks that exchange list and selection. Correct: no
  silent gap; a selection in bounds, a screen that catches up.
- *Starts beside each other.* Every command loads the user's file, edits its
  copy and writes it back without a lock; `fs::write` empties a file before it
  fills it; `setup` waits for an answer with the file already read; two first
  starts each generate a token; a migration is looked up outside the
  transaction that applies it. Correct: unless one writes on stale knowledge
  or dies in a write, the file is that of its commands one after the other and
  all daemons answer to one token; and a process that opens the database alone
  gets through, wherever a killed one has left it.

`PROJECT.json` has these as forty hazards, each at its line.

## 2. The modules

    Flap     Store                LossyFifo          MonitorLifecycle
       \     /                        ^ implements        ^ implements
      Scheduler ------------------------------------------'
       |   |  \
       |   |   IdReuse           ResultWriter   AlertDelivery --- AlertProofs
       |   MCScheduler              |   \        /    |               :
      Watchdog                      |    \      /     |     (INSTANCE): for Engine
       |   |                        |     Engine -----|-------- EngineProofs
       |   SchedulerProofs          |                 |
      MCWatchdog                     `--- MCTasks ----'
                                          /    \
                                 Retention      Probing
                                          \    /
                                       TasksProofs

      WebDashboard  MonitorView   AgentPush  HostChecks   LiveFeed  TerminalDashboard
           |   \       /  |           |  \      /  |          |  \      /  |
           | BrowserProofs|           | AgentProofs|          | LiveFeedProofs
            \              \          |            |         /             /
             `--------------`----- MCClients ------'--------'-------------'

      Configuration -- Startup -- MCStartup
                          |
                       StartupProofs

An MC module extends the modules it gives constants to, and a module of proofs
those it proves about; `Engine` takes `ResultWriter` and `AlertDelivery` by
`INSTANCE`, as `MCTasks` does the writer. Definitions of modules that are extended
together carry the name of their part (`PushNext`, `ViewNext`, `AlertsNext`).

| Module | Code | Remarks |
|---|---|---|
| `Flap` | `flap.rs` | counters saturate at their thresholds, which is all the code compares |
| `Store` | monitors part of `storage` and `models` | one operator per statement; every statement holds the connection's mutex and is atomic |
| `Scheduler` | `scheduler.rs`, `service.rs`, agent routes as seen from the scheduler | one action per handler of the loop; `handle_pushed` is two, since it may await twice. A deadline is whether it has been reached, the semaphore a task that takes long. `collectors` remembers the target each was built for |
| `IdReuse` | `Scheduler` with one more history variable | whose failures made a monitor `Down`, where its id had another before |
| `MonitorLifecycle` | none: abstract | the status machine a reader of the table may count on; `LateVerdicts` says whether a verdict may land on a paused monitor |
| `Watchdog` | `watchdog.rs` beside all of `Scheduler` | each await of the sweep is a step |
| `ResultWriter` | `writer.rs` | a flush is two steps, so that monitors are removed while it lasts |
| `LossyFifo` | none: abstract | a bounded buffer that may lose but neither reorders nor repeats |
| `AlertDelivery` | `alerts.rs`, `RetryingNotifier` | a step per await; a sink's error may be a lost answer |
| `Retention` | `pruner.rs`, the readers of `service.rs` and `monitors.rs`, `region.rs` | a statement is a step. The rows a batch takes are any that may go, since SQLite's order is not given. The cutoff is taken once for a pass, the window of an answer once, before its first statement. The limit on a pass's time is a choice after any full batch. The clock only goes forward |
| `Probing` | `dispatch_*` from spawn to outcome, `probe`, `collector-kubernetes` | a permit and the task that holds it; a request to an API server is a step. A kubeconfig is what can be told of it (readable, parses, its lists), an answer is an error, "not found" or "found" |
| `HostChecks` | `agent/src/checks` | the scan reads one entry of `/proc` a step, in any order, or passes over it: whatever it bears, since the code takes every error for an exit. Disk and unit are asked once each, hence one step. `steady`, `borne` and `missed` are history |
| `WebDashboard` | `App.tsx`, `auth.tsx`, `client.ts`, `auth.rs` | one tab in full, another by what it does to the token. A request is three steps: sent, answered by the daemon, received. `localStorage` may throw |
| `MonitorView` | `MonitorView` in `App.tsx` | which monitor the view names and whose results it shows; React's cleanup is `Disowned`, run with the effect |
| `AgentPush` | `agent`, agent routes, assignment queue | one agent; requests are records with the results still to be handled, so that a request nobody awaits goes on beside the next |
| `Engine` | `EngineHandle`, the tasks' loops, `main.rs` from boot to exit | composes `ResultWriter` and `AlertDelivery` by `INSTANCE`: their `held` is whether a sender still exists, which is a function of the tasks' states |
| `LiveFeed` | `ws.rs`, and of `client.ts` what the browser's socket does | a client that presents the token, as only the browser does. A cut connection, a kill and a stop of the daemon at any step |
| `TerminalDashboard` | `data.rs`, `app.rs`, `Client::ws_url`, `require_token_ws` | time in seconds, since the code compares two timers. `Carried` is what the request for `/ws` carries, which is nothing: what `WsFeed` does with a stream is left out, it never has one |
| `Configuration` | `config.rs`, `registry.rs`, `category.rs`, parts of `main.rs` | no state: the layers, what a field resolves to and from which, and each command's edit as an operator on files |
| `Startup` | `main.rs` up to a running daemon, `migrations.rs` | any number of processes; what a process does between two accesses to file or database is one step, a write of the file is two |
| `MCScheduler`, `MCWatchdog`, `MCResultWriter`, `MCStartup` | | values of constants |
| `MCTasks`, `MCClients` | | the sum of four modules, and of six |
| `SchedulerProofs` | | theorems about `Scheduler`, and about `Watchdog` beside it |
| `EngineProofs`, `AlertProofs` | | about `Engine`; about `AlertDelivery` by itself, used in `EngineProofs` through a refinement |
| `TasksProofs`, `BrowserProofs`, `AgentProofs` | | about `Retention` and `Probing`; `WebDashboard` and `MonitorView`; `AgentPush` and `HostChecks` |
| `LiveFeedProofs`, `StartupProofs` | | about `LiveFeed` and `TerminalDashboard`; `Configuration` and `Startup` |

Names of actions are those of the functions they model where TLA+ allows it
(`Resync`, `DispatchDue`, `HandleJoined`, `HandlePushed`, ...); `map` in
`PROJECT.json` gives the lines of every one. `history` in a variable's comment
marks what only the properties read. Definitions called *mutant* are plausible
mistakes in the definition below them; nothing uses them but the check that
each property rejects at least one.

`MCTasks` and `MCClients` are sums and not compositions: the parts in them share
no state, so a behaviour is one of one part, chosen at the start, while the
others keep an initial state. Every property is about one part and is checked of
that part's behaviours with that part's fairness; nothing is claimed of the
parts together. Where the parts do meet (channels closing at shutdown, alerts
and results of one scheduler step) `Engine` and `Scheduler` compose them.

## 3. The runs

| Run | What it asks | Bounds, and why they are enough |
|---|---|---|
| `scheduler_safety` | damping, pauses, alerts and the status machine for a centrally probed monitor | one id, two targets, two tasks in flight of each kind so that results overlap and end in either order; four commands (remove, add under the same id, pause, resume), one failed write, one restart. `DownIsEarned` counts failures under the id: see below |
| `scheduler_kinds` | who probes what; what `Unavailable` may do; that registry and Pending monitors get there; the types | all kinds and links, a target that cannot be parsed, a push channel of one so that it overflows; two commands and a failed write at any time. It begins with the rows of an earlier run (an agent's monitor stale, a cluster down, one monitor paused) and an empty registry, which is all that a restart leaves |
| `scheduler_pause` | DESIGN.md 5.3 as drawn: a violation | as `scheduler_safety` |
| `scheduler_retarget` | that an edit reaches the collector: a violation, of a liveness property under the fairness of the loop | one Kubernetes monitor, two targets, two commands, no faults |
| `scheduler_reuse` | that the failures are the monitor's own: a violation | one id, no row at first, three commands (add, remove, add), no faults |
| `watchdog` | damping and status machine with two writers; `SilenceShows` | one fed monitor, `Up` or `Down` from an earlier run; two commands and a failed write inside a sweep. No restart: a sweep has no memory, and restarts are in the scheduler's runs |
| `tasks`, the pruner | `AnswersAreWhole`, `CleanMeansClean`, `ExpiredIsPruned` | two linked monitors, one of which may go; two results, of either age; a batch of one and one batch a pass, so that a pass of two results is behind; a retention of one and readers that resolve one or two; two ticks, so that a result expires while a pass or an answer is under way; one failed statement |
| `tasks`, the writer | `WritesInOrder`: it implements `LossyFifo` | four results, so that channel and batch overflow; one failed transaction; monitors removed at any time |
| `tasks`, the alerts | `KeptInOrder`, `HistoryIsTrue`, `KeptIsRetried` | four alerts against queues of two; refusals, some of them lost answers |
| `tasks`, the probes | `TroubleIsNotDown`, `PermitsComeFree` | one cluster with every way for its kubeconfig to be good or bad, two tokens, a Deployment and a Service, HTTP and ICMP (TCP meets a subset of what they do); two permits of which one may be held by a request nobody answers; one task in the queue |
| `writer_fault` | DESIGN.md 7.2, retry of a failed write: a violation | three results, channel and batch of two, one failed transaction |
| `clients`, the browser | `SessionLasts`, `ScreenFollows` | two tokens, so that the daemon's changes once; one change of data; two requests under way, one of each session; another tab |
| `clients`, the monitor view | `HistoryIsTheMonitors` | three monitors and two fetches under way |
| `clients`, the agent | loss, repetition, delivery, heartbeat, the signal | buffer, queue and channel of one, so that each overflows; one fault and one operator's action at any step |
| `clients`, the host | `ScanIsTrue` | three processes, two names, any entry unreadable at any time |
| `clients`, the live feed | `NoSilentGap` | a ring and a connection that hold one frame each, and three results, so that a client lags, also while a send waits; two cut connections, kills or stops of the daemon, so that there is a second connection to be cut |
| `clients`, the terminal | `ScreenCatchesUp`, `HistoryFollows` | two ids so that the list shrinks under the selection; two results, one change of the list, one key and one outage at any step. Both timers are one second, so that attempts to connect are made too, and end a wait as ticks do |
| `engine_shutdown` | nothing left behind; every outcome accounted; the end | two results, one alert, one request, capacities of one; the signal at any step of any task, in daemon and tui mode |
| `live_reconnects` | `data.rs` on reconnecting: a violation | POLL_INTERVAL and WS_RETRY_DELAY as in the code, 2 and 3 seconds; no outage and nothing else that happens |
| `startup_safe` | the file is serial, there is one token, a lone open succeeds | two processes, which is what each race takes, and interchangeable, hence the symmetry; four commands, so that one process can do two things while the other waits; two migrations, so that a database can be half migrated; one process killed anywhere; no file at first, or one with a store and a cache that no command attaches any more; starts with and without a token and a retention from outside |

Capacities, thresholds and batch sizes of the code (1024, 500, 64, 256, ...)
become one or two: only whether a bound is reached matters. `DownThreshold` and
`UpThreshold` are the code's 2 and 1. Counters named `Max...` bound a run; they
are constants of the modules and named at their declaration.

`DownIsEarned` and `DownIsStillEarned` say what the code does, which is less than one
would wish. The registry knows a monitor by its id, and `streak`, the history they
compare with, begins afresh when an id comes to stand for another monitor or target
only if the engine has nothing left of the former (`Leftover`: its entry, a task, a
pushed result). Where it has, one count runs through both. `scheduler_reuse` counts a
monitor's own failures, and there one failed check is enough; an edit of the target
between two failures does the same, and the documents leave open whether it should.

`SerialUnlessStale` and `OneToken` are reserved to runs in which no write is stale or
torn: what follows an unanswered `setup`, two first starts at once or a kill inside a
write (hazards 29 to 31) lies outside them.

`CHECK_DEADLOCK FALSE` stands where the system stops: the writer, the alert
task, the pruner, the engine and the agent all end, and `Startup` when its
commands are used up. The other modules are checked for deadlock.

### Fairness

A liveness property is checked under a `FairSpec` whose reasons are given
above it; they are

- `tokio::select!` without `biased` picks among ready branches at random: a
  branch that stays ready is taken (weak fairness), and one that is ready
  again and again is too (strong fairness; the alert task's ticker, the
  shutdown branches);
- timers fire; network probes have a hard timeout; the agent's HTTP client has
  one of ten seconds; a semaphore hands its permits out in order;
- the store answers, also to the pruner. The sink answers: `notify-webhook` and
  `notify-slack` set no timeout, so this one is an assumption about the sink,
  and `ShutdownEnds` and the alert task's liveness rest on it;
- a request to an API server is answered unless it has met silence. How many may
  meet it is `MaxHung`, one less than the permits: `PermitsComeFree` says that a
  permit comes free as long as polls do not hold them all, and nothing in the
  code sees to that (see 5). The run thus leaves out what hazard 17 is about, that polls
  which hang hold every permit;
- the browser's timers fire, and a request is answered or given up by the
  browser, which the code leaves to it;
- nothing is assumed of operators, agents (as seen from the engine), clusters,
  or deliveries that the run counts as faults;
- an agent's local checks return. `systemctl` is awaited without a timeout (`systemd.rs:32`)
  and `statvfs` blocks for as long as a dead mount makes it (`disk.rs:12`):
  `ResultsArrive`, `RunningIsHeard` and `SignalEnds` hold as far as they do return;
- in `TerminalDashboard`, a daemon that is down is started again.

## 4. What is proved

Every invariant and every action property of the passing runs is a theorem, for
all values of the constants, and so are the safety parts of the refinements.
Each rests on an inductive invariant, on the assumptions named in the modules
(which TLC evaluates in every run that extends them), and on nothing else. Type correctness is a theorem of each component but
`Startup` and `TerminalDashboard`.

**`SchedulerProofs`**, for every number of ids, every set of targets, every
capacity and bound, and all thresholds that are positive.

- `TypeCorrect`: `TypeOK` is inductive as it stands.
- `SchedulesOnlyRunnable`: `OnlyRunnableScheduled` is not inductive without
  types, and `DownIsEarned` needs more: `IInv` is `TypeOK`,
  `OnlyRunnableScheduled` and `CountersEarned`, the last saying that no entry
  of the registry has counted more failures than there have been under the id since
  its last success. A resync keeps counters and a restart drops them, so
  a counter may lag behind the history but never run ahead of it. Commands may set
  the history back to none, but only where no entry is left to run ahead of it
  (`CommandsHistory`).
- `DownAfterEnoughFailures`: a step that makes a monitor `Down` is the
  handling of a failed result whose counter reaches the threshold, hence by
  `CountersEarned` so does the streak. It is the monitor's own unless something of
  its id's former monitor was left (`Leftover`).
- `PausedStaysPaused`: every step that changes a row either is a command or
  goes through a registry entry for it.
- `UnavailableNeverDown`: what handles an `Unavailable` result or a panic writes
  `Stale` or nothing, and leaves the counters of every entry.
- `AlertsTellTheStatus`: by `FInv`, `IInv` with the property itself; the
  property restricts itself to runs in which no status write has failed, and
  that nothing un-fails is a lemma.
- `ImplementsLifecycle`: under the mapping that reads the status column as
  `codec.rs` does, every step is a step of `MonitorLifecycle` (with late
  verdicts) or a stutter.
- `WatchedIsRunnable`, `DownStillEarned`, `WatchdogKeepsLifecycle`: the same for
  `WSpec`, the scheduler with the watchdog's sweep interleaved at each await.
  The scheduler's lemmas are used again for its steps. The sweep judges rows it
  has read earlier, so `WInv` adds to `IInv` that the rows it has still to mark
  were valid and are (`LeftAreValid`): nothing makes a valid interval invalid,
  and an id given out again has a valid one. Otherwise a sweep could mark a row
  that readers are told is `Unknown`, which the lifecycle does not have.
  The sweep takes the least id left; that a nonempty set of numbers has
  a least one (`MinIsIn`) is by the well-founded order of the naturals.

**`AlertProofs`**, for channels and retry queues of any capacity and any number
of alerts, refusals and faults.

- `AlertsTypeCorrect`: by `TInv`, which adds that an alert is in hand whenever one
  is worked on, and that a drain is under way exactly while its copy has alerts.
- `HistoryStaysTrue`: by `HInv`; inductive is that an outcome still to be
  recorded is true of the alert in hand.
- `RetriesKeepOrder`: by `OInv`, the order between each two of the retry queue,
  the drain's copy, the alert in hand and the channel, and that nothing is newer
  than the last alert submitted; four lemmas say what taking the head, appending,
  joining and `enqueue` do to an increasing sequence.

**`EngineProofs`**, for all capacities and bounds.

- `NothingIsLeftBehind`: by `EInv`. The property speaks of the exit only;
  inductive is that each stage of the shutdown is reached with the tasks
  awaited before it ended, and that an ended writer or alert task has emptied
  its channel and lost its senders, so that nothing can be submitted after.
- `OutcomesAreAccounted`: by `AInv`, which adds that the counters are numbers,
  that only the end of the scheduler cuts a handler off, and that an ended
  scheduler has nothing in hand.
- `TypeCorrect`: by `TInv`, which adds that the tasks in flight have room within
  the bound and that a batch is full only while it is flushed; the alert task's
  types come from `AlertProofs`.
- `AlertTaskRefines`, `WriterTaskRefines`: `Engine` implements the specifications
  of `AlertDelivery` and `ResultWriter`. The mapping gives their `held` as
  whether a task with a sender is left; what has to be shown is that
  it becomes false once and for good, in a step that moves nothing else of
  theirs, and that no other step of the engine touches their state.
- `AlertsKeepTheirWord`: `HistoryIsTrue` and `KeptInOrder` in the whole engine, by
  that refinement and the theorems of `AlertProofs`.
- `WriterIsABuffer`: the batch followed by the channel is what `LossyFifo` calls
  pending; a receive is a stutter, a flush takes the batch away from its front.

**`StartupProofs`**, for any number of processes and migrations, any first
file, any commands and any starts. Its assumptions are
`ConfigurationAssumption` (`None` is neither a token nor a URL) and
`StartupAssumption`.

- `Precedence`: a field has the value of the highest layer that gives it, and
  says which layer that was.
- `OpenFailureIsOverlap`: by `MigrationInv`. What is executed is what is
  recorded, since both commit together; so a process in a transaction for a
  version that is already there has looked it up before another committed it.
- `FileIsSerial`: by `FileInv`. The property speaks of times when nobody is
  writing; inductive is that in between the file is empty, that whoever has
  loaded it and is not stale has a copy of what the serial file is, and that a
  write makes everyone else who has loaded it stale.
- `TokenIsOne`: by `TokenInv`, on top of `FileInv` and of `CommandInv` (only a
  start's edit changes the token): a start that found no token and is not
  stale still has none in the file, so the token it saves replaces nobody's.

**`TasksProofs`**, for any monitors, retention, batch size, limits and number of
results, and any clusters, kubeconfigs, tokens and permits.

- `WholeAnswers`: by `RetentionInv`, which adds to the types that a pass never
  has a later cutoff than one that began now would (the clock goes forward), and
  `Kept`: what is within the retention and has its monitor is in the table. That
  is what a batch preserves, since all it takes is older than its cutoff.
- `CleanPasses`: a batch that is not full has as many rows as may go, hence
  took all of them.
- `RankIsNearest`: the rank of the percentile is a position of the list and the
  smallest that covers the percentage, in integers; the code computes it in
  floating point, which agrees for up to two million results.
- `OnlyTheWorkloadIsDown`: by `ProbingInv`. A poll that reports a failure has
  seen one of its requests answered with the workload as it is then; inductive
  is that a poll under way that has not noted its workload as unwell watches a
  healthy one, and that it watches a workload of its own kind.

**`AgentProofs`**, for any capacities of buffer, queue and channel, any number of
results, faults and operators' actions, and any processes and names. All about
`AgentPush` is by one invariant, `AgentInv`.

- `OnlyOverflow`: the results held, in the buffer or in the batch being sent, are the
  last ones made, in order (`HeldInv`), and what is not held any more has been
  dealt with or has a buffer's worth of newer results behind it (`GoneInv`). A
  batch is taken for delivered on an answer, so the request awaited must have
  nothing left that no handler has dealt with (`AwaitedInv`).
- `RepeatsAreFaults`: what a fault may add is a copy, hence the copies of a result
  are counted (`CopiesInv`): those handled, those in requests that nobody
  awaits any more, and the one the agent would still send. A step moves a copy
  from one of these places to another, or drops it; only a fault makes
  one more. Lemmas say what appending, removing and replacing do to such a
  count.
- `ScansTellTheTruth`: by `ScanInv`, that whoever has borne the name since the scan
  began is still to be read or has been passed over, and whoever bears it now has
  been noted.

**`BrowserProofs`**, for any number of tokens, requests and fetches.

- `SessionsLast`: by `GateInv`, that no request of an earlier session is current
  while the gate is shown, and `SessionInv`, that in a good session the stored
  token is the daemon's and no current request carries another or has been
  refused.
- `NoOtherHistory`: by `FetchesInv`, that a current fetch is for the monitor the
  view names.

**`LiveFeedProofs`**, for a ring and a connection of any capacity, and any lists, keys,
timers and outages.

- `NoGap`: by `FeedInv`. A gap could show at any frame on its way, so inductive is
  that the socket task is to send next what follows the last of them
  (`SocketInv`), that it closes only behind results, and that it sends only what has
  been broadcast.
- `SelectionStays`: the index selected is one of the list on the screen, because
  every new list clamps it and keys keep within the list they see.

Only model-checked:

- liveness (`RegistryCatchesUp`, `PendingResolves`, `SilenceShows`,
  `ExpiredIsPruned`, `KeptIsRetried`, `PermitsComeFree`, `ScreenFollows`,
  `ResultsArrive`, `RunningIsHeard`, `SignalEnds`, `ShutdownEnds`,
  `ScreenCatchesUp`, `HistoryFollows`), which is out of TLAPS's reach, and with it
  the fairness in `WritesInOrder`, that the buffers of `LossyFifo` are emptied;
- batches that a deleted monitor spoils: no monitor is deleted in `Engine`, so
  the proof of `WriterIsABuffer` leaves them out, and the run of the writer has
  them;
- the types of `TerminalDashboard`: whose history is wanted comes from a list sorted by
  `SetToSortSeq`, a `CHOOSE` whose existence is a theorem on sorting that the
  libraries do not have; and those of `Startup`, of which the proofs need the
  parts in `ShapeHolds` only. What `Percentile` does with the sorted list is not
  proved for the same reason, nor worth a run of its own;
- the five properties that fail (section 5), which the code does not have.

## 5. Where the code and its documents disagree

With a run that shows it (`findings` in `PROJECT.json`):

- `scheduler_pause`: a result in flight undoes a pause (`scheduler.rs:695`
  against DESIGN.md:469 and 473).
- `scheduler_retarget`: a Kubernetes monitor whose target is edited goes on
  being polled at the old one: `resync` drops collectors of monitors that went
  away only (`scheduler.rs:322` against the comment at 300).
- `writer_fault`: a failed transaction is not retried (`writer.rs:101`
  against DESIGN.md:602).
- `scheduler_reuse`: a monitor added under the id of one just removed takes over its
  flap counters, and one failed check makes it `Down` and pages (`scheduler.rs:336`
  against DESIGN.md:481).
- `live_reconnects`: the terminal never has its live feed (`data.rs:130`). Its request
  for `/ws` carries no token (`data.rs:142` and 173, `client.rs:163`), and
  `require_token_ws` (`auth.rs:85`) answers 401 to it, although `ws.rs:24` counts the
  TUI among the clients that present one. If it did, a feed once lost would still not
  come back: `poll_loop` drops the three-second wait before each attempt at every
  tick, which is every two seconds (`data.rs:61`). The screen follows all the same,
  by polling.

Met while modelling, without a run of their own:

- `mark_stale_and_record` hands the result of a monitor that has been deleted
  to the writer, and `apply_result` does until the next resync; the foreign
  key then fails the transaction of the whole batch (the comment at
  `scheduler.rs:665` has such results dropped).
- An alert delivered by a retry stays recorded as queued (`policy.rs:197`
  against `alerts.rs:4`). The sink is notified before the row is
  inserted (`alerts.rs:113`; README.md:138 and a caption in `App.tsx` say
  persisted before delivery).
- A push whose answer is lost is sent again and counted twice, so one failed
  check can be the two that make a monitor `Down` (DESIGN.md:481).
- Assignments are drained from their queue before the answer that carries them
  is sent: a lost answer loses them until the monitor is due again.
- A webhook that never answers, or a half-sent HTTP request, holds up the
  exit: only the drain of the probes has a deadline (DESIGN.md:621).
- SIGKILL loses what is in the writer's channel as well as the batch
  (DESIGN.md:606).
- The process may exit before a live feed's close frame is sent
  (DESIGN.md:618), and a client that never reads is never dropped, because
  `socket.send` has no timeout (DESIGN.md:605).
- Results recorded through `mark_stale_and_record` are not sent to live feeds.
- One row that cannot be decoded fails `list_monitors` as a whole
  (`codec.rs:72`), and with it every resync.
- `service attach slack` is accepted, because `category_for_scheme` takes what
  has no `://` for the scheme itself (`registry.rs:12`), and every later start
  is refused by `build_notifier` (`main.rs:559`).
- `docs/site/src/configuration.md:32` has the token generated on the first
  start and then printed once. A `setup` that waits at its prompt meanwhile, or
  a process killed while it writes, loses it, and the next start generates
  another. A reader between the two halves of a write takes the empty file for
  one without settings.
- Of two processes that open a new database at once, the second may fail on a
  migration that the first has just applied (`migrations.rs`).
- The command line's readers resolve a retention of their own (`main.rs:711` to
  757), which need not be the daemon's (the comment at `service.rs:37` has them
  share one). An answer is still whole for the shorter of the two.
- DESIGN.md:557 gives every probe a hard timeout. A poll of a cluster has none:
  with as many hanging requests as permits (64) no probe runs any more. The name
  lookup of an ICMP probe is outside its timeout.
- An HTTP or TCP probe that fails for a reason of the daemon's own (no
  sockets, no resolver), and an ICMP probe whose name does not resolve, count as
  failures of the target (`probe/src/lib.rs:35` has them as unavailable).
- Kubeconfigs and service account tokens are read when the daemon starts and
  never again: a rotated token makes every poll unavailable until a restart.
- A process whose `comm` cannot be read is reported as missing, though it runs:
  `check_process` takes every error for an exit (`process.rs:42`), a directory entry
  it cannot read too (`process.rs:31`), while the comment at `ingest.rs:21` has what
  the agent could not look at tagged unavailable. `HostChecks` has such errors at
  any entry, and `ScanIsTrue` excepts those passed over.
- A process check whose name is longer than 15 bytes never matches, since
  `comm` is cut there and compared for equality (`process.rs:45`; the comment at
  `process.rs:3` has it match on the first 15). Two processes that hand the name over
  during a scan can read as missing; `ScanIsTrue` claims no more.
- In the browser, a late 401 of another tab clears a token that has been
  replaced meanwhile (`client.ts:35`, `App.tsx:111`). A socket that finds no token
  when it reconnects is never tried again (`client.ts:153`). With
  `localStorage` blocked the gate comes back after every token, although
  `client.ts:31` has it work for the session. A check of a token that fails
  for any reason but a 401 reads "Token rejected".
- `MonitorView` keeps the previous monitor's results on the screen, under the
  new name, until the fetch comes back, and fetches nothing again for as long as
  the monitor stays the same (`App.tsx:259` to 276).

## 6. What is not modelled

- Notifiers: one HTTP request each, the sink of `AlertDelivery`.
- The HTTP views other than history and regions, web assets, the terminal's
  drawing, the globe and the derived numbers of the web dashboard: they read
  one snapshot and show it.
- The argument parser, and the parsing of an agent's check file.
- `DegradingCache`: nothing builds one.
- Rows that cannot be decoded, several agents, several sinks, the contents of
  messages, and a wall clock that goes back (it would let a pass prune by a
  cutoff later than the readers' window).
- The daemon as a whole: the scheduler, the watchdog and the agents are in one
  model, shutdown in another, and the tasks of `MCTasks` and `MCClients` each
  alone, because their product is out of TLC's reach.

## 7. Plan

Written in this order, the most important behaviour first; all but the last
three are done.

1. `Flap`, `Store`, `Scheduler`, with `MonitorLifecycle` as the abstract
   specification and `SchedulerProofs`.
2. `Watchdog` over `Scheduler`.
3. `ResultWriter` over `LossyFifo`.
4. `AlertDelivery`.
5. `AgentPush`.
6. `Engine`, composing 3 and 4 with the tasks' loops.
7. `EngineProofs`.
8. `LiveFeed` and `TerminalDashboard`.
9. `Configuration` and `Startup`: the layers, and the processes that share
   file and database.
10. `StartupProofs`.
11. `Retention` and its proofs: pruner and readers.
12. `Probing` and its proofs: permits, probes, clusters.
13. `WebDashboard`, `MonitorView`, `HostChecks` and their proofs.
14. Kubernetes targets and collectors in `Scheduler`; `MCTasks` and `MCClients`.
15. `AlertProofs`, and in `EngineProofs` types and the refinements of the alert task
    and the writer.
16. In `SchedulerProofs`, `Watchdog`: damping, lifecycle and runnable monitors with
    two writers; `UnavailableIsNotDown`.
17. `AgentProofs`: order, overflow and repetition of what an agent pushes.
18. `LiveFeedProofs`: no gap, and the selection's bounds.
19. `TerminalDashboard`'s types. What stands in the way is `InOrder`, a sort by `CHOOSE`: that
    every finite set of ids has an increasing enumeration, by a least
    counterexample as in `MinIsIn`.
20. An abstract specification of the agent's delivery (a buffer that may lose the
    oldest and repeat what a fault hides), implemented by `AgentPush`.
21. Two agents and one monitor moved between them, in `AgentPush`.
