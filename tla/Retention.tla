------------------------------ MODULE Retention ------------------------------
(***************************************************************************)
(* How long raw results live and what a reader sees of them: the pruner    *)
(* task of crates/engine/src/pruner.rs, which deletes from check_results   *)
(* in short batches, and the readers of crates/backend/src/service.rs, the *)
(* history of a monitor and the regional comparison, which bound their     *)
(* answers by the same retention so that an answer never covers a time of  *)
(* which only some results are left.                                       *)
(*                                                                         *)
(* Every statement is one step under the store's mutex.  A pass is many    *)
(* statements, a regional comparison one for each monitor, and results are *)
(* written, monitors deleted and time passes between any two of them.  One *)
(* monitor is never deleted, so that there is something to read.           *)
(***************************************************************************)
EXTENDS Naturals, FiniteSetsExt, SequencesExt

CONSTANTS Monitor,      \* the monitors
          Region,       \* region of the agent a network monitor is linked to, or Absent
          Absent,       \* no region, no pass, no request
          Retention,    \* PruneConfig::retention_secs and AppState::retention_secs
          Configured,   \* retentions readers use: that one, or what a command resolves
          Asked,        \* the times readers ask for, 0 for none
          BatchSize,    \* BATCH_SIZE
          MaxBatches,   \* MAX_BATCHES
          Percent,      \* 95
          Measured,      \* what the n-th result says: [success, latency]
          Lag,          \* longest way of a result through the writer
          MaxResults,   \* bound on the results written
          MaxTime,      \* bound on the clock
          MaxFaults     \* bound on the pruner's statements that fail

VARIABLES now,        \* the wall clock
          exists,     \* monitors with a row
          rows,       \* check_results
          written,    \* history: every result ever committed
          phase,      \* what the pruner's task does
          pass,       \* its pass: the cutoff, batches left, was the last one full
          behind,     \* BehindTracker::last_pass_behind
          stopping,   \* the engine has sent the shutdown signal
          request,    \* a reader's request under way
          faults      \* statements that may still fail

vars == <<now, exists, rows, written, phase, pass, behind, stopping, request, faults>>

pruner == <<phase, pass, behind>>

Number == 1..MaxResults
Result == [number : Number, monitor : Monitor, at : 0..MaxTime]
Pass   == [cutoff : 0..MaxTime, left : 0..MaxBatches, full : BOOLEAN]
Request == [since : Nat, listed : SUBSET Monitor, todo : SUBSET Monitor,
            got : SUBSET Result]
Phase  == {"starting",   \* waits for the scheduler's first resync
           "idle",       \* in select!
           "passing",    \* in run_pass
           "ended"}

\* What is assumed of the constants.
RetentionAssumption ==
    /\ Retention \in Nat \ {0} /\ Lag \in Nat /\ Lag <= Retention
    /\ Configured \subseteq Nat \ {0} /\ Asked \subseteq Nat
    /\ BatchSize \in Nat \ {0} /\ MaxBatches \in Nat \ {0}
    /\ Percent \in 1..100
    /\ MaxResults \in Nat /\ MaxTime \in Nat /\ MaxFaults \in Nat
    /\ Absent \notin Pass \cup Request
    /\ Measured \in [1..MaxResults -> [success : BOOLEAN, latency : Nat]]

\* u64::saturating_sub
Minus(a, b) == IF a > b THEN a - b ELSE 0

Of(results, m) == {r \in results : r.monitor = m}

-----------------------------------------------------------------------------
\* The rest of the program: time passes, the writer commits a result stamped a
\* little while ago, a monitor is deleted and its results with it, the engine stops.
Tick ==
    /\ now < MaxTime
    /\ now' = now + 1
    /\ UNCHANGED <<exists, rows, written, pruner, stopping, request, faults>>

Write(m, age) ==
    /\ m \in exists
    /\ Cardinality(written) < MaxResults
    /\ age <= now
    /\ LET result == [number |-> Cardinality(written) + 1, monitor |-> m, at |-> now - age]
       IN  /\ rows' = rows \cup {result}
           /\ written' = written \cup {result}
    /\ UNCHANGED <<now, exists, pruner, stopping, request, faults>>

RemoveMonitor(m) ==
    /\ m \in exists /\ exists # {m}
    /\ exists' = exists \ {m}
    /\ rows' = rows \ Of(rows, m)
    /\ UNCHANGED <<now, written, pruner, stopping, request, faults>>

Stop ==
    /\ ~stopping
    /\ stopping' = TRUE
    /\ UNCHANGED <<now, exists, rows, written, pruner, request, faults>>

-----------------------------------------------------------------------------
\* run: the pruner waits for the first resync, then for its ticker; it looks at the
\* signal in both places and nowhere else.
Ready ==
    /\ phase = "starting"
    /\ phase' = "idle"
    /\ UNCHANGED <<now, exists, rows, written, pass, behind, stopping, request, faults>>

End ==
    /\ phase \in {"starting", "idle"}
    /\ stopping
    /\ phase' = "ended"
    /\ UNCHANGED <<now, exists, rows, written, pass, behind, stopping, request, faults>>

\* run_pass: the cutoff is taken once, when the pass begins.
BeginPass ==
    /\ phase = "idle"
    /\ phase' = "passing"
    /\ pass' = [cutoff |-> Minus(now, Retention), left |-> MaxBatches, full |-> FALSE]
    /\ UNCHANGED <<now, exists, rows, written, behind, stopping, request, faults>>

\* Mutant of Prunable: a result as old as the cutoff goes too.
PrunableAtCutoff(cutoff) == {r \in rows : r.at <= cutoff}

Prunable(cutoff) == {r \in rows : r.at < cutoff}

Finish(backlog) ==
    /\ phase' = "idle"
    /\ pass' = Absent
    /\ behind' = backlog

\* prune_check_results_older_than: as many as the limit allows, of the rows SQLite
\* finds first.  A batch that is not full ends the pass.
PruneBatch ==
    /\ phase = "passing"
    /\ pass.left > 0
    /\ \E batch \in kSubset(Min({BatchSize, Cardinality(Prunable(pass.cutoff))}),
                            Prunable(pass.cutoff)) :
          /\ rows' = rows \ batch
          /\ IF Cardinality(batch) = BatchSize
             THEN /\ pass' = [pass EXCEPT !.left = @ - 1, !.full = TRUE]
                  /\ UNCHANGED <<phase, behind>>
             ELSE Finish(FALSE)
    /\ UNCHANGED <<now, exists, written, stopping, request, faults>>

\* Mutant of Count: what is left after the last batch is not counted.
CountNothing ==
    /\ phase = "passing"
    /\ pass.full
    /\ Finish(FALSE)
    /\ UNCHANGED <<now, exists, rows, written, stopping, request, faults>>

\* The last batch allowed was full, or the time of the pass is over after one that
\* was: count_prunable_check_results tells what is left.
Count ==
    /\ phase = "passing"
    /\ pass.full
    /\ Finish(Prunable(pass.cutoff) # {})
    /\ UNCHANGED <<now, exists, rows, written, stopping, request, faults>>

\* Mutant of PassFails: the task returns.
PassFailsForGood ==
    /\ phase = "passing"
    /\ faults > 0
    /\ faults' = faults - 1
    /\ phase' = "ended"
    /\ UNCHANGED <<now, exists, rows, written, pass, behind, stopping, request>>

\* A statement of the pass fails: the pass is over, the next one starts anew.
PassFails ==
    /\ phase = "passing"
    /\ faults > 0
    /\ faults' = faults - 1
    /\ Finish(FALSE)
    /\ UNCHANGED <<now, exists, rows, written, stopping, request>>

-----------------------------------------------------------------------------
\* GET /monitors/{id}/history and GET /regions, `monitra monitor history` and
\* `monitra monitor regions`: retained_since first, then one statement after another.
Since(asked, retention) ==
    IF asked > Minus(now, retention) THEN asked ELSE Minus(now, retention)

Ask(monitors, since) ==
    /\ request = Absent
    /\ request' = [since |-> since, listed |-> monitors, todo |-> monitors, got |-> {}]
    /\ UNCHANGED <<now, exists, rows, written, pruner, stopping, faults>>

AskHistory(m) ==
    \E asked \in Asked, retention \in Configured : Ask({m}, Since(asked, retention))

\* region_aggregates: only monitors whose agent has a region take part.
AskRegions ==
    \E asked \in Asked, retention \in Configured :
        Ask({m \in exists : Region[m] # Absent}, Since(asked, retention))

\* list_check_results
Read(m) ==
    /\ request # Absent
    /\ m \in request.todo
    /\ request' = [request EXCEPT !.todo = @ \ {m},
                                  !.got = @ \cup {r \in Of(rows, m) : r.at >= request.since}]
    /\ UNCHANGED <<now, exists, rows, written, pruner, stopping, faults>>

Answer ==
    /\ request # Absent
    /\ request.todo = {}
    /\ request' = Absent
    /\ UNCHANGED <<now, exists, rows, written, pruner, stopping, faults>>

\* Latencies(results): of the successful ones, in ascending order.
Latencies(results) ==
    LET ok == SetToSeq({r \in results : Measured[r.number].success})
    IN  SortSeq([i \in DOMAIN ok |-> Measured[ok[i].number].latency], LAMBDA a, b : a < b)

\* ceil(count * 0.95), which is never past the end.
Rank(count) == Min({(count * Percent + 99) \div 100, count})

\* p95_latency_ms: 0 where there is nothing to report.
Percentile(results) ==
    LET sorted == Latencies(results)
    IN  IF sorted = <<>> THEN 0 ELSE sorted[Rank(Len(sorted))]

\* One group of the comparison.
Aggregate(region) ==
    LET members == {m \in request.listed : Region[m] = region}
        results == {r \in request.got : r.monitor \in members}
    IN  [monitors |-> Cardinality(members),
         probes   |-> Cardinality(results),
         failures |-> Cardinality({r \in results : ~Measured[r.number].success}),
         p95      |-> Percentile(results)]

-----------------------------------------------------------------------------
Init ==
    /\ now = 0
    /\ exists = Monitor
    /\ rows = {} /\ written = {}
    /\ phase = "starting" /\ pass = Absent /\ behind = FALSE
    /\ stopping = FALSE
    /\ request = Absent
    /\ faults = MaxFaults

Next ==
    \/ Tick \/ Stop
    \/ \E m \in Monitor : RemoveMonitor(m) \/ Read(m)
    \/ \E m \in Monitor, age \in 0..Lag : Write(m, age)
    \/ Ready \/ End
    \/ BeginPass \/ PruneBatch \/ Count \/ PassFails
    \/ \E m \in Monitor : AskHistory(m)
    \/ AskRegions
    \/ Answer

Spec == Init /\ [][Next]_vars

\* The scheduler resyncs once, the ticker fires and a statement comes back.
FairSpec == Spec /\ WF_vars(Ready) /\ WF_vars(BeginPass) /\ WF_vars(PruneBatch \/ Count)

-----------------------------------------------------------------------------
(***************************************************************************)
(* Properties.                                                             *)
(***************************************************************************)
\* Types; in particular the table holds nothing but what was written, and an answer
\* nothing but what the table has held.
TypeOK ==
    /\ now \in 0..MaxTime
    /\ exists \subseteq Monitor
    /\ rows \subseteq written /\ written \subseteq Result
    /\ phase \in Phase
    /\ pass \in Pass \cup {Absent}
    /\ behind \in BOOLEAN /\ stopping \in BOOLEAN
    /\ request \in Request \cup {Absent}
    /\ request # Absent => /\ request.todo \subseteq request.listed
                           /\ request.got \subseteq written
    /\ faults \in 0..MaxFaults

\* What a reader is told of a monitor is whole: of the results the answer's window
\* covers, none that is still within the retention when it is read has been pruned,
\* whichever pass began when and however many statements the answer takes.
AnswersAreWhole ==
    [][\A m \in Monitor :
          (/\ request # Absent /\ request' # Absent
           /\ m \in request.todo \ request'.todo /\ m \in exists)
          => \A r \in Of(written, m) :
                r.at >= request.since /\ r.at >= Minus(now, Retention)
                => r \in request'.got]_vars

\* A pass that does not count as behind has left nothing its cutoff covers.
CleanMeansClean ==
    [][(phase = "passing" /\ phase' = "idle" /\ faults' = faults /\ ~behind')
       => \A r \in rows' : r.at >= pass.cutoff]_vars

\* A table that only so often refuses a statement loses every result that has
\* expired, in however many passes, unless the engine stops.
Expired(n) == \E r \in rows : r.number = n /\ r.at < Minus(now, Retention)

ExpiredIsPruned == \A n \in Number : Expired(n) ~> (~Expired(n) \/ stopping)
=============================================================================
