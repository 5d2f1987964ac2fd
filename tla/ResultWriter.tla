---------------------------- MODULE ResultWriter ----------------------------
(***************************************************************************)
(* The writer task of crates/engine/src/writer.rs: the scheduler submits   *)
(* check results to a bounded channel, the task gathers them in a batch    *)
(* and inserts a batch in one transaction, when it is full or when the     *)
(* ticker fires.  It ends when the scheduler has dropped its Writer.       *)
(*                                                                         *)
(* A flush awaits the store, so results are submitted and monitors removed *)
(* while it lasts; the channel is not read meanwhile.                      *)
(***************************************************************************)
EXTENDS Naturals, Sequences

CONSTANTS Monitor,      \* monitors that have results
          Capacity,     \* writer_capacity
          BatchSize,    \* writer_batch_size
          MaxResults,   \* bound on the results submitted
          MaxFaults     \* bound on the transactions that fail

\* What is assumed of the constants.
WriterAssumption ==
    /\ Capacity \in Nat \ {0} /\ BatchSize \in Nat \ {0}
    /\ MaxResults \in Nat /\ MaxFaults \in Nat

VARIABLES exists,     \* monitors with a row: check_results refers to it
          queue,      \* the channel
          batch,      \* the task's batch
          phase,      \* what the task does
          held,       \* the scheduler still holds the Writer
          inserted,   \* history: results committed to check_results
          submitted,  \* history: how many results were submitted
          faults      \* transactions that may still fail

vars == <<exists, queue, batch, phase, held, inserted, submitted, faults>>

\* Results are told apart by the number they were submitted under.
Result == [number : 1..MaxResults, monitor : Monitor]

Phase == {"waiting",    \* in select!
          "flushing",   \* awaiting insert_check_results
          "last",       \* the same, after the channel was closed
          "ended"}

-----------------------------------------------------------------------------
\* Writer::submit: never blocks, and drops the newest result into a full channel.
Submit(m) ==
    /\ held
    /\ submitted < MaxResults
    /\ submitted' = submitted + 1
    /\ queue' = IF Len(queue) < Capacity
                THEN Append(queue, [number |-> submitted + 1, monitor |-> m])
                ELSE queue
    /\ UNCHANGED <<exists, batch, phase, held, inserted, faults>>

\* The scheduler task ends and drops its Writer, the only sender there is.
Drop ==
    /\ held
    /\ held' = FALSE
    /\ UNCHANGED <<exists, queue, batch, phase, inserted, submitted, faults>>

\* delete_monitor; its rows in check_results go with it, `inserted` remembers them.
Remove(m) ==
    /\ m \in exists
    /\ exists' = exists \ {m}
    /\ UNCHANGED <<queue, batch, phase, held, inserted, submitted, faults>>

-----------------------------------------------------------------------------

\* run: a result is received, which may fill the batch.
Receive ==
    /\ phase = "waiting"
    /\ queue # <<>>
    /\ batch' = Append(batch, Head(queue))
    /\ queue' = Tail(queue)
    /\ phase' = IF Len(batch') >= BatchSize THEN "flushing" ELSE "waiting"
    /\ UNCHANGED <<exists, held, inserted, submitted, faults>>

\* run: the flush ticker fires; flush returns at once from an empty batch.
Tick ==
    /\ phase = "waiting"
    /\ batch # <<>>
    /\ phase' = "flushing"
    /\ UNCHANGED <<exists, queue, batch, held, inserted, submitted, faults>>

\* run: the channel is empty and closed; what is left is flushed.
Closed ==
    /\ phase = "waiting"
    /\ queue = <<>>
    /\ ~held
    /\ phase' = IF batch = <<>> THEN "ended" ELSE "last"
    /\ UNCHANGED <<exists, queue, batch, held, inserted, submitted, faults>>

\* insert_check_results is one transaction, and a result whose monitor has no row
\* violates the foreign key.
Committable == \A i \in DOMAIN batch : batch[i].monitor \in exists

\* Mutant of Flush: the batch is not cleared.
FlushUncleared ==
    /\ phase \in {"flushing", "last"}
    /\ phase' = IF phase = "last" THEN "ended" ELSE "waiting"
    /\ Committable
    /\ inserted' = inserted \o batch
    /\ UNCHANGED <<exists, queue, batch, held, submitted, faults>>

\* flush: the batch is cleared whether it was inserted or not.
Flush ==
    /\ phase \in {"flushing", "last"}
    /\ batch' = <<>>
    /\ phase' = IF phase = "last" THEN "ended" ELSE "waiting"
    /\ \/ Committable /\ inserted' = inserted \o batch /\ UNCHANGED faults
       \/ ~Committable /\ UNCHANGED <<inserted, faults>>
       \/ /\ faults > 0
          /\ faults' = faults - 1
          /\ UNCHANGED inserted
    /\ UNCHANGED <<exists, queue, held, submitted>>

-----------------------------------------------------------------------------
Init ==
    /\ exists = Monitor
    /\ queue = <<>>
    /\ batch = <<>>
    /\ phase = "waiting"
    /\ held = TRUE
    /\ inserted = <<>>
    /\ submitted = 0
    /\ faults = MaxFaults

Next ==
    \/ \E m \in Monitor : Submit(m) \/ Remove(m)
    \/ Drop
    \/ Receive
    \/ Tick
    \/ Closed
    \/ Flush

Spec == Init /\ [][Next]_vars

\* The task runs on: select! takes a branch that is ready, the ticker fires, and a
\* transaction ends one way or the other.
Fairness == WF_vars(Receive \/ Closed) /\ WF_vars(Tick) /\ WF_vars(Flush)
FairSpec == Spec /\ Fairness

-----------------------------------------------------------------------------
(***************************************************************************)
(* Properties.                                                             *)
(***************************************************************************)
TypeOK ==
    /\ exists \subseteq Monitor
    /\ queue \in Seq(Result) /\ Len(queue) <= Capacity
    /\ batch \in Seq(Result) /\ Len(batch) <= BatchSize
    /\ phase \in Phase
    /\ held \in BOOLEAN
    /\ inserted \in Seq(Result)
    /\ submitted \in 0..MaxResults
    /\ faults \in 0..MaxFaults

\* Results on their way to the table, oldest first.
Pending == batch \o queue

\* The writer is a bounded buffer of Capacity + BatchSize: it commits results in the
\* order they were submitted, each at most once, a batch whole or not at all, and
\* goes on until every result accepted is committed or lost.
Buffer == INSTANCE LossyFifo
             WITH Item <- Result, Bound <- Capacity + BatchSize,
                  pending <- Pending, gone <- inserted, open <- held

WritesInOrder == Buffer!FSpec

-----------------------------------------------------------------------------
(***************************************************************************)
(* What DESIGN.md says of the writer and the code does not do.             *)
(***************************************************************************)
Reached(n) == \E i \in DOMAIN (inserted \o Pending) : (inserted \o Pending)[i].number = n

\* 7.2: a transaction that fails transiently is retried: nothing accepted is lost.
TransientFaultLosesNothing ==
    [][\A n \in 1..MaxResults : Reached(n) => Reached(n)']_vars
=============================================================================
