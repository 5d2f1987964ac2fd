------------------------------ MODULE AgentPush ------------------------------
(***************************************************************************)
(* The push protocol between an agent process (crates/agent) and the       *)
(* backend's two agent routes (crates/backend: ingest.rs, assignments.rs). *)
(*                                                                         *)
(* In each cycle the agent runs its local checks, takes what the engine    *)
(* has queued for it, probes that, and pushes everything it has in one     *)
(* request.  If it does not see a success it keeps the whole batch for the *)
(* next cycle.  A request whose answer the agent no longer waits for may   *)
(* still be on its way or half handled: the handler goes through a request *)
(* result by result and awaits the store for each.                         *)
(***************************************************************************)
EXTENDS Naturals, SequencesExt

CONSTANTS Local,           \* the monitor of the agent's local check
          Remote,          \* a network monitor the engine has it probe
          BufferCapacity,  \* PushBuffer::capacity
          QueueCapacity,   \* AssignmentHandle::capacity
          IngestCapacity,  \* capacity of the pushed-result channel
          MaxChecks,       \* bound on local checks
          MaxAssigned,     \* bound on assignments
          MaxFaults,       \* bound on lost messages and failed calls
          MaxOps           \* bound on what operators do

\* What is assumed of the constants.
AgentAssumption ==
    /\ Local # Remote
    /\ BufferCapacity \in Nat \ {0} /\ QueueCapacity \in Nat \ {0}
    /\ IngestCapacity \in Nat \ {0}
    /\ MaxChecks \in Nat /\ MaxAssigned \in Nat
    /\ MaxFaults \in Nat /\ MaxOps \in Nat

VARIABLES
    phase,       \* agent: where its loop stands
    hand,        \* agent: run_cycle's results, then its batch
    buffer,      \* agent: the PushBuffer
    signal,      \* agent: what SIGTERM would do to it, or has done
    request,     \* the ingest request the agent awaits
    late,        \* the ingest requests nobody awaits
    lateFetch,   \* an assignments request nobody awaits has still to arrive
    assigned,    \* AssignmentHandle: the agent's queue
    channel,     \* how many results the pushed-result channel holds
    heard,       \* the agent's last heartbeat is recent
    authorized,  \* the agent's token is the one in the agents table
    owned,       \* monitors whose agent_id names the agent
    checked,     \* history: how many results there have been
    born,        \* history: how many there were before this agent process
    issued,      \* history: how many assignments there have been
    handled,     \* history: results a handler has dealt with
    applied,     \* history: results this engine's channel accepted, in order
    budget       \* checks, faults and operators' actions left to a run

agentVars  == <<phase, hand, buffer, signal, checked, born>>
ingestVars == <<late, channel, heard, handled, applied>>
queueVars  == <<lateFetch, assigned, issued>>
adminVars  == <<authorized, owned>>

pushVars == <<agentVars, request, ingestVars, queueVars, adminVars, budget>>

Monitor    == {Local, Remote}
Number     == 1..(MaxChecks + MaxAssigned)
Result     == [number : Number, monitor : Monitor, success : BOOLEAN]
Assignment == 1..MaxAssigned

Phase == {"checking", "fetching", "sending", "awaiting", "sleeping", "ended"}

\* Before its first select! the agent has no handler for SIGTERM and dies of it;
\* later the signal is caught, and obeyed with one last push.
Signal == {"fatal", "caught", "received", "obeyed"}

\* An ingest request: has it passed the token check and the heartbeat, and which
\* results has its handler still to deal with.
Request == [begun : BOOLEAN, left : Seq(Result)]
Pushed(batch) == [begun |-> FALSE, left |-> batch]
NoRequest   == Pushed(<<>>)

Fault    == budget.faults > 0 /\ budget' = [budget EXCEPT !.faults = @ - 1]
Operator == budget.ops > 0 /\ budget' = [budget EXCEPT !.ops = @ - 1]

-----------------------------------------------------------------------------
\* The agent's cycle.

\* Mutant of PushedBack: nothing is kept.
PushedBackNothing(batch) == <<>>

\* PushBuffer::push_back_all, into the buffer just drained: the oldest make room.
PushedBack(batch) ==
    IF Len(batch) <= BufferCapacity THEN batch
    ELSE SubSeq(batch, Len(batch) - BufferCapacity + 1, Len(batch))

\* Mutant of CycleEnds: the last cycle is followed by another.
CycleNeverLast ==
    /\ phase' = "sleeping"
    /\ signal' = IF signal = "fatal" THEN "caught" ELSE signal
    /\ hand' = <<>>
    /\ request' = NoRequest

\* The push has returned: on to the select!, or out of the loop.
CycleEnds ==
    /\ phase' = IF signal = "obeyed" THEN "ended" ELSE "sleeping"
    /\ signal' = IF signal = "fatal" THEN "caught" ELSE signal
    /\ hand' = <<>>
    /\ request' = NoRequest

\* run_cycle: the local checks; without any the cycle goes on all the same.
CheckLocally ==
    /\ phase = "checking"
    /\ phase' = "fetching"
    /\ \/ /\ budget.checks > 0
          /\ budget' = [budget EXCEPT !.checks = @ - 1]
          /\ checked' = checked + 1
          /\ \E success \in BOOLEAN :
                hand' = <<[number |-> checked', monitor |-> Local, success |-> success]>>
       \/ budget.checks = 0 /\ UNCHANGED <<budget, checked, hand>>
    /\ UNCHANGED <<buffer, signal, born, request, ingestVars, queueVars, adminVars>>

\* AssignmentHandle::drain.
Drained == <<>>

\* fetch_assignments returns the queue and each monitor in it is probed.
FetchAnswered ==
    /\ phase = "fetching"
    /\ authorized
    /\ phase' = "sending"
    /\ \E outcome \in [DOMAIN assigned -> BOOLEAN] :
          hand' = hand \o [i \in DOMAIN assigned |->
                      [number |-> checked + i, monitor |-> Remote, success |-> outcome[i]]]
    /\ checked' = checked + Len(assigned)
    /\ assigned' = Drained
    /\ UNCHANGED <<buffer, signal, born, request, ingestVars, lateFetch, issued,
                   adminVars, budget>>

\* It fails and the cycle goes on: the token is refused, or the request is lost, or
\* its answer is, with the assignments in it, or it arrives after the timeout.
FetchFails ==
    /\ phase = "fetching"
    /\ phase' = "sending"
    /\ \/ ~authorized /\ UNCHANGED <<assigned, lateFetch, budget>>
       \/ Fault /\ UNCHANGED <<assigned, lateFetch>>
       \/ Fault /\ authorized /\ assigned' = Drained /\ UNCHANGED lateFetch
       \/ Fault /\ lateFetch' = TRUE /\ UNCHANGED assigned
    /\ UNCHANGED <<hand, buffer, signal, checked, born, request, ingestVars,
                   issued, adminVars>>

\* Mutant of Batch: what was buffered is not in it.
BatchNewOnly == hand

Batch == buffer \o hand

\* Mutant of Send: nothing to push, no push.
SendIfAny ==
    /\ phase = "sending"
    /\ IF Batch = <<>> THEN CycleEnds
       ELSE phase' = "awaiting" /\ hand' = Batch /\ request' = Pushed(Batch) /\ UNCHANGED signal
    /\ buffer' = <<>>
    /\ UNCHANGED <<checked, born, ingestVars, queueVars, adminVars, budget>>

\* The batched push, sent even when it is empty: it is the heartbeat.
Send ==
    /\ phase = "sending"
    /\ phase' = "awaiting"
    /\ hand' = Batch
    /\ buffer' = <<>>
    /\ request' = Pushed(Batch)
    /\ UNCHANGED <<signal, checked, born, ingestVars, queueVars, adminVars, budget>>

\* Mutant of Accepted: the batch is kept in any case.
AcceptedKept ==
    /\ phase = "awaiting"
    /\ request.begun /\ request.left = <<>>
    /\ CycleEnds
    /\ buffer' = PushedBack(hand)
    /\ UNCHANGED <<checked, born, ingestVars, queueVars, adminVars, budget>>

\* 202 arrives.
Accepted ==
    /\ phase = "awaiting"
    /\ request.begun /\ request.left = <<>>
    /\ CycleEnds
    /\ UNCHANGED <<buffer, checked, born, ingestVars, queueVars, adminVars, budget>>

Buffered == CycleEnds /\ buffer' = PushedBack(hand)

\* The push fails: the token is refused; or the heartbeat cannot be written, the
\* request is lost or cut off anywhere, or only its answer is; or ten seconds pass
\* and the backend goes on with what nobody awaits.
PushFails ==
    /\ phase = "awaiting"
    /\ Buffered
    /\ \/ ~request.begun /\ ~authorized /\ UNCHANGED <<late, budget>>
       \/ Fault /\ UNCHANGED late
       \/ Fault /\ late' = Append(late, request)
    /\ UNCHANGED <<checked, born, channel, heard, handled, applied, queueVars,
                   adminVars>>

\* The interval has passed.
Wake ==
    /\ phase = "sleeping"
    /\ phase' = "checking"
    /\ UNCHANGED <<hand, buffer, signal, checked, born, request, ingestVars,
                   queueVars, adminVars, budget>>

\* The signal is taken: one more push, of what is buffered, and no checks.
Stop ==
    /\ phase = "sleeping"
    /\ signal = "received"
    /\ signal' = "obeyed"
    /\ phase' = "sending"
    /\ UNCHANGED <<hand, buffer, checked, born, request, ingestVars, queueVars,
                   adminVars, budget>>

\* SIGTERM where it is caught.
Terminated ==
    /\ phase # "ended"
    /\ signal = "caught"
    /\ signal' = "received"
    /\ UNCHANGED <<phase, hand, buffer, checked, born, request, ingestVars,
                   queueVars, adminVars, budget>>

\* SIGTERM where it is not, or SIGKILL.  A request under way may still be handled.
Killed ==
    /\ phase # "ended"
    /\ Operator
    /\ phase' = "ended"
    /\ hand' = <<>> /\ buffer' = <<>>
    /\ request' = NoRequest
    /\ late' \in {late} \cup (IF phase = "awaiting" THEN {Append(late, request)} ELSE {})
    /\ UNCHANGED <<signal, checked, born, channel, heard, handled, applied,
                   queueVars, adminVars>>

\* The operator starts the agent again, with the token now in force.
Revived ==
    /\ phase = "ended"
    /\ Operator
    /\ phase' = "checking"
    /\ signal' = "fatal"
    /\ buffer' = <<>>
    /\ born' = checked
    /\ authorized' = TRUE
    /\ UNCHANGED <<hand, checked, request, ingestVars, queueVars, owned>>

-----------------------------------------------------------------------------
\* The backend: ingest::push.

Begins(r) == /\ ~r.begun
             /\ authorized
             /\ heard' = TRUE
             /\ UNCHANGED <<channel, handled, applied, budget>>

\* IngestHandle::submit: never blocks, and drops the result if the channel is full.
SubmitPushed(result) ==
    IF channel < IngestCapacity
    THEN channel' = channel + 1 /\ applied' = Append(applied, result)
    ELSE UNCHANGED <<channel, applied>>

\* The next result: a monitor that does not name the agent, or cannot be read, gets
\* none.
Hands(r) == /\ r.begun /\ r.left # <<>>
            /\ handled' = handled \cup {Head(r.left).number}
            /\ \/ Head(r.left).monitor \in owned /\ SubmitPushed(Head(r.left)) /\ UNCHANGED budget
               \/ Head(r.left).monitor \notin owned /\ UNCHANGED <<channel, applied, budget>>
               \/ Fault /\ UNCHANGED <<channel, applied>>
            /\ UNCHANGED heard

HandledOne(r) == IF r.begun THEN [r EXCEPT !.left = Tail(@)] ELSE [r EXCEPT !.begun = TRUE]

\* A step of the handler of the awaited request...
Serve ==
    /\ phase = "awaiting"
    /\ Begins(request) \/ Hands(request)
    /\ request' = HandledOne(request)
    /\ UNCHANGED <<agentVars, late, queueVars, adminVars>>

\* ...and of one nobody awaits...
ServeLate ==
    /\ \E i \in DOMAIN late :
          /\ Begins(late[i]) \/ Hands(late[i])
          /\ late' = [late EXCEPT ![i] = HandledOne(@)]
    /\ UNCHANGED <<agentVars, request, queueVars, adminVars>>

\* ...which may also end: done, refused, or dropped when its connection is found closed.
LateEnds ==
    /\ \E i \in DOMAIN late : late' = RemoveAt(late, i)
    /\ UNCHANGED <<agentVars, request, channel, heard, handled, applied, queueVars,
                   adminVars, budget>>

\* An assignments request nobody awaits takes the queue with it.
FetchLate ==
    /\ lateFetch
    /\ lateFetch' = FALSE
    /\ assigned' \in {assigned} \cup (IF authorized THEN {Drained} ELSE {})
    /\ UNCHANGED <<agentVars, request, ingestVars, issued, adminVars, budget>>

-----------------------------------------------------------------------------
\* The engine and the operators.

\* AssignmentHandle::enqueue: the oldest makes room.
Assign ==
    /\ issued < MaxAssigned
    /\ issued' = issued + 1
    /\ assigned' = Append(IF Len(assigned) >= QueueCapacity THEN Tail(assigned) ELSE assigned,
                          issued + 1)
    /\ UNCHANGED <<agentVars, request, ingestVars, lateFetch, adminVars, budget>>

\* The scheduler takes a result off the channel.
Consume ==
    /\ channel > 0
    /\ channel' = channel - 1
    /\ UNCHANGED <<agentVars, request, late, heard, handled, applied, queueVars,
                   adminVars, budget>>

\* Ninety seconds without a heartbeat.
HeartbeatLapses ==
    /\ heard
    /\ heard' = FALSE
    /\ UNCHANGED <<agentVars, request, late, channel, handled, applied, queueVars,
                   adminVars, budget>>

\* The daemon is restarted: of all this only the agents table survives.
DaemonRestarts ==
    /\ Fault
    /\ late' = <<>> /\ channel' = 0 /\ applied' = <<>>
    /\ assigned' = <<>> /\ lateFetch' = FALSE
    /\ IF phase = "awaiting" THEN Buffered
       ELSE UNCHANGED <<phase, signal, hand, buffer, request>>
    /\ UNCHANGED <<checked, born, heard, handled, issued, adminVars>>

\* register_agent under a name already there: a fresh token and heartbeat.
Rotate ==
    /\ Operator
    /\ authorized' = FALSE
    /\ heard' = TRUE
    /\ UNCHANGED <<agentVars, request, late, channel, handled, applied, queueVars, owned>>

\* A monitor is tied to another agent, or removed.
Disown(m) ==
    /\ Operator
    /\ owned' = owned \ {m}
    /\ UNCHANGED <<agentVars, request, ingestVars, queueVars, authorized>>

-----------------------------------------------------------------------------
PushInit ==
    /\ phase = "checking"
    /\ hand = <<>> /\ buffer = <<>>
    /\ signal = "fatal"
    /\ request = NoRequest
    /\ late = <<>>
    /\ lateFetch = FALSE
    /\ assigned = <<>>
    /\ channel = 0
    /\ heard = TRUE
    /\ authorized = TRUE
    /\ owned = Monitor
    /\ checked = 0 /\ born = 0 /\ issued = 0
    /\ handled = {}
    /\ applied = <<>>
    /\ budget = [checks |-> MaxChecks, faults |-> MaxFaults, ops |-> MaxOps]

Cycle == CheckLocally \/ FetchAnswered \/ FetchFails \/ Send \/ Accepted \/ PushFails

PushNext ==
    \/ Cycle \/ Wake \/ Stop \/ Terminated \/ Killed \/ Revived
    \/ Serve \/ ServeLate \/ LateEnds \/ FetchLate
    \/ Assign \/ Consume \/ HeartbeatLapses \/ DaemonRestarts
    \/ Rotate
    \/ \E m \in Monitor : Disown(m)

PushSpec == PushInit /\ [][PushNext]_pushVars

\* The loop runs on, every call it makes returns (the client has a timeout, each of
\* which is a fault here) and the backend answers what arrives.  The signal is ready
\* at each select! until it is taken.
PushFairness == /\ WF_pushVars(Cycle) /\ WF_pushVars(Serve)
                /\ WF_pushVars(Wake \/ Stop) /\ SF_pushVars(Stop)

PushFairSpec == PushSpec /\ PushFairness

-----------------------------------------------------------------------------
(***************************************************************************)
(* Properties.                                                             *)
(***************************************************************************)
PushTypeOK ==
    /\ phase \in Phase
    /\ hand \in Seq(Result)
    /\ buffer \in Seq(Result) /\ Len(buffer) <= BufferCapacity
    /\ signal \in Signal
    /\ request \in Request
    /\ late \in Seq(Request)
    /\ lateFetch \in BOOLEAN
    /\ assigned \in Seq(Assignment) /\ Len(assigned) <= QueueCapacity
    /\ channel \in 0..IngestCapacity
    /\ heard \in BOOLEAN
    /\ authorized \in BOOLEAN
    /\ owned \subseteq Monitor
    /\ checked \in 0..(MaxChecks + MaxAssigned)
    /\ born \in 0..checked
    /\ issued \in 0..MaxAssigned
    /\ handled \subseteq Number
    /\ applied \in Seq(Result)
    /\ budget \in [checks : 0..MaxChecks, faults : 0..MaxFaults, ops : 0..MaxOps]

Numbers(results) == [i \in DOMAIN results |-> results[i].number]

\* What the agent holds, oldest first.
Held == buffer \o hand

\* Only overflow loses results: while the agent lives, one that no handler has dealt
\* with is still held, or BufferCapacity newer ones have been made since - through
\* lost requests and answers, refused tokens and restarts of the daemon.
OnlyOverflowLoses ==
    phase # "ended" =>
        \A n \in (born + 1)..checked :
            \/ n \in handled
            \/ n \in ToSet(Numbers(Held))
            \/ checked - n >= BufferCapacity

\* The engine counts a result again only after a fault: n more times after n of them.
Times(n) == Cardinality({i \in DOMAIN applied : applied[i].number = n})
RepeatsNeedFaults == \A n \in 1..checked : Times(n) <= 1 + (MaxFaults - budget.faults)

\* A result of an agent that keeps running and keeps its token is dealt with in the
\* end, if newer ones do not push it out.
Delivered(n) == n \in handled \/ checked - n >= BufferCapacity
ResultsArrive ==
    \A n \in Number :
        (n \in (born + 1)..checked) ~> (Delivered(n) \/ phase = "ended" \/ ~authorized)

\* An agent that runs is heard again, results or none.
RunningIsHeard == ~heard ~> (heard \/ phase = "ended" \/ ~authorized)

\* A caught SIGTERM ends the agent, whether or not the last push succeeds.
SignalEnds == signal = "received" ~> phase = "ended"
=============================================================================
