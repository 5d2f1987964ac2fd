------------------------------- MODULE MCTasks -------------------------------
(***************************************************************************)
(* Four parts of the daemon in one run: the pruner with the readers of its *)
(* table, the result writer, the alert task, and the probes with their     *)
(* permits.  They share no variable here (Engine composes those that meet  *)
(* at shutdown), so that nothing is to be learnt from their interleavings: *)
(* a behaviour is one of one part, chosen at the start, while the others   *)
(* keep their initial state.  Each part's properties are checked of all    *)
(* behaviours; those in which it keeps still satisfy them trivially, the   *)
(* others are exactly its own.                                             *)
(***************************************************************************)
EXTENDS Retention, Probing, AlertDelivery

CONSTANTS m1, m2, eu, c1, a, b

VARIABLES part,
          wExists, wQueue, wBatch, wPhase, wHeld, wInserted, wSubmitted, wFaults

writerVars == <<wExists, wQueue, wBatch, wPhase, wHeld, wInserted, wSubmitted, wFaults>>
tasksVars  == <<part, vars, writerVars, alertVars, probingVars>>

-----------------------------------------------------------------------------
MCMonitor == {m1, m2}
MCRegion  == (m1 :> eu) @@ (m2 :> eu)
MCMeasured == <<[success |-> TRUE, latency |-> 3], [success |-> TRUE, latency |-> 1]>>

Writer == INSTANCE ResultWriter
             WITH Capacity <- 2, BatchSize <- 2, MaxResults <- 4, MaxFaults <- 1,
                  exists <- wExists, queue <- wQueue, batch <- wBatch, phase <- wPhase,
                  held <- wHeld, inserted <- wInserted, submitted <- wSubmitted,
                  faults <- wFaults

\* Kubeconfigs: a good one, one with another token, and one for each way to be bad.
File == [inCluster |-> FALSE, readable |-> TRUE, parses |-> TRUE, current |-> "ctx",
         contexts |-> [ctx   |-> [cluster |-> "prod", user |-> "ci"],
                       other |-> [cluster |-> "gone", user |-> "ci"]],
         clusters |-> [prod |-> "none"],
         users |-> [ci |-> a, cert |-> Unset]]

Account == [inCluster |-> TRUE, environment |-> TRUE, token |-> b, ca |-> "pem"]

KubeFiles ==
    {File, [File EXCEPT !.users.ci = b],
     [File EXCEPT !.readable = FALSE], [File EXCEPT !.parses = FALSE],
     [File EXCEPT !.current = "other"], [File EXCEPT !.current = Unset],
     [File EXCEPT !.contexts.ctx.user = "nobody"], [File EXCEPT !.contexts.ctx.user = "cert"],
     [File EXCEPT !.clusters.prod = "garbled"],
     [File EXCEPT !.clusters.prod = "no certificate"],
     Account, [Account EXCEPT !.environment = FALSE], [Account EXCEPT !.token = Unset]}

MCOverride == [c \in {c1} |-> Unset]

ASSUME PartsAssumption == /\ RetentionAssumption
                          /\ Writer!WriterAssumption
                          /\ AlertAssumption
                          /\ ProbingAssumption

-----------------------------------------------------------------------------
Part == {"pruner", "writer", "alerts", "probes"}

\* The probes' part has several initial states; where it keeps still one is enough.
TasksInit ==
    /\ part \in Part
    /\ Init
    /\ Writer!Init
    /\ AlertsInit
    /\ ProbingInit
    /\ part # "probes" => /\ clients[c1] = Unset /\ accepted[c1] = a
                          /\ workload[c1] = CHOOSE object \in Workload : Healthy(object)

TasksNext ==
    \/ part = "pruner" /\ Next /\ UNCHANGED <<part, writerVars, alertVars, probingVars>>
    \/ part = "writer" /\ Writer!Next /\ UNCHANGED <<part, vars, alertVars, probingVars>>
    \/ part = "alerts" /\ AlertsNext /\ UNCHANGED <<part, vars, writerVars, probingVars>>
    \/ part = "probes" /\ ProbingNext /\ UNCHANGED <<part, vars, writerVars, alertVars>>

\* The fairness of each part, in the behaviours that are its own.  What the writer, the
\* alerts and the probes are fair to is disabled in their initial states.
TasksSpec ==
    /\ TasksInit /\ [][TasksNext]_tasksVars
    /\ WF_vars(part = "pruner" /\ Ready) /\ WF_vars(BeginPass) /\ WF_vars(PruneBatch \/ Count)
    /\ Writer!Fairness
    /\ AlertsFairness
    /\ ProbingFairness

-----------------------------------------------------------------------------
\* The writer's property; those of the other parts are stated in the modules extended.
WritesInOrder == Writer!WritesInOrder
=============================================================================
