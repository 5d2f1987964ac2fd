------------------------------- MODULE Probing -------------------------------
(***************************************************************************)
(* What becomes of the tasks the scheduler spawns: each waits for one of   *)
(* the probe permits and then probes a network target (crates/probe) or    *)
(* polls a workload through the API server of a Kubernetes cluster         *)
(* (crates/collector-kubernetes), and ends with an outcome for a monitor.  *)
(*                                                                         *)
(* A network probe has a hard timeout.  A poll is one request, for a       *)
(* service two, without any: a request the server never answers keeps its  *)
(* task, and its permit, for good.  The workload, the server and the token *)
(* it accepts change at any time, also between two requests; kubeconfigs   *)
(* are read only when the daemon starts.                                   *)
(***************************************************************************)
EXTENDS Naturals, FiniteSets, Sequences

CONSTANTS Cluster,      \* the clusters attached
          Override,     \* K8sClusterConfig::context of each, or Unset
          Files,        \* what a kubeconfig, or a pod's service account, may hold
          Token,        \* bearer tokens
          Unset,        \* no such value, no task, nothing to report
          NetworkKinds, \* the kinds of network monitor in a run
          K8sKinds,     \* the kinds of Kubernetes monitor in a run
          Permits,      \* max_concurrent_probes
          MaxWaiting,   \* bound on the tasks that wait for a permit
          MaxHung,      \* bound on the requests that are never answered
          MaxReplicas   \* bound on a workload's replicas

NetworkProbeKind == {"http", "tcp", "icmp"}
ReplicaKind      == {"deployment", "statefulset"}
K8sKind          == ReplicaKind \cup {"service"}

VARIABLES clients,    \* Factory::clusters, by name: the clients that could be built
          accepted,   \* the token each API server accepts
          trouble,    \* do its answers fail: no connection, an error status, no JSON?
          workload,   \* the object a monitor of its cluster watches
          waiting,    \* tasks in the semaphore's queue, first come first served
          permits,    \* who holds each permit
          out         \* the outcome a task has ended with in the last step

probingVars == <<clients, accepted, trouble, workload, waiting, permits, out>>

-----------------------------------------------------------------------------
\* A task, and what it is at once it runs: `stage` counts the requests answered,
\* `unwell` remembers that its workload was not healthy at some time since it began, and
\* `silent` that nobody will ever answer it.
Task    == [kind : NetworkKinds] \cup [kind : K8sKinds, cluster : Cluster]
Running == [task : Task, stage : 0..1, unwell : BOOLEAN, silent : BOOLEAN]
Outcome == {"success", "failure", "unavailable"}

\* What is assumed of the constants.
ProbingAssumption ==
    /\ NetworkKinds \subseteq NetworkProbeKind /\ K8sKinds \subseteq K8sKind
    /\ Permits \in Nat \ {0}
    /\ MaxWaiting \in Nat /\ MaxHung \in Nat /\ MaxReplicas \in Nat
    /\ Unset \notin Token \cup Running \cup Outcome
    /\ Unset \notin 0..MaxReplicas
    /\ \A file \in Files :
          \/ file.inCluster /\ file.token \in Token \cup {Unset}
          \/ /\ ~file.inCluster
             /\ \A user \in DOMAIN file.users : file.users[user] \in Token \cup {Unset}

Polls(task) == task.kind \in K8sKind

\* What the API server has: no object, a Deployment or StatefulSet with its replicas, or a
\* Service and its Endpoints.
Missing  == [kind : K8sKinds, exists : {FALSE}]
Replicas == [kind : K8sKinds \cap ReplicaKind, exists : {TRUE},
             desired : 0..MaxReplicas, ready : 0..MaxReplicas]
Service  == [kind : K8sKinds \cap {"service"}, exists : {TRUE},
             endpoints : {"missing", "empty", "ready"}]
Workload == Missing \cup Replicas \cup Service

\* What an operator means by healthy.
Healthy(object) ==
    /\ object.exists
    /\ IF object.kind = "service" THEN object.endpoints = "ready"
       ELSE object.ready >= object.desired

-----------------------------------------------------------------------------
(***************************************************************************)
(* kubeconfig.rs and Factory::new.  A file is what can be told of it: can  *)
(* it be read and parsed, and its lists, each entry under its name.        *)
(***************************************************************************)
\* ClusterAuth::in_cluster: host and port from the environment, then the token and the
\* certificate of the service account; each may be missing.
InCluster(account) ==
    IF ~account.environment THEN [error |-> "NotInCluster"]
    ELSE IF account.token = Unset \/ account.ca = "none"
         THEN [error |-> "ServiceAccountRead"]
         ELSE [token |-> account.token, ca |-> account.ca]

\* ClusterAuth::from_kubeconfig_file: the context given for the cluster or else the
\* file's own, its cluster, its user, a token and the certificate: the first that is
\* missing is the error.
FromFile(file, override) ==
    LET name    == IF override # Unset THEN override ELSE file.current
        context == file.contexts[name]
        token   == file.users[context.user]
        ca      == file.clusters[context.cluster]
    IN  IF ~file.readable THEN [error |-> "KubeconfigRead"]
        ELSE IF ~file.parses THEN [error |-> "KubeconfigParse"]
        ELSE IF name \notin DOMAIN file.contexts THEN [error |-> "ContextNotFound"]
        ELSE IF context.cluster \notin DOMAIN file.clusters THEN [error |-> "ClusterNotFound"]
        ELSE IF context.user \notin DOMAIN file.users THEN [error |-> "UserNotFound"]
        ELSE IF token = Unset THEN [error |-> "UnsupportedAuth"]
        ELSE IF ca = "garbled" THEN [error |-> "InvalidCaData"]
        ELSE [token |-> token, ca |-> ca]

\* ClusterAuth::resolve
Resolve(file, override) == IF file.inCluster THEN InCluster(file) ELSE FromFile(file, override)

\* K8sApiClient::new, as Factory::new calls it: a certificate that is none is an error
\* too, and a cluster with an error gets no client and keeps none of the others from one.
Client(file, override) ==
    LET auth == Resolve(file, override)
    IN  IF "error" \in DOMAIN auth \/ auth.ca = "no certificate" THEN Unset
        ELSE [token |-> auth.token]

Clients == {[c \in Cluster |-> Client(files[c], Override[c])] : files \in [Cluster -> Files]}

-----------------------------------------------------------------------------
\* The surroundings.  Polls under way remember when their workload is unwell.
TokenRotates(c) ==
    /\ accepted' \in {[accepted EXCEPT ![c] = token] : token \in Token}
    /\ out' = Unset
    /\ UNCHANGED <<clients, trouble, workload, waiting, permits>>

TroubleComesOrGoes(c) ==
    /\ trouble' = [trouble EXCEPT ![c] = ~@]
    /\ out' = Unset
    /\ UNCHANGED <<clients, accepted, workload, waiting, permits>>

Busy(p) == permits[p] # Unset

WorkloadChanges(c) ==
    /\ \E object \in Workload :
          /\ object.kind = workload[c].kind
          /\ workload' = [workload EXCEPT ![c] = object]
    /\ permits' = [p \in DOMAIN permits |->
                      IF /\ Busy(p) /\ Polls(permits[p].task)
                         /\ permits[p].task.cluster = c
                         /\ ~Healthy(workload'[c])
                      THEN [permits[p] EXCEPT !.unwell = TRUE] ELSE permits[p]]
    /\ out' = Unset
    /\ UNCHANGED <<clients, accepted, trouble, waiting>>

\* The daemon is restarted: the kubeconfigs are read again, whatever is in them now.
Restart ==
    /\ clients' \in Clients
    /\ waiting' = <<>>
    /\ permits' = [p \in DOMAIN permits |-> Unset]
    /\ out' = Unset
    /\ UNCHANGED <<accepted, trouble, workload>>

-----------------------------------------------------------------------------
\* dispatch_network and dispatch_k8s spawn a task; collector_for knows no cluster
\* without a client, and the stand-in spawned then needs no permit.
Spawn(task) ==
    /\ Polls(task) => task.kind = workload[task.cluster].kind
    /\ IF Polls(task) /\ clients[task.cluster] = Unset
       THEN /\ out' = "unavailable"
            /\ UNCHANGED waiting
       ELSE /\ Len(waiting) < MaxWaiting
            /\ waiting' = Append(waiting, task)
            /\ out' = Unset
    /\ UNCHANGED <<clients, accepted, trouble, workload, permits>>

\* Polls that no answer will end.
Hung == {p \in DOMAIN permits : Busy(p) /\ Polls(permits[p].task) /\ permits[p].silent}

\* Semaphore::acquire_owned
Acquire ==
    /\ waiting # <<>>
    /\ \E p \in DOMAIN permits :
          /\ permits[p] = Unset
          /\ \A q \in 1..p - 1 : permits[q] # Unset
          /\ permits' = [permits EXCEPT ![p] =
                [task |-> Head(waiting), stage |-> 0, silent |-> FALSE,
                 unwell |-> /\ Polls(Head(waiting))
                            /\ ~Healthy(workload[Head(waiting).cluster])]]
    /\ waiting' = Tail(waiting)
    /\ out' = Unset
    /\ UNCHANGED <<clients, accepted, trouble, workload>>

\* A probe or a request gets no answer: packets are swallowed, a server accepts the
\* connection and says nothing.
GoesSilent(p) ==
    /\ Busy(p) /\ ~permits[p].silent
    /\ Polls(permits[p].task) => Cardinality(Hung) < MaxHung
    /\ permits' = [permits EXCEPT ![p].silent = TRUE]
    /\ out' = Unset
    /\ UNCHANGED <<clients, accepted, trouble, workload, waiting>>

\* A task ends with its outcome, and its permit is dropped with it.
Ends(p, outcome) ==
    /\ permits' = [permits EXCEPT ![p] = Unset]
    /\ out' = outcome

-----------------------------------------------------------------------------
\* crates/probe: what each prober can meet, and what it makes of it.
Http == [success |-> "success", redirection |-> "success", otherStatus |-> "failure",
         error |-> "failure", timeout |-> "failure"]

Tcp == [connected |-> "success", error |-> "failure", timeout |-> "failure"]

Icmp == [noSocket |-> "unavailable", unresolved |-> "failure", reply |-> "success",
         permissionDenied |-> "unavailable", error |-> "failure", timeout |-> "failure"]

Prober(kind) == IF kind = "http" THEN Http ELSE IF kind = "tcp" THEN Tcp ELSE Icmp

Answers(kind) == DOMAIN Prober(kind) \ {"timeout"}

\* Mutant of ProbeEnds: without the timeout.
ProbeEndsIfAnswered(p) ==
    /\ Busy(p) /\ ~Polls(permits[p].task)
    /\ ~permits[p].silent
    /\ LET kind == permits[p].task.kind
       IN  \E seen \in Answers(kind) : Ends(p, Prober(kind)[seen])
    /\ UNCHANGED <<clients, accepted, trouble, workload, waiting>>

\* Probers::probe: answered, or at the latest when its timeout is over.
ProbeEnds(p) ==
    /\ Busy(p) /\ ~Polls(permits[p].task)
    /\ LET kind == permits[p].task.kind
       IN  \E seen \in IF permits[p].silent THEN {"timeout"} ELSE Answers(kind) :
              Ends(p, Prober(kind)[seen])
    /\ UNCHANGED <<clients, accepted, trouble, workload, waiting>>

-----------------------------------------------------------------------------
(***************************************************************************)
(* client.rs and K8sCollector::poll.                                       *)
(***************************************************************************)
\* Mutant of Get: whatever the server refuses counts as not found.
GetOrMissing(c, found) ==
    IF trouble[c] THEN "error"
    ELSE IF clients[c].token # accepted[c] \/ ~found THEN "not found" ELSE "found"

\* get: only a 404 means that there is no such object; no connection, another status, a
\* token the server does not take or a body that is no JSON is an error.
Get(c, found) ==
    IF trouble[c] \/ clients[c].token # accepted[c] THEN "error"
    ELSE IF found THEN "found" ELSE "not found"

\* as_i64().unwrap_or(0): a status without readyReplicas has none ready.
AsNumber(field) == IF field = Unset THEN 0 ELSE field

\* The API server leaves readyReplicas out when it is 0.
ReadyField(object) == IF object.ready = 0 THEN Unset ELSE object.ready

EnoughReady(object) == object.exists /\ AsNumber(ReadyField(object)) >= object.desired

\* poll_collector_safely: an error is Unknown, which the scheduler takes as unavailable.
Reported(got, well) ==
    IF got = "error" THEN "unavailable" ELSE IF got = "found" /\ well THEN "success"
    ELSE "failure"

Answering(p, kinds) ==
    /\ Busy(p) /\ permits[p].task.kind \in kinds
    /\ ~permits[p].silent
    /\ UNCHANGED <<clients, accepted, trouble, workload, waiting>>

\* replica_health
ReplicasAnswered(p) ==
    /\ Answering(p, ReplicaKind)
    /\ LET c == permits[p].task.cluster
       IN  Ends(p, Reported(Get(c, workload[c].exists), EnoughReady(workload[c])))

\* service_health, the first request: is there a Service at all?
ServiceAnswered(p) ==
    /\ Answering(p, {"service"})
    /\ permits[p].stage = 0
    /\ LET c   == permits[p].task.cluster
           got == Get(c, workload[c].exists)
       IN  \/ got # "found" /\ Ends(p, Reported(got, FALSE))
           \/ /\ got = "found"
              /\ permits' = [permits EXCEPT ![p].stage = 1]
              /\ out' = Unset

\* service_health, the second: have its Endpoints an address that is ready?
EndpointsAnswered(p) ==
    /\ Answering(p, {"service"})
    /\ permits[p].stage = 1
    /\ LET c     == permits[p].task.cluster
           there == workload[c].exists /\ workload[c].endpoints # "missing"
       IN  Ends(p, Reported(Get(c, there), there /\ workload[c].endpoints = "ready"))

PollAnswered(p) == ReplicasAnswered(p) \/ ServiceAnswered(p) \/ EndpointsAnswered(p)

-----------------------------------------------------------------------------
ProbingInit ==
    /\ clients \in Clients
    /\ accepted \in [Cluster -> Token]
    /\ trouble = [c \in Cluster |-> FALSE]
    /\ workload \in [Cluster -> Workload] /\ \A c \in Cluster : Healthy(workload[c])
    /\ waiting = <<>>
    /\ permits = [p \in 1..Permits |-> Unset]
    /\ out = Unset

ProbingNext ==
    \/ \E c \in Cluster : TokenRotates(c) \/ TroubleComesOrGoes(c) \/ WorkloadChanges(c)
    \/ Restart
    \/ \E task \in Task : Spawn(task)
    \/ Acquire
    \/ \E p \in 1..Permits : GoesSilent(p) \/ ProbeEnds(p) \/ PollAnswered(p)

ProbingSpec == ProbingInit /\ [][ProbingNext]_probingVars

\* The semaphore hands a free permit to whoever waits first; a timeout fires; a request
\* is answered unless it has met silence.
ProbingFairness ==
    /\ WF_probingVars(Acquire)
    /\ \A p \in 1..Permits : WF_probingVars(ProbeEnds(p)) /\ WF_probingVars(PollAnswered(p))

ProbingFairSpec == ProbingSpec /\ ProbingFairness

-----------------------------------------------------------------------------
(***************************************************************************)
(* Properties.                                                             *)
(***************************************************************************)
ProbingTypeOK ==
    /\ clients \in [Cluster -> [token : Token] \cup {Unset}]
    /\ accepted \in [Cluster -> Token]
    /\ trouble \in [Cluster -> BOOLEAN]
    /\ workload \in [Cluster -> Workload]
    /\ waiting \in Seq(Task) /\ Len(waiting) <= MaxWaiting
    /\ permits \in [1..Permits -> Running \cup {Unset}]
    /\ out \in Outcome \cup {Unset}

\* A cluster's trouble is never reported as the workload's: a poll ends as a failure only
\* if the workload was unwell at some time while it ran, whatever token was rotated,
\* whatever the server refused or garbled, before or between its requests.
TroubleIsNotDown ==
    [][\A p \in 1..Permits :
          (/\ Busy(p) /\ permits'[p] = Unset /\ Polls(permits[p].task)
           /\ out' = "failure")
          => permits[p].unwell]_probingVars

\* As long as fewer requests hang than there are permits, a permit comes free again and
\* again: what waits behind them is probed, with the timeout of the probes as the
\* longest wait for one.
PermitsComeFree == []<>(\E p \in 1..Permits : permits[p] = Unset)
=============================================================================
