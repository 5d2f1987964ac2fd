------------------------------ MODULE TasksProofs ------------------------------
(***************************************************************************)
(* Theorems about Retention, for any monitors, retention, batch size and   *)
(* number of results, and about Probing, for any clusters, workloads,      *)
(* tokens and number of permits.                                           *)
(***************************************************************************)
EXTENDS Retention, Probing, SequenceTheorems, FiniteSetTheorems, TLAPS

-----------------------------------------------------------------------------
(***************************************************************************)
(* Retention.                                                              *)
(***************************************************************************)
\* What no pass prunes: the results of a monitor that still exists, while they are
\* within the retention.
Kept == \A r \in written :
           r.monitor \in exists /\ r.at >= Minus(now, Retention) => r \in rows

\* A pass never prunes by a later cutoff than one that began now would.
PassInv == phase = "passing" => /\ pass \in Pass
                                /\ pass.cutoff <= Minus(now, Retention)

RetentionInv == TypeOK /\ IsFiniteSet(written) /\ PassInv /\ Kept

-----------------------------------------------------------------------------
\* The assumption, without what it says of the data.
LEMMA Numbers ==
    ASSUME RetentionAssumption
    PROVE  /\ Retention \in Nat \ {0} /\ Lag \in Nat /\ Lag <= Retention
           /\ Configured \subseteq Nat \ {0} /\ Asked \subseteq Nat
           /\ BatchSize \in Nat \ {0} /\ MaxBatches \in Nat \ {0}
           /\ MaxResults \in Nat /\ MaxTime \in Nat /\ MaxFaults \in Nat
           /\ Absent \notin Pass /\ Absent \notin Request
BY DEF RetentionAssumption

LEMMA MinusTyped ==
    ASSUME NEW a \in Nat, NEW b \in Nat
    PROVE  Minus(a, b) \in 0..a
BY DEF Minus

LEMMA MinOfTwo ==
    ASSUME NEW a \in Nat, NEW b \in Nat
    PROVE  Min({a, b}) = IF a <= b THEN a ELSE b
BY DEF Min

LEMMA InitRetention == ASSUME RetentionAssumption, Init PROVE RetentionInv
<1>1. TypeOK
      <2>1. 0 \in 0..MaxTime /\ MaxFaults \in 0..MaxFaults
            BY Numbers
      <2> QED
          BY <2>1 DEF Init, TypeOK, Phase
<1>2. IsFiniteSet(written) /\ Kept /\ PassInv
      BY FS_EmptySet DEF Init, Kept, PassInv
<1> QED
    BY <1>1, <1>2 DEF RetentionInv

\* Time only narrows what is within the retention.
LEMMA TickInv == ASSUME RetentionAssumption, RetentionInv, Tick PROVE RetentionInv'
<1> USE DEF RetentionInv, Tick, pruner
<1>1. now \in Nat /\ Retention \in Nat
      BY Numbers DEF TypeOK
<1>2. TypeOK'
      BY Numbers DEF TypeOK
<1>3. /\ Minus(now, Retention) <= Minus(now', Retention)
      /\ Minus(now, Retention) \in Nat /\ Minus(now', Retention) \in Nat
      BY <1>1 DEF Minus
<1>4. PassInv'
      BY <1>3 DEF PassInv, Pass
<1>5. Kept'
      BY <1>3 DEF Kept, TypeOK, Result
<1> QED
    BY <1>2, <1>4, <1>5

LEMMA WriteInv ==
    ASSUME RetentionAssumption, RetentionInv, NEW m \in Monitor, NEW age \in 0..Lag,
           Write(m, age)
    PROVE  RetentionInv'
<1> DEFINE result == [number |-> Cardinality(written) + 1, monitor |-> m,
                      at |-> now - age]
<1>1. Cardinality(written) \in Nat
      BY FS_CardinalityType DEF RetentionInv
<1>2. result \in Result
      BY <1>1 DEF RetentionAssumption, RetentionInv, TypeOK, Write, Result, Number
<1>3. rows' = rows \cup {result} /\ written' = written \cup {result}
      BY DEF Write
<1> HIDE DEF result
<1>4. IsFiniteSet(written')
      BY <1>3, FS_AddElement DEF RetentionInv
<1>5. TypeOK'
      BY <1>2, <1>3 DEF RetentionInv, TypeOK, Write, pruner
<1>6. PassInv' /\ Kept'
      BY <1>3 DEF RetentionInv, PassInv, Kept, Write, pruner
<1> QED
    BY <1>4, <1>5, <1>6 DEF RetentionInv

LEMMA RemoveInv ==
    ASSUME RetentionAssumption, RetentionInv, NEW m \in Monitor, RemoveMonitor(m)
    PROVE  RetentionInv'
<1> USE DEF RetentionInv, RemoveMonitor, Of, pruner
<1>1. TypeOK'
      BY DEF TypeOK
<1>2. Kept' /\ PassInv'
      BY DEF Kept, PassInv
<1> QED
    BY <1>1, <1>2

\* Whatever rows a batch takes, each of them is older than the cutoff of the pass.
LEMMA BatchIsOld ==
    ASSUME RetentionAssumption, RetentionInv, PruneBatch
    PROVE  /\ rows' \subseteq rows
           /\ \A r \in rows \ rows' : r.at < pass.cutoff
BY DEF PruneBatch, kSubset, Prunable

\* The retention outlives the pass: what is young enough is in no batch.
LEMMA PruneInv == ASSUME RetentionAssumption, RetentionInv, PruneBatch PROVE RetentionInv'
<1>1. pass \in Pass /\ phase = "passing"
      BY DEF RetentionInv, PassInv, PruneBatch
<1>2. /\ \/ phase' = "passing" /\ pass' = [pass EXCEPT !.left = pass.left - 1, !.full = TRUE]
            /\ behind' = behind
         \/ phase' = "idle" /\ pass' = Absent /\ behind' = FALSE
      /\ pass.left > 0
      /\ UNCHANGED <<now, exists, written, stopping, request, faults>>
      BY DEF PruneBatch, Finish
<1>3. TypeOK'
      <2>1. pass' \in Pass \cup {Absent}
            <3>1. pass.left - 1 \in 0..MaxBatches
                  BY <1>1, <1>2, Numbers DEF Pass
            <3> QED
                BY <1>1, <1>2, <3>1 DEF Pass
      <2>2. phase' \in Phase /\ behind' \in BOOLEAN
            BY <1>2 DEF RetentionInv, TypeOK, Phase
      <2> QED
          BY <1>2, <2>1, <2>2, BatchIsOld DEF RetentionInv, TypeOK
<1>4. PassInv'
      <2> SUFFICES ASSUME phase' = "passing"
                   PROVE  pass' \in Pass /\ pass'.cutoff <= Minus(now, Retention)
          BY <1>2 DEF PassInv
      <2>1. pass' = [pass EXCEPT !.left = pass.left - 1, !.full = TRUE] /\ pass.left > 0
            BY <1>2
      <2>2. pass.cutoff <= Minus(now, Retention)
            BY <1>1 DEF RetentionInv, PassInv
      <2>3. pass.left - 1 \in 0..MaxBatches
            BY <1>1, <2>1, Numbers DEF Pass
      <2> QED
          BY <1>1, <2>1, <2>2, <2>3 DEF Pass
<1>5. Minus(now, Retention) \in Nat
      BY Numbers DEF RetentionInv, TypeOK, Minus
<1>6. Kept'
      <2> SUFFICES ASSUME NEW r \in written, r.monitor \in exists,
                          r.at >= Minus(now, Retention)
                   PROVE  r \in rows'
          BY <1>2 DEF Kept
      <2>1. r \in rows
            BY DEF RetentionInv, Kept
      <2>2. ~(r.at < pass.cutoff)
            BY <1>1, <1>5, <2>1 DEF RetentionInv, PassInv, TypeOK, Pass, Result
      <2> QED
          BY <2>1, <2>2, BatchIsOld
<1> QED
    BY <1>2, <1>3, <1>4, <1>6 DEF RetentionInv

\* The other steps of the pruner and of the engine leave the table alone.
LEMMA PrunerInv ==
    ASSUME RetentionAssumption, RetentionInv,
           Stop \/ Ready \/ End \/ BeginPass \/ Count \/ PassFails
    PROVE  RetentionInv'
<1> USE DEF RetentionInv, Phase
<1>1. UNCHANGED <<now, exists, rows, written, request>>
      BY DEF Stop, Ready, End, BeginPass, Count, PassFails, Finish, pruner
<1>2. Minus(now, Retention) \in 0..MaxTime
      BY Numbers DEF TypeOK, Minus
<1>3. TypeOK'
      <2>1. CASE Stop \/ Ready \/ End
            BY <2>1 DEF Stop, Ready, End, TypeOK, pruner
      <2>2. CASE BeginPass
            BY <1>2, <2>2, Numbers DEF BeginPass, TypeOK, Pass
      <2>3. behind' \in BOOLEAN
            BY DEF Stop, Ready, End, BeginPass, Count, PassFails, Finish, TypeOK, pruner
      <2>4. CASE Count \/ PassFails
            BY <2>3, <2>4, Numbers DEF Count, PassFails, Finish, TypeOK
      <2> QED
          BY <2>1, <2>2, <2>4
<1>4. PassInv'
      <2>1. CASE Stop
            BY <1>1, <2>1 DEF Stop, PassInv, pruner
      <2>2. CASE BeginPass
            BY <1>1, <1>2, <2>2, Numbers DEF BeginPass, Pass, PassInv
      <2>3. CASE Ready \/ End \/ Count \/ PassFails
            BY <2>3 DEF Ready, End, Count, PassFails, Finish, PassInv
      <2> QED
          BY <2>1, <2>2, <2>3
<1>5. Kept'
      BY <1>1 DEF Kept
<1> QED
    BY <1>1, <1>3, <1>4, <1>5

\* A reader asks for times that are, and is given rows that are or have been there.
LEMMA SinceTyped ==
    ASSUME RetentionAssumption, TypeOK, NEW asked \in Asked, NEW retention \in Configured
    PROVE  Since(asked, retention) \in Nat
BY Numbers, MinusTyped DEF TypeOK, Since

LEMMA AskInv ==
    ASSUME RetentionAssumption, RetentionInv,
           NEW monitors \in SUBSET Monitor, NEW since \in Nat,
           Ask(monitors, since)
    PROVE  RetentionInv'
<1>1. request' \in Request
      BY DEF Ask, Request
<1>2. TypeOK'
      BY <1>1 DEF RetentionInv, TypeOK, Ask, pruner
<1>3. PassInv' /\ Kept' /\ IsFiniteSet(written')
      BY DEF RetentionInv, PassInv, Kept, Ask, pruner
<1> QED
    BY <1>2, <1>3 DEF RetentionInv

LEMMA ReaderInv ==
    ASSUME RetentionAssumption, RetentionInv,
           \/ \E m \in Monitor : AskHistory(m) \/ Read(m)
           \/ AskRegions \/ Answer
    PROVE  RetentionInv'
<1>1. CASE \E m \in Monitor : AskHistory(m)
      <2> PICK m \in Monitor, asked \in Asked, retention \in Configured :
                Ask({m}, Since(asked, retention))
          BY <1>1 DEF AskHistory
      <2> QED
          BY AskInv, SinceTyped DEF RetentionInv
<1>2. CASE AskRegions
      <2> DEFINE linked == {m \in exists : Region[m] # Absent}
      <2> PICK asked \in Asked, retention \in Configured :
                Ask(linked, Since(asked, retention))
          BY <1>2 DEF AskRegions
      <2>1. linked \in SUBSET Monitor
            BY DEF RetentionInv, TypeOK
      <2> QED
          BY <2>1, AskInv, SinceTyped DEF RetentionInv
<1>3. CASE Answer
      BY <1>3 DEF Answer, RetentionInv, TypeOK, PassInv, Kept, pruner
<1>4. CASE \E m \in Monitor : Read(m)
      <2> PICK m \in Monitor : Read(m)
          BY <1>4
      <2> DEFINE found == {r \in Of(rows, m) : r.at >= request.since}
      <2>1. found \subseteq written
            BY DEF RetentionInv, TypeOK, Of
      <2>2. /\ request \in Request /\ request' = [request EXCEPT !.todo = request.todo \ {m},
                                             !.got = request.got \cup found]
            /\ UNCHANGED <<now, exists, rows, written, phase, pass, behind, stopping, faults>>
            BY DEF Read, RetentionInv, TypeOK, pruner
      <2> HIDE DEF found
      <2>3. /\ request' \in Request
            /\ request'.todo \subseteq request'.listed /\ request'.got \subseteq written
            BY <2>1, <2>2 DEF RetentionAssumption, RetentionInv, TypeOK, Request
      <2>4. TypeOK'
            BY <2>2, <2>3 DEF RetentionInv, TypeOK
      <2> QED
          BY <2>2, <2>4 DEF RetentionInv, PassInv, Kept
<1> QED
    BY <1>1, <1>2, <1>3, <1>4

LEMMA NextRetention == ASSUME RetentionAssumption, RetentionInv, [Next]_vars PROVE RetentionInv'
<1>1. CASE Tick
      BY <1>1, TickInv
<1>2. CASE \E m \in Monitor : RemoveMonitor(m)
      BY <1>2, RemoveInv
<1>3. CASE \E m \in Monitor, age \in 0..Lag : Write(m, age)
      BY <1>3, WriteInv
<1>4. CASE PruneBatch
      BY <1>4, PruneInv
<1>5. CASE Stop \/ Ready \/ End \/ BeginPass \/ Count \/ PassFails
      BY <1>5, PrunerInv
<1>6. CASE \/ \E m \in Monitor : AskHistory(m) \/ Read(m)
           \/ AskRegions \/ Answer
      BY <1>6, ReaderInv
<1>7. CASE UNCHANGED vars
      BY <1>7 DEF vars, pruner, RetentionInv, TypeOK, PassInv, Kept
<1> QED
    BY <1>1, <1>2, <1>3, <1>4, <1>5, <1>6, <1>7 DEF Next

LEMMA RetentionInvariance == ASSUME RetentionAssumption PROVE Spec => []RetentionInv
<1> USE RetentionAssumption
<1>1. Init => RetentionInv
      BY InitRetention
<1>2. RetentionInv /\ [Next]_vars => RetentionInv'
      BY NextRetention
<1> QED
    BY <1>1, <1>2, PTL DEF Spec

\* Every reachable state is well typed.
THEOREM RetentionTypeCorrect == ASSUME RetentionAssumption PROVE Spec => []TypeOK
<1>1. RetentionInv => TypeOK
      BY DEF RetentionInv
<1> QED
    BY <1>1, RetentionInvariance, PTL

-----------------------------------------------------------------------------
\* Readers are told the whole of what they ask for (list_check_results behind
\* retained_since), whatever is pruned between two statements of an answer and
\* whichever retention a reader resolved for itself.
THEOREM WholeAnswers == ASSUME RetentionAssumption PROVE Spec => AnswersAreWhole
<1> USE RetentionAssumption
<1> DEFINE Whole ==
        \A m \in Monitor :
           (/\ request # Absent /\ request' # Absent
            /\ m \in request.todo \ request'.todo /\ m \in exists)
           => \A r \in Of(written, m) :
                 r.at >= request.since /\ r.at >= Minus(now, Retention)
                 => r \in request'.got
<1>1. ASSUME RetentionInv, [Next]_vars PROVE [Whole]_vars
      <2> SUFFICES ASSUME Next, NEW m \in Monitor, request # Absent, request' # Absent,
                          m \in request.todo \ request'.todo, m \in exists,
                          NEW r \in Of(written, m), r.at >= request.since,
                          r.at >= Minus(now, Retention)
                   PROVE  r \in request'.got
          BY <1>1
      <2>1. PICK n \in Monitor : Read(n)
            BY DEF Next, Tick, Stop, RemoveMonitor, Write, Ready, End, BeginPass, PruneBatch,
                   Count, PassFails, AskHistory, AskRegions, Ask, Answer, pruner
      <2>2. request \in Request
            BY <1>1 DEF RetentionInv, TypeOK
      <2>3. /\ m = n
            /\ {q \in Of(rows, n) : q.at >= request.since} \subseteq request'.got
            BY <2>1, <2>2 DEF Read, Request
      <2>4. r \in Of(rows, m)
            BY <1>1 DEF RetentionInv, Kept, Of
      <2> QED
          BY <2>3, <2>4
<1> QED
    BY <1>1, RetentionInvariance, PTL DEF Spec, AnswersAreWhole

-----------------------------------------------------------------------------
\* A batch that is not full took all there was.
LEMMA ShortBatchIsLast ==
    ASSUME RetentionAssumption, RetentionInv, PruneBatch, phase' # "passing"
    PROVE  \A r \in rows' : r.at >= pass.cutoff
<1> DEFINE old == Prunable(pass.cutoff)
<1>1. PICK batch \in kSubset(Min({BatchSize, Cardinality(old)}), old) :
              /\ rows' = rows \ batch
              /\ Cardinality(batch) # BatchSize
      BY DEF PruneBatch
<1>2. rows \subseteq Result /\ pass.cutoff \in Nat
      BY DEF RetentionInv, TypeOK, PassInv, Pass, PruneBatch
<1>3. IsFiniteSet(old) /\ batch \in SUBSET old
      BY <1>1, FS_Subset DEF RetentionInv, TypeOK, Prunable, kSubset
<1>4. Cardinality(old) \in Nat /\ BatchSize \in Nat
      BY <1>3, FS_CardinalityType DEF RetentionAssumption
<1>5. Cardinality(batch) = Cardinality(old)
      BY <1>1, <1>4, MinOfTwo DEF kSubset
<1>6. batch = old
      BY <1>3, <1>5, FS_Subset
<1> QED
    BY <1>1, <1>2, <1>6 DEF Prunable, Result

\* A pass that reports no backlog has none (run_pass), however the table was written
\* to and monitors deleted in the meantime.
THEOREM CleanPasses == ASSUME RetentionAssumption PROVE Spec => CleanMeansClean
<1> USE RetentionAssumption
<1> DEFINE Clean == (phase = "passing" /\ phase' = "idle" /\ faults' = faults /\ ~behind')
                    => \A r \in rows' : r.at >= pass.cutoff
<1>1. ASSUME RetentionInv, [Next]_vars PROVE [Clean]_vars
      <2> SUFFICES ASSUME Next, phase = "passing", phase' = "idle", faults' = faults,
                          ~behind'
                   PROVE  \A r \in rows' : r.at >= pass.cutoff
          BY <1>1
      <2>1. PruneBatch \/ Count
            <3>1. ~PassFails
                  <4>1. faults \in Nat
                        BY <1>1, Numbers DEF RetentionInv, TypeOK
                  <4> QED
                      BY <4>1 DEF PassFails, Finish
            <3> QED
                BY <3>1 DEF Next, Tick, Stop, RemoveMonitor, Write, Ready, End, BeginPass,
                   AskHistory, AskRegions, Ask, Answer, Read, pruner
      <2>2. CASE PruneBatch
            BY <1>1, <2>2, ShortBatchIsLast
      <2>3. CASE Count
            <3>1. rows' = rows /\ Prunable(pass.cutoff) = {}
                  BY <2>3 DEF Count, Finish
            <3>2. rows \subseteq Result /\ pass.cutoff \in Nat
                  BY <1>1 DEF RetentionInv, TypeOK, PassInv, Pass
            <3> QED
                BY <3>1, <3>2 DEF Prunable, Result
      <2> QED
          BY <2>1, <2>2, <2>3
<1> QED
    BY <1>1, RetentionInvariance, PTL DEF Spec, CleanMeansClean

-----------------------------------------------------------------------------
\* The rank of the percentile (p95_latency_ms) is the smallest that covers Percent of
\* the latencies, and it is one of their positions, for any number of them.
THEOREM RankIsNearest ==
    ASSUME RetentionAssumption, NEW count \in Nat \ {0}
    PROVE  /\ Rank(count) \in 1..count
           /\ 100 * Rank(count) >= count * Percent
           /\ 100 * (Rank(count) - 1) < count * Percent
<1> DEFINE part == count * Percent
<1>1. part \in Nat /\ part >= 1 /\ part <= 100 * count
      BY DEF RetentionAssumption
<1>2. 100 * ((part + 99) \div 100) >= part
      /\ 100 * ((part + 99) \div 100) <= part + 99
      /\ (part + 99) \div 100 \in Nat
      BY <1>1
<1>3. Rank(count) = (part + 99) \div 100
      BY <1>1, <1>2, MinOfTwo DEF Rank
<1> HIDE DEF part
<1>4. /\ Rank(count) \in 1..count
      /\ 100 * Rank(count) >= part
      /\ 100 * (Rank(count) - 1) < part
      BY <1>1, <1>2, <1>3
<1> QED
    BY <1>4 DEF part

-----------------------------------------------------------------------------
(***************************************************************************)
(* Probing.                                                                *)
(***************************************************************************)
\* A poll asks for the object its cluster has, as dispatch_k8s saw to.
Fits(task) == Polls(task) => task.kind = workload[task.cluster].kind

WaitingInv == \A i \in 1..Len(waiting) : Fits(waiting[i])

\* What a poll has not noticed has not happened.
PollsInv ==
    \A p \in 1..Permits :
       Busy(p) => /\ Fits(permits[p].task)
                  /\ (Polls(permits[p].task) /\ ~permits[p].unwell)
                     => Healthy(workload[permits[p].task.cluster])

ProbingInv == ProbingTypeOK /\ WaitingInv /\ PollsInv

-----------------------------------------------------------------------------
\* The assumption, in parts.
LEMMA Constants ==
    ASSUME ProbingAssumption
    PROVE  /\ NetworkKinds \subseteq {"http", "tcp", "icmp"}
           /\ K8sKinds \subseteq {"deployment", "statefulset", "service"}
           /\ Permits \in Nat \ {0}
           /\ MaxWaiting \in Nat /\ MaxReplicas \in Nat
           /\ Unset \notin Token /\ Unset \notin Running
           /\ Unset # "failure" /\ Unset \notin 0..MaxReplicas
BY DEF ProbingAssumption, NetworkProbeKind, K8sKind, ReplicaKind, Outcome

LEMMA PollHasCluster ==
    ASSUME ProbingAssumption, NEW task \in Task, Polls(task)
    PROVE  task.kind \in K8sKinds /\ task.cluster \in Cluster
BY Constants DEF Task, Polls, K8sKind, ReplicaKind

\* Whatever a file holds, its client has a token or there is none.
LEMMA ClientTyped ==
    ASSUME ProbingAssumption, NEW file \in Files, NEW override
    PROVE  Client(file, override) \in [token : Token] \cup {Unset}
<1> DEFINE auth == Resolve(file, override)
<1> SUFFICES ASSUME "error" \notin DOMAIN auth
             PROVE  auth.token \in Token
    BY DEF Client
<1>1. CASE file.inCluster
      <2>1. auth = InCluster(file)
            BY <1>1 DEF Resolve
      <2>2. file.token \in Token \cup {Unset}
            BY <1>1 DEF ProbingAssumption
      <2>3. auth = [token |-> file.token, ca |-> file.ca] /\ file.token # Unset
            BY <2>1 DEF InCluster
      <2> QED
          BY <2>2, <2>3
<1>2. CASE ~file.inCluster
      <2>1. auth = FromFile(file, override)
            BY <1>2 DEF Resolve
      <2> DEFINE name    == IF override # Unset THEN override ELSE file.current
                 context == file.contexts[name]
                 user    == context.user
      <2>2. CASE user \in DOMAIN file.users /\ file.users[user] # Unset
            <3>1. \/ \E e : auth = [error |-> e]
                  \/ \E ca : auth = [token |-> file.users[user], ca |-> ca]
                  BY <2>1, <2>2, Zenon DEF FromFile
            <3> QED
                BY <1>2, <2>2, <3>1 DEF ProbingAssumption
      <2>3. CASE ~(user \in DOMAIN file.users /\ file.users[user] # Unset)
            <3>1. \E e : auth = [error |-> e]
                  BY <2>1, <2>3, Zenon DEF FromFile
            <3> QED
                BY <3>1
      <2> QED
          BY <2>2, <2>3
<1> QED
    BY <1>1, <1>2

LEMMA ClientsTyped ==
    ASSUME ProbingAssumption
    PROVE  Clients \subseteq [Cluster -> [token : Token] \cup {Unset}]
<1> SUFFICES ASSUME NEW files \in [Cluster -> Files]
             PROVE  [c \in Cluster |-> Client(files[c], Override[c])]
                    \in [Cluster -> [token : Token] \cup {Unset}]
    BY DEF Clients
<1> QED
    BY ClientTyped

-----------------------------------------------------------------------------
LEMMA InitProbing == ASSUME ProbingAssumption, ProbingInit PROVE ProbingInv
<1>1. ProbingTypeOK
      BY ClientsTyped, Constants DEF ProbingInit, ProbingTypeOK, Outcome
<1>2. WaitingInv /\ PollsInv
      BY DEF ProbingInit, WaitingInv, PollsInv, Busy
<1> QED
    BY <1>1, <1>2 DEF ProbingInv

\* The surroundings touch no task, and a restart leaves none.
LEMMA SurroundingsInv ==
    ASSUME ProbingAssumption, ProbingInv,
           Restart \/ \E c \in Cluster : TokenRotates(c) \/ TroubleComesOrGoes(c)
    PROVE  ProbingInv'
<1>1. CASE \E c \in Cluster : TokenRotates(c) \/ TroubleComesOrGoes(c)
      <2>1. accepted' \in [Cluster -> Token] /\ trouble' \in [Cluster -> BOOLEAN]
            BY <1>1 DEF TokenRotates, TroubleComesOrGoes, ProbingInv, ProbingTypeOK
      <2>2. out' = Unset /\ UNCHANGED <<clients, workload, waiting, permits>>
            BY <1>1 DEF TokenRotates, TroubleComesOrGoes
      <2> QED
          BY <2>1, <2>2 DEF ProbingInv, ProbingTypeOK, WaitingInv, PollsInv, Busy, Fits
<1>2. CASE Restart
      <2>1. clients' \in [Cluster -> [token : Token] \cup {Unset}]
            BY <1>2, ClientsTyped DEF Restart
      <2>2. waiting' \in Seq(Task) /\ Len(waiting') <= MaxWaiting
            BY <1>2, Constants DEF Restart
      <2>3. permits' = [p \in 1..Permits |-> Unset]
            BY <1>2 DEF Restart, ProbingInv, ProbingTypeOK
      <2>4. ProbingTypeOK'
            BY <1>2, <2>1, <2>2, <2>3 DEF Restart, ProbingInv, ProbingTypeOK
      <2>5. WaitingInv' /\ PollsInv'
            BY <1>2, <2>3 DEF Restart, WaitingInv, PollsInv, Busy
      <2> QED
          BY <2>4, <2>5 DEF ProbingInv
<1> QED
    BY <1>1, <1>2

\* A poll under way notices that its workload is unwell.
LEMMA WorkloadInv ==
    ASSUME ProbingAssumption, ProbingInv, NEW c \in Cluster, WorkloadChanges(c)
    PROVE  ProbingInv'
<1>1. PICK object \in Workload :
              /\ object.kind = workload[c].kind
              /\ workload' = [workload EXCEPT ![c] = object]
      BY DEF WorkloadChanges
<1>2. /\ workload' \in [Cluster -> Workload] /\ workload'[c] = object
      /\ \A d \in Cluster : workload'[d].kind = workload[d].kind
      /\ \A d \in Cluster \ {c} : workload'[d] = workload[d]
      BY <1>1 DEF ProbingInv, ProbingTypeOK
<1>3. \A p \in 1..Permits :
         permits'[p] = IF /\ Busy(p) /\ Polls(permits[p].task)
                          /\ permits[p].task.cluster = c
                          /\ ~Healthy(workload'[c])
                       THEN [permits[p] EXCEPT !.unwell = TRUE] ELSE permits[p]
      BY DEF WorkloadChanges, ProbingInv, ProbingTypeOK
<1>4. \A p \in 1..Permits : Busy(p) => permits[p] \in Running
      BY DEF ProbingInv, ProbingTypeOK, Busy
<1>5. \A p \in 1..Permits :
         \/ permits'[p] = permits[p]
         \/ /\ Busy(p) /\ permits'[p] = [permits[p] EXCEPT !.unwell = TRUE]
      BY <1>3
<1>6. permits' \in [1..Permits -> Running \cup {Unset}]
      <2>1. \A p \in 1..Permits : permits'[p] \in Running \cup {Unset}
            <3> TAKE p \in 1..Permits
            <3>1. permits[p] \in Running \cup {Unset}
                  BY DEF ProbingInv, ProbingTypeOK
            <3>2. permits[p] \in Running
                  => [permits[p] EXCEPT !.unwell = TRUE] \in Running
                  BY DEF Running
            <3> QED
                BY <1>4, <1>5, <3>1, <3>2
      <2> QED
          BY <2>1 DEF WorkloadChanges, ProbingInv, ProbingTypeOK
<1>7. ProbingTypeOK'
      BY <1>2, <1>6 DEF WorkloadChanges, ProbingInv, ProbingTypeOK
<1>8. \A task \in Task : Fits(task) => Fits(task)'
      BY <1>2, PollHasCluster DEF Fits, Polls
<1>9. WaitingInv'
      BY <1>8 DEF WorkloadChanges, WaitingInv, ProbingInv, ProbingTypeOK
<1>10. PollsInv'
      <2> SUFFICES ASSUME NEW p \in 1..Permits, Busy(p)'
                   PROVE  (/\ Fits(permits[p].task)
                           /\ (Polls(permits[p].task) /\ ~permits[p].unwell)
                              => Healthy(workload[permits[p].task.cluster]))'
          BY DEF PollsInv
      <2>1. Busy(p) /\ permits[p] \in Running
            BY <1>4, <1>5 DEF Busy
      <2>2. permits[p].task \in Task /\ permits'[p].task = permits[p].task
            BY <1>5, <2>1 DEF Running
      <2>3. Fits(permits[p].task)
            BY <2>1 DEF ProbingInv, PollsInv
      <2>4. ASSUME Polls(permits[p].task), ~permits'[p].unwell
            PROVE  Healthy(workload'[permits[p].task.cluster])
            <3>1. permits[p].task.cluster \in Cluster
                  BY <2>2, <2>4, PollHasCluster
            <3>2. permits'[p] = permits[p]
                  BY <1>5, <2>1, <2>4 DEF Running
            <3>3. Healthy(workload[permits[p].task.cluster])
                  BY <2>1, <2>4, <3>2 DEF ProbingInv, PollsInv
            <3>4. CASE permits[p].task.cluster = c
                  <4>1. SUFFICES ASSUME ~Healthy(workload'[c]) PROVE FALSE
                        BY <3>4
                  <4>2. permits'[p].unwell = TRUE
                        BY <1>3, <2>1, <2>4, <3>4, <4>1 DEF Running
                  <4> QED
                      BY <2>4, <4>2
            <3> QED
                BY <1>2, <3>1, <3>3, <3>4
      <2>5. Fits(permits[p].task)'
            BY <1>8, <2>2, <2>3 DEF Fits
      <2> QED
          BY <2>2, <2>4, <2>5
<1> QED
    BY <1>7, <1>9, <1>10 DEF ProbingInv

LEMMA SpawnInv ==
    ASSUME ProbingAssumption, ProbingInv, NEW task \in Task, Spawn(task) PROVE ProbingInv'
<1>1. /\ UNCHANGED <<clients, accepted, trouble, workload, permits>>
      /\ \/ out' = "unavailable" /\ waiting' = waiting
         \/ /\ Len(waiting) < MaxWaiting
            /\ waiting' = Append(waiting, task) /\ out' = Unset
      /\ Fits(task)
      BY DEF Spawn, Fits
<1>2. waiting' \in Seq(Task) /\ Len(waiting') <= MaxWaiting
      <2>1. waiting \in Seq(Task) /\ Len(waiting) \in Nat /\ Len(waiting) <= MaxWaiting
            BY DEF ProbingInv, ProbingTypeOK
      <2>2. CASE waiting' = Append(waiting, task) /\ Len(waiting) < MaxWaiting
            <3>1. waiting' \in Seq(Task) /\ Len(waiting') = Len(waiting) + 1
                  BY <2>1, <2>2
            <3> QED
                BY <2>1, <2>2, <3>1, Constants
      <2> QED
          BY <1>1, <2>1, <2>2
<1>3. \A i \in 1..Len(waiting') : Fits(waiting'[i])
      BY <1>1 DEF ProbingInv, ProbingTypeOK, WaitingInv
<1> QED
    BY <1>1, <1>2, <1>3 DEF ProbingInv, ProbingTypeOK, WaitingInv, PollsInv, Busy, Fits, Outcome

\* A step that changes nothing but one permit.
LEMMA PermitInv ==
    ASSUME ProbingAssumption, ProbingInv, NEW p \in 1..Permits,
           NEW held \in Running \cup {Unset},
           permits' = [permits EXCEPT ![p] = held],
           UNCHANGED <<clients, accepted, trouble, workload>>,
           waiting' \in Seq(Task), Len(waiting') <= MaxWaiting, WaitingInv',
           out' \in Outcome \cup {Unset},
           held # Unset =>
              /\ Fits(held.task)
              /\ (Polls(held.task) /\ ~held.unwell)
                 => Healthy(workload[held.task.cluster])
    PROVE  ProbingInv'
<1>1. permits' \in [1..Permits -> Running \cup {Unset}]
      BY DEF ProbingInv, ProbingTypeOK
<1>2. ProbingTypeOK'
      BY <1>1 DEF ProbingInv, ProbingTypeOK
<1>3. \A q \in 1..Permits : permits'[q] = IF q = p THEN held ELSE permits[q]
      BY DEF ProbingInv, ProbingTypeOK
<1>4. PollsInv'
      BY <1>3 DEF ProbingInv, PollsInv, Busy, Fits
<1> QED
    BY <1>2, <1>4 DEF ProbingInv

\* Waiting lines shift.
LEMMA AcquireInv == ASSUME ProbingAssumption, ProbingInv, Acquire PROVE ProbingInv'
<1> DEFINE head == Head(waiting)
           held == [task |-> head, stage |-> 0, silent |-> FALSE,
                    unwell |-> Polls(head) /\ ~Healthy(workload[head.cluster])]
<1>1. PICK p \in 1..Permits : permits' = [permits EXCEPT ![p] = held]
      BY DEF Acquire, ProbingInv, ProbingTypeOK
<1>2. waiting # <<>> /\ waiting \in Seq(Task) /\ waiting' = Tail(waiting) /\ out' = Unset
      BY DEF Acquire, ProbingInv, ProbingTypeOK
<1>3. head \in Task /\ waiting' \in Seq(Task) /\ Len(waiting') = Len(waiting) - 1
      /\ \A i \in 1..Len(waiting') : waiting'[i] = waiting[i + 1]
      /\ Len(waiting) \in Nat /\ Len(waiting) > 0 /\ head = waiting[1]
      BY <1>2
<1>4. UNCHANGED <<clients, accepted, trouble, workload>>
      BY DEF Acquire
<1>5. Len(waiting') <= MaxWaiting
      BY <1>3, Constants DEF ProbingInv, ProbingTypeOK
<1>6. WaitingInv'
      <2>1. \A i \in 1..Len(waiting') : Fits(waiting'[i])
            BY <1>3 DEF ProbingInv, WaitingInv
      <2> QED
          BY <1>4, <2>1 DEF WaitingInv, Fits
<1>7. Fits(head)
      BY <1>3 DEF ProbingInv, WaitingInv
<1> HIDE DEF head
<1>8. (Polls(head) /\ ~Healthy(workload[head.cluster])) \in BOOLEAN
      BY DEF Polls
<1>9. held \in Running
      BY <1>3, <1>8 DEF Running
<1> QED
    BY <1>1, <1>2, <1>3, <1>4, <1>5, <1>6, <1>7, <1>9, PermitInv

LEMMA SilentInv ==
    ASSUME ProbingAssumption, ProbingInv, NEW p \in 1..Permits, GoesSilent(p) PROVE ProbingInv'
<1> DEFINE held == [permits[p] EXCEPT !.silent = TRUE]
<1>1. permits[p] \in Running /\ Busy(p)
      BY DEF GoesSilent, ProbingInv, ProbingTypeOK, Busy
<1>2. held \in Running /\ held.task = permits[p].task /\ held.unwell = permits[p].unwell
      BY <1>1 DEF Running
<1>3. permits' = [permits EXCEPT ![p] = held] /\ out' = Unset
      /\ UNCHANGED <<clients, accepted, trouble, workload, waiting>>
      BY DEF GoesSilent
<1>4. WaitingInv'
      BY <1>3 DEF ProbingInv, WaitingInv, Fits
<1> HIDE DEF held
<1> QED
    BY <1>1, <1>2, <1>3, <1>4, PermitInv DEF ProbingInv, ProbingTypeOK, PollsInv

\* Whatever a prober meets and whatever an API server answers, the outcome is one.
LEMMA OutcomesTyped ==
    /\ \A kind : \A seen \in DOMAIN Prober(kind) : Prober(kind)[seen] \in Outcome
    /\ \A kind : "timeout" \in DOMAIN Prober(kind)
    /\ \A got, well : Reported(got, well) \in Outcome
<1>1. \A seen \in DOMAIN Http : Http[seen] \in Outcome
      BY DEF Http, Outcome
<1>2. \A seen \in DOMAIN Tcp : Tcp[seen] \in Outcome
      BY DEF Tcp, Outcome
<1>3. \A seen \in DOMAIN Icmp : Icmp[seen] \in Outcome
      BY DEF Icmp, Outcome
<1>4. "timeout" \in DOMAIN Http /\ "timeout" \in DOMAIN Tcp /\ "timeout" \in DOMAIN Icmp
      BY DEF Http, Tcp, Icmp
<1>5. \A got, well : Reported(got, well) \in Outcome
      BY DEF Reported, Outcome
<1> QED
    BY <1>1, <1>2, <1>3, <1>4, <1>5 DEF Prober

LEMMA EndsInv ==
    ASSUME ProbingAssumption, ProbingInv, NEW p \in 1..Permits, NEW outcome \in Outcome,
           Ends(p, outcome), UNCHANGED <<clients, accepted, trouble, workload, waiting>>
    PROVE  ProbingInv'
<1>1. WaitingInv'
      BY DEF ProbingInv, WaitingInv, Fits
<1> QED
    BY <1>1, PermitInv DEF Ends, ProbingInv, ProbingTypeOK

LEMMA ProbeInv ==
    ASSUME ProbingAssumption, ProbingInv, NEW p \in 1..Permits, ProbeEnds(p) PROVE ProbingInv'
<1>1. PICK seen \in DOMAIN Prober(permits[p].task.kind) :
              Ends(p, Prober(permits[p].task.kind)[seen])
      BY OutcomesTyped DEF ProbeEnds, Answers
<1> QED
    BY <1>1, OutcomesTyped, EndsInv DEF ProbeEnds

LEMMA PollInv ==
    ASSUME ProbingAssumption, ProbingInv, NEW p \in 1..Permits, PollAnswered(p)
    PROVE  ProbingInv'
<1>1. permits[p] \in Running /\ Busy(p)
      /\ UNCHANGED <<clients, accepted, trouble, workload, waiting>>
      BY DEF PollAnswered, ReplicasAnswered, ServiceAnswered, EndpointsAnswered, Answering,
             ProbingInv, ProbingTypeOK, Busy
<1>2. CASE \E outcome \in Outcome : Ends(p, outcome)
      BY <1>1, <1>2, EndsInv
<1>3. CASE permits' = [permits EXCEPT ![p].stage = 1] /\ out' = Unset
      <2> DEFINE held == [permits[p] EXCEPT !.stage = 1]
      <2>1. held \in Running /\ held.task = permits[p].task
            /\ held.unwell = permits[p].unwell
            BY <1>1 DEF Running
      <2>2. permits' = [permits EXCEPT ![p] = held]
            BY <1>3
      <2>3. WaitingInv'
            BY <1>1 DEF ProbingInv, WaitingInv, Fits
      <2> HIDE DEF held
      <2> QED
          BY <1>1, <1>3, <2>1, <2>2, <2>3, PermitInv DEF ProbingInv, ProbingTypeOK, PollsInv
<1> QED
    BY <1>2, <1>3, OutcomesTyped
    DEF PollAnswered, ReplicasAnswered, ServiceAnswered, EndpointsAnswered

LEMMA NextProbing ==
    ASSUME ProbingAssumption, ProbingInv, [ProbingNext]_probingVars PROVE ProbingInv'
<1>1. CASE Restart \/ \E c \in Cluster : TokenRotates(c) \/ TroubleComesOrGoes(c)
      BY <1>1, SurroundingsInv
<1>2. CASE \E c \in Cluster : WorkloadChanges(c)
      BY <1>2, WorkloadInv
<1>3. CASE \E task \in Task : Spawn(task)
      BY <1>3, SpawnInv
<1>4. CASE Acquire
      BY <1>4, AcquireInv
<1>5. CASE \E p \in 1..Permits : GoesSilent(p) \/ ProbeEnds(p) \/ PollAnswered(p)
      BY <1>5, SilentInv, ProbeInv, PollInv
<1>6. CASE UNCHANGED probingVars
      BY <1>6 DEF probingVars, ProbingInv, ProbingTypeOK, WaitingInv, PollsInv, Busy, Fits
<1> QED
    BY <1>1, <1>2, <1>3, <1>4, <1>5, <1>6 DEF ProbingNext

LEMMA ProbingInvariance == ASSUME ProbingAssumption PROVE ProbingSpec => []ProbingInv
<1> USE ProbingAssumption
<1>1. ProbingInit => ProbingInv
      BY InitProbing
<1>2. ProbingInv /\ [ProbingNext]_probingVars => ProbingInv'
      BY NextProbing
<1> QED
    BY <1>1, <1>2, PTL DEF ProbingSpec

\* Every reachable state is well typed.
THEOREM ProbingTypeCorrect == ASSUME ProbingAssumption PROVE ProbingSpec => []ProbingTypeOK
<1>1. ProbingInv => ProbingTypeOK
      BY DEF ProbingInv
<1> QED
    BY <1>1, ProbingInvariance, PTL

-----------------------------------------------------------------------------
\* replica_health counts a status without readyReplicas as it should.
LEMMA ReadyMeansHealthy ==
    ASSUME ProbingAssumption, NEW object \in Workload, object.kind \in ReplicaKind,
           Healthy(object)
    PROVE  EnoughReady(object)
<1>1. object.exists /\ object.ready >= object.desired
      BY DEF Healthy, ReplicaKind
<1>2. object.ready \in 0..MaxReplicas
      BY <1>1 DEF Workload, Missing, Replicas, Service, ReplicaKind
<1> QED
    BY <1>1, <1>2, Constants DEF EnoughReady, AsNumber, ReadyField

\* What a poll reports as a failure is one.
LEMMA FailureIsReal ==
    ASSUME ProbingAssumption, ProbingInv, NEW p \in 1..Permits, PollAnswered(p),
           out' = "failure"
    PROVE  permits[p].unwell
<1> DEFINE c == permits[p].task.cluster
           object == workload[c]
<1>1. /\ Busy(p) /\ permits[p].task \in Task /\ Polls(permits[p].task)
      /\ permits[p].unwell \in BOOLEAN
      BY DEF PollAnswered, ReplicasAnswered, ServiceAnswered, EndpointsAnswered, Answering,
             ProbingInv, ProbingTypeOK, Busy, Running, Polls, K8sKind
<1>2. c \in Cluster /\ object \in Workload /\ object.kind = permits[p].task.kind
      BY <1>1, PollHasCluster DEF ProbingInv, ProbingTypeOK, PollsInv, Fits
<1> SUFFICES ASSUME Healthy(object) PROVE FALSE
    BY <1>1 DEF ProbingInv, PollsInv
<1>3. object.exists = TRUE
      BY <1>2 DEF Healthy, Workload, Missing, Replicas, Service
<1>4. "failure" # Unset
      BY Constants
<1>5. \A found : Get(c, found) # "error" => (found => Get(c, found) = "found")
      BY DEF Get
<1>6. \A got, well : Reported(got, well) = "failure"
                     => got # "error" /\ ~(got = "found" /\ well)
      BY DEF Reported
<1>7. CASE ReplicasAnswered(p)
      <2>1. EnoughReady(object)
            BY <1>2, <1>7, ReadyMeansHealthy DEF ReplicasAnswered, Answering
      <2> QED
          BY <1>3, <1>5, <1>6, <1>7, <2>1 DEF ReplicasAnswered, Ends
<1>8. CASE ServiceAnswered(p)
      BY <1>3, <1>4, <1>5, <1>6, <1>8 DEF ServiceAnswered, Ends
<1>9. CASE EndpointsAnswered(p)
      <2>1. object.endpoints = "ready"
            BY <1>2, <1>9 DEF EndpointsAnswered, Answering, Healthy
      <2> QED
          BY <1>3, <1>5, <1>6, <1>9, <2>1 DEF EndpointsAnswered, Ends
<1> QED
    BY <1>7, <1>8, <1>9 DEF PollAnswered

\* No trouble of a cluster's own, no token refused and no answer garbled takes a monitor
\* down (K8sCollector::poll), with any number of polls under way and whatever changes
\* between two requests of one.
THEOREM OnlyTheWorkloadIsDown == ASSUME ProbingAssumption PROVE ProbingSpec => TroubleIsNotDown
<1> USE ProbingAssumption
<1> DEFINE Honest == \A p \in 1..Permits :
                        (/\ Busy(p) /\ permits'[p] = Unset /\ Polls(permits[p].task)
                         /\ out' = "failure")
                        => permits[p].unwell
<1>1. ASSUME ProbingInv, [ProbingNext]_probingVars PROVE [Honest]_probingVars
      <2> SUFFICES ASSUME ProbingNext, NEW p \in 1..Permits, Busy(p), permits'[p] = Unset,
                          Polls(permits[p].task), out' = "failure"
                   PROVE  permits[p].unwell
          BY <1>1
      <2>1. "failure" # Unset
            BY Constants
      <2>2. PICK q \in 1..Permits : ProbeEnds(q) \/ PollAnswered(q)
            BY <2>1 DEF ProbingNext, TokenRotates, TroubleComesOrGoes, WorkloadChanges, Restart,
                   Acquire, GoesSilent, Spawn, Busy
      <2>3. permits \in [1..Permits -> Running \cup {Unset}]
            BY <1>1 DEF ProbingInv, ProbingTypeOK
      <2>4. q = p
            BY <2>2, <2>3 DEF ProbeEnds, PollAnswered, ReplicasAnswered, ServiceAnswered,
                   EndpointsAnswered, Ends, Busy
      <2>5. PollAnswered(p)
            BY <2>2, <2>4 DEF ProbeEnds
      <2> QED
          BY <1>1, <2>5, FailureIsReal
<1> QED
    BY <1>1, ProbingInvariance, PTL DEF ProbingSpec, TroubleIsNotDown
=============================================================================
