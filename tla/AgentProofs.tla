-------------------------------- MODULE AgentProofs --------------------------------
(***************************************************************************)
(* Theorems about the agent: AgentPush, for any capacities and any number  *)
(* of results, faults and operators' actions, and HostChecks, for any      *)
(* processes, names and file systems.                                      *)
(***************************************************************************)
EXTENDS AgentPush, HostChecks, SequenceTheorems, FiniteSetTheorems, TLAPS

\* How many of a sequence are in a set.
Count(s, S) == Cardinality({i \in DOMAIN s : s[i] \in S})

\* The numbers of the results in a batch, the results and the requests that carry one.
NumbersOf(results) == {results[i].number : i \in DOMAIN results}
Numbered(n)        == {result \in Result : result.number = n}
Carrying(n)        == {r \in Request : n \in NumbersOf(r.left)}

Distinct(results) ==
    \A i, j \in DOMAIN results : results[i].number = results[j].number => i = j

\* Where the agent keeps what, and what it awaits.
PhaseInv == /\ phase \in {"checking", "sleeping", "ended"} => hand = <<>>
            /\ phase = "awaiting" => buffer = <<>>

\* What the agent holds are the last results made, in the order they were made.
HeldInv == /\ Len(Held) <= checked - born
           /\ \A i \in DOMAIN Held : Held[i].number = checked - Len(Held) + i

\* There is room for what the queue will bring.
RoomInv == checked + Len(assigned) + budget.checks <= MaxChecks + issued

\* No request carries a result twice, nor one that has not been made.
Carried(r) == /\ Distinct(r.left)
              /\ \A i \in DOMAIN r.left : r.left[i].number <= checked

RequestsInv == /\ Carried(request)
               /\ \A i \in DOMAIN late : Carried(late[i])
               /\ \A i \in DOMAIN applied : applied[i].number <= checked

\* The request awaited has still to bring what no handler has dealt with.
AwaitedInv ==
    phase = "awaiting" =>
        /\ ~request.begun => request.left = hand
        /\ NumbersOf(hand) \subseteq handled \cup NumbersOf(request.left)

\* What is not held any more has been dealt with, or overflowed.
GoneInv == phase # "ended" =>
               \A n \in (born + 1)..(checked - Len(Held)) :
                   n \in handled \/ checked - n >= BufferCapacity

\* Every copy of a result there is: counted already, on its way in a request nobody
\* awaits, and the one the agent sends, or would send again.
OwnCopy(n) == IF n \in NumbersOf(IF phase = "awaiting" THEN request.left ELSE Held)
              THEN 1 ELSE 0
Copies(n)  == Count(applied, Numbered(n)) + Count(late, Carrying(n)) + OwnCopy(n)
CopiesInv  == \A n \in Number : Copies(n) <= 1 + (MaxFaults - budget.faults)

AgentInv == /\ PushTypeOK /\ PhaseInv /\ HeldInv /\ RoomInv
            /\ RequestsInv /\ AwaitedInv /\ GoneInv /\ CopiesInv

-----------------------------------------------------------------------------
\* Counting.
LEMMA CountIsANumber == ASSUME NEW T, NEW s \in Seq(T), NEW S
                        PROVE  /\ IsFiniteSet({i \in DOMAIN s : s[i] \in S})
                               /\ Count(s, S) \in Nat
<1>1. {i \in DOMAIN s : s[i] \in S} \in SUBSET (1..Len(s)) /\ Len(s) \in Nat
      BY LenProperties
<1>2. IsFiniteSet(1..Len(s))
      BY <1>1, FS_Interval
<1> QED
    BY <1>1, <1>2, FS_Subset, FS_CardinalityType DEF Count

LEMMA CountOfNone == \A S : Count(<<>>, S) = 0
<1> SUFFICES ASSUME NEW S PROVE Count(<<>>, S) = 0
    OBVIOUS
<1>1. {i \in DOMAIN <<>> : <<>>[i] \in S} = {}
      OBVIOUS
<1> QED
    BY <1>1, FS_EmptySet DEF Count

LEMMA CountZero ==
    ASSUME NEW s, NEW S, \A i \in DOMAIN s : s[i] \notin S PROVE Count(s, S) = 0
<1>1. {i \in DOMAIN s : s[i] \in S} = {}
      OBVIOUS
<1> QED
    BY <1>1, FS_EmptySet DEF Count

LEMMA CountAppend ==
    ASSUME NEW T, NEW s \in Seq(T), NEW e \in T, NEW S
    PROVE  Count(Append(s, e), S) = Count(s, S) + (IF e \in S THEN 1 ELSE 0)
<1> DEFINE A == {i \in DOMAIN s : s[i] \in S}
           B == {i \in DOMAIN Append(s, e) : Append(s, e)[i] \in S}
           n == Len(s) + 1
<1>1. /\ n \in Nat /\ DOMAIN s = 1..Len(s) /\ DOMAIN Append(s, e) = 1..n
      /\ \A i \in 1..Len(s) : Append(s, e)[i] = s[i]
      /\ Append(s, e)[n] = e
      BY AppendProperties, LenProperties
<1>2. /\ Count(s, S) = Cardinality(A) /\ Count(Append(s, e), S) = Cardinality(B)
      /\ IsFiniteSet(A) /\ Cardinality(A) \in Nat
      BY CountIsANumber DEF Count
<1>a. n \notin A
      BY <1>1, LenProperties
<1>3. CASE e \in S
      <2>1. B = A \cup {n}
            BY <1>1, <1>3, LenProperties
      <2>2. Cardinality(A \cup {n}) = Cardinality(A) + 1
            <3> HIDE DEF A, n
            <3> QED
                BY <1>2, <1>a, FS_AddElement
      <2> QED
          BY <1>2, <1>3, <2>1, <2>2
<1>4. CASE e \notin S
      <2>1. B = A
            BY <1>1, <1>4, LenProperties
      <2> HIDE DEF A, B
      <2> QED
          BY <1>2, <1>4, <2>1
<1> QED
    BY <1>3, <1>4

\* What remains when one is removed.
LEMMA RemoveIs ==
    ASSUME NEW T, NEW s \in Seq(T), NEW i \in DOMAIN s
    PROVE  /\ RemoveAt(s, i) \in Seq(T)
           /\ DOMAIN RemoveAt(s, i) = 1..(Len(s) - 1)
           /\ \A j \in 1..(Len(s) - 1) :
                 RemoveAt(s, i)[j] = IF j < i THEN s[j] ELSE s[j + 1]
<1>1. Len(s) \in Nat /\ i \in 1..Len(s) /\ \A j \in 1..Len(s) : s[j] \in T
      BY LenProperties, ElementOfSeq
<1> DEFINE front == SubSeq(s, 1, i - 1)
           back  == SubSeq(s, i + 1, Len(s))
<1>2. /\ front \in Seq(T) /\ Len(front) = i - 1
      /\ \A j \in 1..(i - 1) : front[j] = s[j]
      <2>1. \A j \in 1..(i - 1) : s[j] \in T
            BY <1>1
      <2>2. 1 \in Int /\ i - 1 \in Int
            BY <1>1
      <2>3. /\ front \in Seq(T)
            /\ Len(front) = IF 1 <= i - 1 THEN (i - 1) - 1 + 1 ELSE 0
            /\ \A j \in 1..((i - 1) - 1 + 1) : front[j] = s[1 + j - 1]
            BY <2>1, <2>2, SubSeqProperties
      <2> HIDE DEF front
      <2> QED
          BY <1>1, <2>3
<1>3. /\ back \in Seq(T) /\ Len(back) = Len(s) - i
      /\ \A j \in 1..(Len(s) - i) : back[j] = s[i + j]
      <2>1. \A j \in (i + 1)..Len(s) : s[j] \in T
            BY <1>1
      <2>2. i + 1 \in Int /\ Len(s) \in Int
            BY <1>1
      <2>3. /\ back \in Seq(T)
            /\ Len(back) = IF i + 1 <= Len(s) THEN Len(s) - (i + 1) + 1 ELSE 0
            /\ \A j \in 1..(Len(s) - (i + 1) + 1) : back[j] = s[(i + 1) + j - 1]
            BY <2>1, <2>2, SubSeqProperties
      <2> HIDE DEF back
      <2> QED
          BY <1>1, <2>3
<1>4. RemoveAt(s, i) = front \o back
      BY DEF RemoveAt
<1> HIDE DEF front, back
<1>5. /\ front \o back \in Seq(T) /\ Len(front \o back) = (i - 1) + (Len(s) - i)
      /\ \A j \in 1..((i - 1) + (Len(s) - i)) :
            (front \o back)[j] = IF j <= i - 1 THEN front[j] ELSE back[j - (i - 1)]
      <2>1. /\ front \o back \in Seq(T) /\ Len(front \o back) = Len(front) + Len(back)
            /\ \A j \in 1..(Len(front) + Len(back)) :
                  (front \o back)[j] = IF j <= Len(front) THEN front[j]
                                        ELSE back[j - Len(front)]
            BY <1>2, <1>3, ConcatProperties
      <2> QED
          BY <1>2, <1>3, <2>1
<1>6. DOMAIN (front \o back) = 1..(Len(s) - 1)
      BY <1>1, <1>5, LenProperties
<1>7. ASSUME NEW j \in 1..(Len(s) - 1)
      PROVE  (front \o back)[j] = IF j < i THEN s[j] ELSE s[j + 1]
      <2>1. CASE j < i
            BY <1>1, <1>2, <1>5, <2>1
      <2>2. CASE ~(j < i)
            <3>1. (front \o back)[j] = back[j - (i - 1)]
                  <4>1. j \in 1..((i - 1) + (Len(s) - i)) /\ ~(j <= i - 1)
                        BY <1>1, <2>2
                  <4> QED
                      BY <1>5, <4>1
            <3>2. j - (i - 1) \in 1..(Len(s) - i) /\ i + (j - (i - 1)) = j + 1
                  BY <1>1, <2>2
            <3> QED
                BY <1>3, <2>2, <3>1, <3>2
      <2> QED
          BY <2>1, <2>2
<1> QED
    BY <1>4, <1>5, <1>6, <1>7

LEMMA CountRemove ==
    ASSUME NEW T, NEW s \in Seq(T), NEW i \in DOMAIN s, NEW S
    PROVE  Count(RemoveAt(s, i), S) <= Count(s, S)
<1> DEFINE t == RemoveAt(s, i)
           A == {j \in DOMAIN t : t[j] \in S}
           B == {j \in DOMAIN s : s[j] \in S}
           f == [j \in A |-> IF j < i THEN j ELSE j + 1]
<1>1. /\ Len(s) \in Nat /\ DOMAIN s = 1..Len(s) /\ DOMAIN t = 1..(Len(s) - 1)
      /\ \A j \in 1..(Len(s) - 1) : t[j] = IF j < i THEN s[j] ELSE s[j + 1]
      BY LenProperties, RemoveIs
<1> HIDE DEF t
<1>2. ASSUME NEW j \in A PROVE f[j] \in B
      BY <1>1
<1>3. f \in Injection(A, B)
      <2>1. f \in [A -> B]
            BY <1>2
      <2>2. \A j, k \in A : f[j] = f[k] => j = k
            BY <1>1
      <2> QED
          BY <2>1, <2>2 DEF Injection, IsInjective
<1>4. IsFiniteSet(B)
      BY CountIsANumber
<1>5. Cardinality(A) <= Cardinality(B)
      <2> HIDE DEF A, B, f
      <2> QED
          BY <1>3, <1>4, FS_Injection
<1> QED
    BY <1>5 DEF Count, t

\* One element is replaced.
LEMMA CountExcept ==
    ASSUME NEW T, NEW s \in Seq(T), NEW i \in DOMAIN s, NEW e \in T, NEW S
    PROVE  /\ (e \in S => s[i] \in S) => Count([s EXCEPT ![i] = e], S) <= Count(s, S)
           /\ (e \notin S /\ s[i] \in S)
              => Count([s EXCEPT ![i] = e], S) = Count(s, S) - 1
<1> DEFINE t == [s EXCEPT ![i] = e]
           A == {j \in DOMAIN t : t[j] \in S}
           B == {j \in DOMAIN s : s[j] \in S}
<1>1. DOMAIN t = DOMAIN s /\ \A j \in DOMAIN s : t[j] = IF j = i THEN e ELSE s[j]
      OBVIOUS
<1> HIDE DEF t
<1>2. IsFiniteSet(B)
      BY CountIsANumber
<1>3. ASSUME e \in S => s[i] \in S PROVE Cardinality(A) <= Cardinality(B)
      <2>1. A \in SUBSET B
            BY <1>1, <1>3
      <2> QED
          BY <1>2, <2>1, FS_Subset
<1>4. ASSUME e \notin S, s[i] \in S PROVE Cardinality(A) = Cardinality(B) - 1
      <2>1. A = B \ {i} /\ i \in B
            BY <1>1, <1>4
      <2> HIDE DEF A, B
      <2> QED
          BY <1>2, <2>1, FS_RemoveElement
<1> QED
    BY <1>3, <1>4 DEF Count, t

-----------------------------------------------------------------------------
\* What the agent holds.
LEMMA HeldIs ==
    ASSUME hand \in Seq(Result), buffer \in Seq(Result)
    PROVE  /\ Held \in Seq(Result) /\ Len(Held) \in Nat /\ DOMAIN Held = 1..Len(Held)
           /\ Len(Held) = Len(buffer) + Len(hand)
           /\ hand = <<>> => Held = buffer
           /\ buffer = <<>> => Held = hand
<1>1. Held \in Seq(Result) /\ Len(Held) = Len(buffer) + Len(hand)
      BY ConcatProperties DEF Held
<1>2. Len(Held) \in Nat /\ DOMAIN Held = 1..Len(Held)
      BY <1>1, LenProperties
<1>3. hand = <<>> => Held = buffer
      BY ConcatEmptySeq DEF Held
<1>4. buffer = <<>> => Held = hand
      BY ConcatEmptySeq DEF Held
<1> QED
    BY <1>1, <1>2, <1>3, <1>4

\* The numbers in a run of results that ends at the last one made.
LEMMA RunOfNumbers ==
    ASSUME NEW s \in Seq(Result), NEW last \in Nat,
           \A i \in DOMAIN s : s[i].number = last - Len(s) + i
    PROVE  NumbersOf(s) = (last - Len(s) + 1)..last /\ Distinct(s)
<1>1. Len(s) \in Nat /\ DOMAIN s = 1..Len(s)
      BY LenProperties
<1>2. \A n \in (last - Len(s) + 1)..last :
         /\ n - (last - Len(s)) \in DOMAIN s
         /\ s[n - (last - Len(s))].number = n
      BY <1>1
<1>3. NumbersOf(s) \subseteq (last - Len(s) + 1)..last
      BY <1>1 DEF NumbersOf
<1>4. (last - Len(s) + 1)..last \subseteq NumbersOf(s)
      BY <1>2 DEF NumbersOf
<1>5. Distinct(s)
      BY <1>1 DEF Distinct
<1> QED
    BY <1>3, <1>4, <1>5

LEMMA NoNumbers == NumbersOf(<<>>) = {} /\ Carried(NoRequest) /\ NoRequest \in Request
<1>1. <<>> \in Seq(Result)
      BY EmptySeq
<1> QED
    BY <1>1 DEF NumbersOf, Carried, Distinct, NoRequest, Pushed, Request

LEMMA HeldNumbers ==
    ASSUME PushTypeOK, HeldInv
    PROVE  /\ NumbersOf(Held) = (checked - Len(Held) + 1)..checked
           /\ Distinct(Held)
<1>1. checked \in Nat /\ Held \in Seq(Result)
      BY HeldIs DEF PushTypeOK
<1> QED
    BY <1>1, RunOfNumbers DEF HeldInv

\* PushBuffer::push_back_all keeps the newest, in order.
LEMMA PushedBackIs ==
    ASSUME AgentAssumption, NEW s \in Seq(Result)
    PROVE  /\ PushedBack(s) \in Seq(Result) /\ Len(PushedBack(s)) \in Nat
           /\ Len(PushedBack(s)) <= BufferCapacity /\ Len(PushedBack(s)) <= Len(s)
           /\ Len(PushedBack(s)) < Len(s) => Len(PushedBack(s)) = BufferCapacity
           /\ \A i \in DOMAIN PushedBack(s) :
                 PushedBack(s)[i] = s[Len(s) - Len(PushedBack(s)) + i]
<1>1. /\ Len(s) \in Nat /\ DOMAIN s = 1..Len(s) /\ BufferCapacity \in Nat \ {0}
      /\ \A i \in 1..Len(s) : s[i] \in Result
      BY LenProperties, ElementOfSeq DEF AgentAssumption
<1>2. CASE Len(s) <= BufferCapacity
      <2>1. PushedBack(s) = s
            BY <1>2 DEF PushedBack
      <2>2. \A i \in 1..Len(s) : Len(s) - Len(s) + i = i
            BY <1>1
      <2>3. \A i \in DOMAIN s : s[i] = s[Len(s) - Len(s) + i]
            BY <1>1, <2>2
      <2>4. ~(Len(s) < Len(s)) /\ Len(s) <= Len(s)
            BY <1>1
      <2> QED
          BY <1>1, <1>2, <2>1, <2>3, <2>4, Zenon
<1>3. CASE ~(Len(s) <= BufferCapacity)
      <2> DEFINE m == Len(s) - BufferCapacity + 1
                 t == SubSeq(s, m, Len(s))
      <2>1. m \in Int /\ Len(s) \in Int /\ m >= 1 /\ \A i \in m..Len(s) : s[i] \in Result
            BY <1>1, <1>3
      <2>2. /\ t \in Seq(Result)
            /\ Len(t) = IF m <= Len(s) THEN Len(s) - m + 1 ELSE 0
            /\ \A i \in 1..(Len(s) - m + 1) : t[i] = s[m + i - 1]
            BY <2>1, SubSeqProperties
      <2>3. PushedBack(s) = t
            BY <1>3 DEF PushedBack
      <2> HIDE DEF t
      <2>a. Len(s) - m + 1 = BufferCapacity /\ m <= Len(s)
            BY <1>1, <1>3
      <2>b. \A i \in 1..BufferCapacity : m + i - 1 = Len(s) - BufferCapacity + i
            BY <1>1, <1>3
      <2> HIDE DEF m
      <2>4. Len(t) = BufferCapacity /\ DOMAIN t = 1..BufferCapacity
            BY <2>2, <2>a, LenProperties
      <2>5. \A i \in 1..BufferCapacity : t[i] = s[Len(s) - BufferCapacity + i]
            BY <2>2, <2>a, <2>b
      <2>6. BufferCapacity < Len(s) /\ BufferCapacity \in Nat
            BY <1>1, <1>3
      <2> QED
          BY <2>2, <2>3, <2>4, <2>5, <2>6
<1> QED
    BY <1>2, <1>3

Budgets == [checks : 0..MaxChecks, faults : 0..MaxFaults, ops : 0..MaxOps]

LEMMA BudgetSteps ==
    ASSUME AgentAssumption, budget \in Budgets
    PROVE  /\ Fault => /\ budget' \in Budgets /\ budget'.faults = budget.faults - 1
                       /\ budget'.checks = budget.checks
           /\ Operator => /\ budget' \in Budgets /\ budget'.faults = budget.faults
                          /\ budget'.checks = budget.checks
<1>1. ASSUME NEW n \in 0..MaxFaults
      PROVE  LET b == [budget EXCEPT !.faults = n]
             IN  b \in Budgets /\ b.faults = n /\ b.checks = budget.checks
      BY DEF Budgets
<1>2. ASSUME NEW n \in 0..MaxOps
      PROVE  LET b == [budget EXCEPT !.ops = n]
             IN  b \in Budgets /\ b.faults = budget.faults /\ b.checks = budget.checks
      BY DEF Budgets
<1>3. /\ budget.faults > 0 => budget.faults - 1 \in 0..MaxFaults
      /\ budget.ops > 0 => budget.ops - 1 \in 0..MaxOps
      BY DEF AgentAssumption, Budgets
<1>4. ASSUME Fault
      PROVE  /\ budget' \in Budgets /\ budget'.faults = budget.faults - 1
             /\ budget'.checks = budget.checks
      BY <1>1, <1>3, <1>4, Zenon DEF Fault
<1>5. ASSUME Operator
      PROVE  /\ budget' \in Budgets /\ budget'.faults = budget.faults
             /\ budget'.checks = budget.checks
      BY <1>2, <1>3, <1>5, Zenon DEF Operator
<1> QED
    BY <1>4, <1>5

\* What a count of copies is made of.
LEMMA CopiesAreNumbers ==
    ASSUME PushTypeOK, NEW n
    PROVE  /\ Count(applied, Numbered(n)) \in Nat /\ Count(late, Carrying(n)) \in Nat
           /\ OwnCopy(n) \in {0, 1}
           /\ budget.faults \in 0..MaxFaults /\ budget.checks \in 0..MaxChecks
<1>1. Count(applied, Numbered(n)) \in Nat /\ Count(late, Carrying(n)) \in Nat
      BY CountIsANumber DEF PushTypeOK
<1>2. OwnCopy(n) \in {0, 1}
      BY DEF OwnCopy
<1>3. budget.faults \in 0..MaxFaults /\ budget.checks \in 0..MaxChecks
      BY DEF PushTypeOK
<1> QED
    BY <1>1, <1>2, <1>3

LEMMA NumbersAreNat == ASSUME AgentAssumption PROVE Number \subseteq Nat /\ 0 \notin Number
BY DEF AgentAssumption, Number

LEMMA NumbersOfResults ==
    ASSUME AgentAssumption, NEW s \in Seq(Result)
    PROVE  \A i \in DOMAIN s : s[i] \in Result /\ s[i].number \in Nat
<1>1. \A i \in DOMAIN s : s[i] \in Result
      BY ElementOfSeq, LenProperties
<1>2. \A result \in Result : result.number \in Nat
      BY NumbersAreNat DEF Result
<1> QED
    BY <1>1, <1>2

LEMMA Regroup ==
    ASSUME NEW s \in Seq(Result), NEW t \in Seq(Result), NEW u \in Seq(Result)
    PROVE  (s \o t) \o u = s \o (t \o u)
BY ConcatAssociative

-----------------------------------------------------------------------------
LEMMA PushInitInv == ASSUME AgentAssumption, PushInit PROVE AgentInv
<1> USE DEF PushInit
<1>1. <<>> \in Seq(Result) /\ <<>> \in Seq(Request) /\ <<>> \in Seq(Assignment)
      BY EmptySeq
<1>2. PushTypeOK
      <2>1. Len(buffer) = 0 /\ Len(assigned) = 0
            BY EmptySeq
      <2>3. lateFetch \in BOOLEAN /\ heard \in BOOLEAN /\ authorized \in BOOLEAN
            BY Zenon
      <2>4. /\ channel \in 0..IngestCapacity /\ checked \in 0..(MaxChecks + MaxAssigned)
            /\ born \in 0..checked /\ issued \in 0..MaxAssigned
            /\ Len(buffer) <= BufferCapacity /\ Len(assigned) <= QueueCapacity
            BY <2>1 DEF AgentAssumption
      <2>2. budget \in Budgets
            BY DEF AgentAssumption, Budgets
      <2> QED
          BY <1>1, <2>1, <2>2, <2>3, <2>4, NoNumbers
          DEF PushTypeOK, Phase, Signal, Budgets
<1>3. Held = <<>> /\ Len(Held) = 0
      BY <1>1, HeldIs
<1>4. PhaseInv /\ HeldInv /\ AwaitedInv /\ RoomInv
      BY <1>3 DEF AgentAssumption, PhaseInv, HeldInv, AwaitedInv, RoomInv
<1>5. RequestsInv
      BY NoNumbers DEF RequestsInv
<1>6. GoneInv
      BY <1>3 DEF GoneInv
<1>7. CopiesInv
      <2>1. \A n : Copies(n) = 0
            BY <1>3, CountOfNone, NoNumbers DEF Copies, OwnCopy
      <2> QED
          BY <2>1 DEF AgentAssumption, CopiesInv
<1> QED
    BY <1>2, <1>4, <1>5, <1>6, <1>7 DEF AgentInv

\* Nothing is made, sent, dealt with or given up.
LEMMA QuietInv ==
    ASSUME AgentAssumption, AgentInv, PushTypeOK', PhaseInv', RoomInv',
           UNCHANGED <<hand, buffer, request, late, applied, handled, checked, born>>,
           phase' = "awaiting" <=> phase = "awaiting",
           phase = "ended" => phase' = "ended",
           budget'.faults <= budget.faults
    PROVE  AgentInv'
<1>1. Held' = Held
      BY DEF Held
<1>2. HeldInv' /\ RequestsInv' /\ GoneInv'
      BY <1>1 DEF AgentInv, HeldInv, RequestsInv, Carried, GoneInv
<1>3. AwaitedInv'
      BY DEF AgentInv, AwaitedInv
<1>4. CopiesInv'
      <2>1. ASSUME NEW n \in Number PROVE Copies(n)' = Copies(n)
            BY <1>1 DEF Copies, OwnCopy
      <2>2. ASSUME NEW n \in Number PROVE Copies(n) \in Nat
            BY CopiesAreNumbers DEF AgentInv, Copies
      <2>3. budget.faults \in Nat /\ budget'.faults \in Nat /\ MaxFaults \in Nat
            BY DEF AgentAssumption, AgentInv, PushTypeOK
      <2> QED
          BY <2>1, <2>2, <2>3 DEF AgentInv, CopiesInv
<1> QED
    BY <1>2, <1>3, <1>4 DEF AgentInv

\* New results in the agent's hand.
LEMMA GrowsInv ==
    ASSUME AgentAssumption, AgentInv, PushTypeOK', PhaseInv', RoomInv',
           NEW new \in Seq(Result), hand' = hand \o new,
           \A i \in DOMAIN new : new[i].number = checked + i,
           checked' = checked + Len(new),
           UNCHANGED <<buffer, born, request, late, applied, handled>>,
           phase # "awaiting", phase' # "awaiting", phase # "ended",
           budget'.faults = budget.faults
    PROVE  AgentInv'
<1>1. /\ hand \in Seq(Result) /\ buffer \in Seq(Result)
      /\ Len(new) \in Nat /\ DOMAIN new = 1..Len(new) /\ checked \in Nat /\ born \in Nat
      BY LenProperties DEF AgentInv, PushTypeOK
<1>2. Held' = Held \o new
      <2>1. (buffer \o hand) \o new = buffer \o (hand \o new)
            BY <1>1, Regroup
      <2> QED
          BY <2>1 DEF Held
<1>3. /\ Held \in Seq(Result) /\ Len(Held) \in Nat /\ DOMAIN Held = 1..Len(Held)
      /\ Held' \in Seq(Result) /\ Len(Held') = Len(Held) + Len(new)
      /\ DOMAIN Held' = 1..(Len(Held) + Len(new))
      /\ \A i \in 1..(Len(Held) + Len(new)) :
            Held'[i] = IF i <= Len(Held) THEN Held[i] ELSE new[i - Len(Held)]
      BY <1>1, <1>2, HeldIs, ConcatProperties, LenProperties
<1>4. /\ Len(Held) <= checked - born
      /\ \A i \in 1..Len(Held) : Held[i].number = checked - Len(Held) + i
      BY <1>3 DEF AgentInv, HeldInv
<1>5. checked' - Len(Held') = checked - Len(Held)
      BY <1>1, <1>3
<1>6. ASSUME NEW i \in 1..(Len(Held) + Len(new))
      PROVE  Held'[i].number = checked' - Len(Held') + i
      <2>1. CASE i <= Len(Held)
            BY <1>3, <1>4, <1>5, <2>1
      <2>2. CASE ~(i <= Len(Held))
            <3>1. i - Len(Held) \in 1..Len(new)
                  BY <1>1, <1>3, <2>2
            <3>2. Held'[i].number = checked + (i - Len(Held))
                  BY <1>1, <1>3, <2>2, <3>1
            <3> QED
                BY <1>1, <1>3, <1>5, <3>2
      <2> QED
          BY <2>1, <2>2
<1>7. HeldInv'
      BY <1>1, <1>3, <1>4, <1>6 DEF HeldInv
<1>8. GoneInv'
      <2>1. ASSUME NEW n \in (born' + 1)..(checked' - Len(Held'))
            PROVE  n \in handled' \/ checked' - n >= BufferCapacity
            <3>1. n \in handled \/ checked - n >= BufferCapacity
                  BY <1>5, <2>1 DEF AgentInv, GoneInv
            <3>2. n \in Int /\ BufferCapacity \in Nat
                  BY <1>1, <1>3 DEF AgentAssumption
            <3> QED
                BY <1>1, <3>1, <3>2
      <2> QED
          BY <2>1 DEF GoneInv
<1>9. RequestsInv'
      <2>1. ASSUME NEW r \in Request, Carried(r) PROVE Carried(r)'
            <3>1. \A i \in DOMAIN r.left : r.left[i].number \in Nat
                  BY NumbersOfResults DEF Request
            <3> QED
                BY <1>1, <2>1, <3>1 DEF Carried
      <2>2. \A i \in DOMAIN applied : applied[i].number \in Nat
            BY NumbersOfResults DEF AgentInv, PushTypeOK
      <2>3. request \in Request /\ \A i \in DOMAIN late : late[i] \in Request
            BY ElementOfSeq, LenProperties DEF AgentInv, PushTypeOK
      <2>4. Carried(request)' /\ \A i \in DOMAIN late : Carried(late[i])'
            BY <2>1, <2>3 DEF AgentInv, RequestsInv
      <2>5. \A i \in DOMAIN applied : applied[i].number <= checked'
            BY <1>1, <2>2 DEF AgentInv, RequestsInv
      <2> QED
          BY <2>4, <2>5 DEF RequestsInv
<1>10. AwaitedInv'
      BY DEF AwaitedInv
<1>11. CopiesInv'
      <2> SUFFICES ASSUME NEW n \in Number
                   PROVE  Copies(n)' <= 1 + (MaxFaults - budget'.faults)
          BY DEF CopiesInv
      <2>1. Copies(n)' = Count(applied, Numbered(n)) + Count(late, Carrying(n)) + OwnCopy(n)'
            BY DEF Copies
      <2>2. /\ OwnCopy(n)' = IF n \in (checked' - Len(Held') + 1)..checked' THEN 1 ELSE 0
            /\ OwnCopy(n) = IF n \in (checked - Len(Held) + 1)..checked THEN 1 ELSE 0
            <3>1. NumbersOf(Held) = (checked - Len(Held) + 1)..checked
                  BY HeldNumbers DEF AgentInv
            <3>2. (NumbersOf(Held) = (checked - Len(Held) + 1)..checked)'
                  <4>1. checked' \in Nat /\ \A i \in DOMAIN Held' :
                            Held'[i].number = checked' - Len(Held') + i
                        BY <1>1, <1>3, <1>6
                  <4>2. NumbersOf(Held') = (checked' - Len(Held') + 1)..checked'
                        BY <1>3, <4>1, RunOfNumbers
                  <4> QED
                      BY <4>2 DEF NumbersOf
            <3> QED
                BY <3>1, <3>2 DEF OwnCopy
      <2>3. budget.faults \in 0..MaxFaults /\ MaxFaults \in Nat /\ n \in Nat
            BY CopiesAreNumbers, NumbersAreNat DEF AgentAssumption, AgentInv
      <2>4. CASE n <= checked
            <3>1. OwnCopy(n)' = OwnCopy(n)
                  BY <1>1, <1>3, <1>5, <2>2, <2>3, <2>4
            <3> QED
                BY <2>1, <3>1 DEF AgentInv, CopiesInv, Copies
      <2>5. CASE ~(n <= checked)
            <3>1. \A i \in DOMAIN applied : applied[i] \notin Numbered(n)
                  BY <2>5 DEF AgentInv, RequestsInv, Numbered
            <3>2. \A i \in DOMAIN late : late[i] \notin Carrying(n)
                  BY <2>5 DEF AgentInv, RequestsInv, Carried, Carrying, NumbersOf
            <3>3. Count(applied, Numbered(n)) = 0 /\ Count(late, Carrying(n)) = 0
                  BY <3>1, <3>2, CountZero
            <3>4. OwnCopy(n)' \in {0, 1}
                  BY <2>2
            <3> QED
                BY <2>1, <2>3, <3>3, <3>4
      <2> QED
          BY <2>4, <2>5
<1> QED
    BY <1>7, <1>8, <1>9, <1>10, <1>11 DEF AgentInv

-----------------------------------------------------------------------------
\* What stays of a batch when its first result is dealt with.
LEMMA TailNumbers ==
    ASSUME NEW s \in Seq(Result), s # <<>>, Distinct(s)
    PROVE  /\ Head(s) \in Result /\ Tail(s) \in Seq(Result) /\ Distinct(Tail(s))
           /\ NumbersOf(s) = NumbersOf(Tail(s)) \cup {Head(s).number}
           /\ Head(s).number \notin NumbersOf(Tail(s))
           /\ \A i \in DOMAIN Tail(s) : \E j \in DOMAIN s : Tail(s)[i] = s[j]
<1>1. /\ Head(s) \in Result /\ Tail(s) \in Seq(Result) /\ Len(Tail(s)) = Len(s) - 1
      /\ \A i \in 1..Len(Tail(s)) : Tail(s)[i] = s[i + 1]
      BY HeadTailProperties
<1>2. /\ Len(s) \in Nat \ {0} /\ DOMAIN s = 1..Len(s)
      /\ DOMAIN Tail(s) = 1..(Len(s) - 1)
      BY <1>1, LenProperties, EmptySeq
<1>3. Head(s) = s[1]
      BY <1>2 DEF Head
<1> DEFINE t == Tail(s)
<1> HIDE DEF t
<1>4. \A i \in 1..(Len(s) - 1) : t[i] = s[i + 1] /\ i + 1 \in DOMAIN s
      BY <1>1, <1>2 DEF t
<1>5. \A j \in DOMAIN s : j = 1 \/ (j - 1 \in 1..(Len(s) - 1) /\ t[j - 1] = s[j])
      BY <1>2, <1>4
<1>6. DOMAIN t = 1..(Len(s) - 1) /\ 1 \in DOMAIN s
      BY <1>2 DEF t
<1>a. \A i, j \in DOMAIN s : s[i].number = s[j].number => i = j
      BY DEF Distinct
<1>7. Distinct(t)
      <2>1. ASSUME NEW i \in DOMAIN t, NEW j \in DOMAIN t, t[i].number = t[j].number
            PROVE  i = j
            <3>1. i + 1 = j + 1
                  BY <1>4, <1>6, <1>a, <2>1
            <3> QED
                BY <1>2, <1>6, <3>1
      <2> QED
          BY <2>1 DEF Distinct
<1>8. NumbersOf(s) = NumbersOf(t) \cup {s[1].number}
      BY <1>4, <1>5, <1>6 DEF NumbersOf
<1>9. s[1].number \notin NumbersOf(t)
      <2>1. \A i \in DOMAIN t : t[i].number # s[1].number
            <3> SUFFICES ASSUME NEW i \in DOMAIN t PROVE s[i + 1].number # s[1].number
                BY <1>4, <1>6
            <3>1. i + 1 \in DOMAIN s /\ i + 1 # 1
                  BY <1>2, <1>4, <1>6
            <3> QED
                BY <1>6, <1>a, <3>1
      <2> QED
          BY <2>1 DEF NumbersOf
<1> QED
    BY <1>1, <1>3, <1>4, <1>6, <1>7, <1>8, <1>9 DEF t

\* Is the result numbered n in this request?
In(n, r) == IF n \in NumbersOf(r.left) THEN 1 ELSE 0

\* One step of a handler: what it takes from its request goes at most once to the channel.
LEMMA HandlerStep ==
    ASSUME AgentAssumption, AgentInv, NEW r \in Request, Carried(r), Begins(r) \/ Hands(r)
    PROVE  LET next == HandledOne(r)
           IN  /\ next \in Request /\ Carried(next) /\ next.begun = TRUE
               /\ NumbersOf(r.left) \subseteq handled' \cup NumbersOf(next.left)
               /\ handled \subseteq handled' /\ handled' \subseteq Number
               /\ channel' \in 0..IngestCapacity /\ heard' \in BOOLEAN
               /\ applied' \in Seq(Result) /\ budget' \in Budgets
               /\ budget'.faults <= budget.faults /\ budget'.checks = budget.checks
               /\ \A i \in DOMAIN applied' : applied'[i].number <= checked
               /\ \A n : /\ In(n, next) <= In(n, r)
                         /\ Count(applied', Numbered(n)) + In(n, next)
                            <= Count(applied, Numbered(n)) + In(n, r)
<1> DEFINE next == HandledOne(r)
<1>1. /\ r.left \in Seq(Result) /\ r.begun \in BOOLEAN /\ Distinct(r.left)
      /\ \A i \in DOMAIN r.left : r.left[i].number <= checked
      /\ handled \subseteq Number /\ channel \in 0..IngestCapacity /\ heard \in BOOLEAN
      /\ applied \in Seq(Result) /\ budget \in Budgets /\ IngestCapacity \in Nat
      /\ budget.faults \in Nat /\ checked \in Nat
      /\ \A i \in DOMAIN applied : applied[i].number <= checked
      BY DEF AgentAssumption, AgentInv, PushTypeOK, Request, Carried, RequestsInv, Budgets
<1>2. \A n : Count(applied, Numbered(n)) \in Nat
      BY <1>1, CountIsANumber
<1>3. CASE Begins(r)
      <2>1. /\ next \in Request /\ next.begun = TRUE /\ next.left = r.left
            BY <1>1, <1>3 DEF Begins, HandledOne, Request
      <2>2. UNCHANGED <<channel, handled, applied, budget>> /\ heard' = TRUE
            BY <1>3 DEF Begins
      <2> HIDE DEF next
      <2>3. Carried(next) /\ \A n : In(n, next) = In(n, r)
            BY <1>1, <2>1 DEF Carried, In
      <2>4. NumbersOf(r.left) = NumbersOf(next.left)
            BY <2>1
      <2>5. \A n : In(n, r) \in Nat
            BY DEF In
      <2> QED
          BY <1>1, <1>2, <2>1, <2>2, <2>3, <2>4, <2>5 DEF next
<1>4. CASE Hands(r)
      <2> DEFINE first == Head(r.left)
                 h     == first.number
      <2>1. r.begun /\ r.left # <<>> /\ handled' = handled \cup {h} /\ heard' = heard
            BY <1>4 DEF Hands
      <2>2. next = [r EXCEPT !.left = Tail(r.left)]
            BY <2>1 DEF HandledOne
      <2>3. /\ first \in Result /\ Tail(r.left) \in Seq(Result) /\ Distinct(Tail(r.left))
            /\ NumbersOf(r.left) = NumbersOf(Tail(r.left)) \cup {h}
            /\ h \notin NumbersOf(Tail(r.left))
            /\ \A i \in DOMAIN Tail(r.left) : \E j \in DOMAIN r.left :
                  Tail(r.left)[i] = r.left[j]
            BY <1>1, <2>1, TailNumbers
      <2>4. next \in Request /\ next.left = Tail(r.left) /\ next.begun = TRUE
            BY <1>1, <2>1, <2>2, <2>3 DEF Request
      <2>5. h \in Number /\ h \in Nat /\ h <= checked
            <3>1. h \in Number /\ h \in Nat
                  BY <2>3, NumbersAreNat DEF Result
            <3>2. first = r.left[1] /\ 1 \in DOMAIN r.left
                  BY <1>1, <2>1, LenProperties, EmptySeq DEF Head
            <3> QED
                BY <1>1, <3>1, <3>2
      <2> HIDE DEF next, h
      <2>6. Carried(next)
            BY <1>1, <2>3, <2>4 DEF Carried
      <2>7. \/ applied' = applied /\ channel' = channel
            \/ applied' = Append(applied, first) /\ channel' = channel + 1
                                                 /\ channel < IngestCapacity
            BY <1>4 DEF Hands, SubmitPushed
      <2>8. channel' \in 0..IngestCapacity
            BY <1>1, <2>7
      <2>9. budget' = budget \/ Fault
            BY <1>4 DEF Hands
      <2>10. /\ budget' \in Budgets /\ budget'.checks = budget.checks
             /\ budget'.faults <= budget.faults
            BY <1>1, <2>9, BudgetSteps
      <2>11. /\ applied' \in Seq(Result)
             /\ \A i \in DOMAIN applied' : applied'[i].number <= checked
             /\ \A n : Count(applied', Numbered(n)) <= Count(applied, Numbered(n))
                                                       + (IF n = h THEN 1 ELSE 0)
            <3>1. CASE applied' = applied
                  BY <1>1, <1>2, <3>1
            <3>2. CASE applied' = Append(applied, first)
                  <4>1. /\ applied' \in Seq(Result)
                        /\ DOMAIN applied' = 1..(Len(applied) + 1) /\ Len(applied) \in Nat
                        /\ DOMAIN applied = 1..Len(applied)
                        /\ \A i \in 1..Len(applied) : applied'[i] = applied[i]
                        /\ applied'[Len(applied) + 1] = first
                        BY <1>1, <2>3, <3>2, AppendProperties, LenProperties
                  <4>2. \A i \in DOMAIN applied' : applied'[i].number <= checked
                        BY <1>1, <2>5, <4>1 DEF h
                  <4>3. ASSUME NEW n
                        PROVE  Count(applied', Numbered(n))
                               = Count(applied, Numbered(n))
                                 + (IF first \in Numbered(n) THEN 1 ELSE 0)
                        BY <1>1, <2>3, <3>2, CountAppend
                  <4>4. ASSUME NEW n PROVE first \in Numbered(n) => n = h
                        BY DEF Numbered, h
                  <4> QED
                      BY <1>2, <4>1, <4>2, <4>3, <4>4
            <3> QED
                BY <2>7, <3>1, <3>2
      <2>12. ASSUME NEW n
             PROVE  /\ In(n, next) \in {0, 1} /\ In(n, r) \in {0, 1}
                    /\ In(n, next) + (IF n = h THEN 1 ELSE 0) = In(n, r)
            BY <2>3, <2>4 DEF In, h
      <2>13. \A n : Count(applied', Numbered(n)) \in Nat
            BY <2>11, CountIsANumber
      <2>14. ASSUME NEW n
             PROVE  /\ In(n, next) <= In(n, r)
                    /\ Count(applied', Numbered(n)) + In(n, next)
                       <= Count(applied, Numbered(n)) + In(n, r)
            <3>1. /\ Count(applied, Numbered(n)) \in Nat /\ Count(applied', Numbered(n)) \in Nat
                  /\ Count(applied', Numbered(n)) <= Count(applied, Numbered(n))
                                                     + (IF n = h THEN 1 ELSE 0)
                  BY <1>2, <2>11, <2>13
            <3> QED
                BY <2>12, <3>1
      <2>15. /\ NumbersOf(r.left) \subseteq handled' \cup NumbersOf(next.left)
             /\ handled \subseteq handled' /\ handled' \subseteq Number
            BY <1>1, <2>1, <2>3, <2>4, <2>5 DEF h
      <2>16. heard' \in BOOLEAN
            BY <1>1, <2>1, Zenon
      <2> QED
          BY <2>4, <2>6, <2>8, <2>10, <2>11, <2>14, <2>15, <2>16 DEF next
<1> QED
    BY <1>3, <1>4

-----------------------------------------------------------------------------
\* The handlers.
LEMMA ServeInv == ASSUME AgentAssumption, AgentInv, Serve PROVE AgentInv'
<1> DEFINE next == HandledOne(request)
<1>1. /\ request \in Request /\ Carried(request) /\ phase = "awaiting"
      /\ Begins(request) \/ Hands(request)
      BY DEF Serve, AgentInv, PushTypeOK, RequestsInv
<1>2. UNCHANGED <<agentVars, late, queueVars, adminVars>> /\ request' = next
      BY DEF Serve
<1> HIDE DEF next
<1>3. /\ next \in Request /\ Carried(next) /\ next.begun = TRUE
      /\ NumbersOf(request.left) \subseteq handled' \cup NumbersOf(next.left)
      /\ handled \subseteq handled' /\ handled' \subseteq Number
      /\ channel' \in 0..IngestCapacity /\ heard' \in BOOLEAN
      /\ applied' \in Seq(Result) /\ budget' \in Budgets
      /\ budget'.faults <= budget.faults /\ budget'.checks = budget.checks
      /\ \A i \in DOMAIN applied' : applied'[i].number <= checked
      /\ \A n : Count(applied', Numbered(n)) + In(n, next)
                <= Count(applied, Numbered(n)) + In(n, request)
      BY <1>1, HandlerStep DEF next
<1> USE DEF agentVars, queueVars, adminVars
<1>4. PushTypeOK'
      BY <1>2, <1>3 DEF AgentInv, PushTypeOK, Budgets
<1>5. Held' = Held
      BY <1>2 DEF Held
<1>6. PhaseInv' /\ HeldInv' /\ RoomInv'
      BY <1>2, <1>3, <1>5 DEF AgentInv, PhaseInv, HeldInv, RoomInv
<1>7. RequestsInv'
      BY <1>2, <1>3 DEF AgentInv, RequestsInv, Carried
<1>8. AwaitedInv'
      BY <1>1, <1>2, <1>3 DEF AgentInv, AwaitedInv
<1>9. GoneInv'
      BY <1>2, <1>3, <1>5 DEF AgentInv, GoneInv
<1>10. ASSUME NEW n \in Number PROVE Copies(n)' <= 1 + (MaxFaults - budget'.faults)
      <2>1. OwnCopy(n) = In(n, request) /\ OwnCopy(n)' = In(n, next)
            BY <1>1, <1>2 DEF OwnCopy, In
      <2>2. Count(late, Carrying(n))' = Count(late, Carrying(n))
            BY <1>2
      <2>3. /\ Count(applied, Numbered(n))' = Count(applied', Numbered(n))
            /\ Count(applied', Numbered(n)) \in Nat
            BY <1>3, CountIsANumber
      <2>4. /\ Count(applied, Numbered(n)) \in Nat /\ Count(late, Carrying(n)) \in Nat
            /\ OwnCopy(n) \in {0, 1} /\ budget.faults \in Nat /\ MaxFaults \in Nat
            BY CopiesAreNumbers DEF AgentAssumption, AgentInv
      <2>5. budget'.faults \in Nat /\ OwnCopy(n)' \in {0, 1}
            BY <1>3, <2>1 DEF Budgets, In
      <2>6. Copies(n) <= 1 + (MaxFaults - budget.faults)
            BY DEF AgentInv, CopiesInv
      <2>7. Count(applied', Numbered(n)) + OwnCopy(n)'
               <= Count(applied, Numbered(n)) + OwnCopy(n)
            BY <1>3, <2>1
      <2>8. budget'.faults <= budget.faults
            BY <1>3
      <2> QED
          BY <2>2, <2>3, <2>4, <2>5, <2>6, <2>7, <2>8 DEF Copies
<1> QED
    BY <1>4, <1>6, <1>7, <1>8, <1>9, <1>10 DEF AgentInv, CopiesInv

\* Nothing but requests nobody awaits, and what their handlers touch.
LateStep ==
    /\ UNCHANGED <<agentVars, request, queueVars, adminVars>>
    /\ late' \in Seq(Request) /\ \A i \in DOMAIN late' : Carried(late'[i])
    /\ handled \subseteq handled' /\ handled' \subseteq Number
    /\ channel' \in 0..IngestCapacity /\ heard' \in BOOLEAN
    /\ applied' \in Seq(Result) /\ budget' \in Budgets
    /\ budget'.faults <= budget.faults /\ budget'.checks = budget.checks
    /\ \A i \in DOMAIN applied' : applied'[i].number <= checked
    /\ \A n \in Number : Count(applied', Numbered(n)) + Count(late', Carrying(n))
                          <= Count(applied, Numbered(n)) + Count(late, Carrying(n))

LEMMA LateInv == ASSUME AgentAssumption, AgentInv, LateStep PROVE AgentInv'
<1>u. UNCHANGED <<phase, hand, buffer, signal, checked, born, request, lateFetch, assigned,
                  issued, authorized, owned>>
      BY DEF LateStep, agentVars, queueVars, adminVars
<1>1. PushTypeOK'
      BY <1>u DEF LateStep, AgentInv, PushTypeOK, Budgets
<1>2. Held' = Held
      BY <1>u DEF Held
<1>3. PhaseInv' /\ HeldInv' /\ RoomInv'
      BY <1>u, <1>2 DEF LateStep, AgentInv, PhaseInv, HeldInv, RoomInv
<1>4. RequestsInv'
      <2>1. Carried(request)' /\ \A i \in DOMAIN late' : Carried(late[i])'
            BY <1>u DEF LateStep, AgentInv, RequestsInv, Carried
      <2> QED
          BY <1>u, <2>1 DEF LateStep, RequestsInv
<1>5. AwaitedInv'
      BY <1>u DEF LateStep, AgentInv, AwaitedInv
<1>6. GoneInv'
      BY <1>u, <1>2 DEF LateStep, AgentInv, GoneInv
<1>7. ASSUME NEW n \in Number PROVE Copies(n)' <= 1 + (MaxFaults - budget'.faults)
      <2>1. OwnCopy(n)' = OwnCopy(n)
            BY <1>u, <1>2 DEF OwnCopy
      <2>2. Count(applied', Numbered(n)) \in Nat /\ Count(late', Carrying(n)) \in Nat
            BY CountIsANumber DEF LateStep
      <2>3. /\ Count(applied, Numbered(n)) \in Nat /\ Count(late, Carrying(n)) \in Nat
            /\ OwnCopy(n) \in {0, 1}
            BY CopiesAreNumbers DEF AgentInv
      <2>4. budget.faults \in Nat /\ MaxFaults \in Nat /\ budget'.faults \in Nat
            BY DEF AgentAssumption, AgentInv, PushTypeOK, Budgets, LateStep
      <2>5. /\ Count(applied', Numbered(n)) + Count(late', Carrying(n))
               <= Count(applied, Numbered(n)) + Count(late, Carrying(n))
            /\ budget'.faults <= budget.faults
            BY DEF LateStep
      <2>6. Count(applied, Numbered(n)) + Count(late, Carrying(n)) + OwnCopy(n)
            <= 1 + (MaxFaults - budget.faults)
            BY DEF AgentInv, CopiesInv, Copies
      <2>7. Copies(n)' = Count(applied', Numbered(n)) + Count(late', Carrying(n)) + OwnCopy(n)'
            BY DEF Copies
      <2>8. Count(applied', Numbered(n)) + Count(late', Carrying(n)) + OwnCopy(n)
            <= 1 + (MaxFaults - budget'.faults)
            BY <2>2, <2>3, <2>4, <2>5, <2>6
      <2> QED
          BY <2>1, <2>7, <2>8, Zenon
<1> QED
    BY <1>1, <1>3, <1>4, <1>5, <1>6, <1>7 DEF AgentInv, CopiesInv

LEMMA LateAreCarried ==
    ASSUME AgentInv
    PROVE  /\ late \in Seq(Request)
           /\ \A i \in DOMAIN late : late[i] \in Request /\ Carried(late[i])
<1>1. late \in Seq(Request) /\ \A i \in DOMAIN late : Carried(late[i])
      BY DEF AgentInv, PushTypeOK, RequestsInv
<1> QED
    BY <1>1, ElementOfSeq, LenProperties

LEMMA ServeLateInv == ASSUME AgentAssumption, AgentInv, ServeLate PROVE AgentInv'
<1>1. PICK i \in DOMAIN late : /\ Begins(late[i]) \/ Hands(late[i])
                               /\ late' = [late EXCEPT ![i] = HandledOne(late[i])]
      BY DEF ServeLate
<1> DEFINE next == HandledOne(late[i])
<1>2. /\ late \in Seq(Request) /\ late[i] \in Request
      /\ \A j \in DOMAIN late : Carried(late[j])
      BY LateAreCarried
<1>3. /\ next \in Request /\ Carried(next)
      /\ handled \subseteq handled' /\ handled' \subseteq Number
      /\ channel' \in 0..IngestCapacity /\ heard' \in BOOLEAN
      /\ applied' \in Seq(Result) /\ budget' \in Budgets
      /\ budget'.faults <= budget.faults /\ budget'.checks = budget.checks
      /\ \A j \in DOMAIN applied' : applied'[j].number <= checked
      /\ \A n : /\ In(n, next) <= In(n, late[i])
                /\ Count(applied', Numbered(n)) + In(n, next)
                   <= Count(applied, Numbered(n)) + In(n, late[i])
      BY <1>1, <1>2, HandlerStep
<1> HIDE DEF next
<1>4. UNCHANGED <<agentVars, request, queueVars, adminVars>>
      BY DEF ServeLate
<1>5. late' = [late EXCEPT ![i] = next]
      BY <1>1 DEF next
<1>6. /\ late' \in Seq(Request) /\ DOMAIN late' = DOMAIN late
      /\ \A j \in DOMAIN late : late'[j] = IF j = i THEN next ELSE late[j]
      BY <1>2, <1>3, <1>5, ExceptSeq, LenProperties
<1>7. \A j \in DOMAIN late' : Carried(late'[j])
      BY <1>2, <1>3, <1>6
<1>8. ASSUME NEW n \in Number
      PROVE  Count(applied', Numbered(n)) + Count(late', Carrying(n))
             <= Count(applied, Numbered(n)) + Count(late, Carrying(n))
      <2>1. /\ Count(applied', Numbered(n)) \in Nat /\ Count(late', Carrying(n)) \in Nat
            /\ Count(applied, Numbered(n)) \in Nat /\ Count(late, Carrying(n)) \in Nat
            BY <1>3, <1>6, CountIsANumber, CopiesAreNumbers DEF AgentInv
      <2>2. /\ In(n, next) = IF next \in Carrying(n) THEN 1 ELSE 0
            /\ In(n, late[i]) = IF late[i] \in Carrying(n) THEN 1 ELSE 0
            BY <1>2, <1>3 DEF In, Carrying
      <2>3. /\ (next \in Carrying(n) => late[i] \in Carrying(n))
               => Count(late', Carrying(n)) <= Count(late, Carrying(n))
            /\ (next \notin Carrying(n) /\ late[i] \in Carrying(n))
               => Count(late', Carrying(n)) = Count(late, Carrying(n)) - 1
            <3>1. late \in Seq(Request) /\ i \in DOMAIN late /\ next \in Request
                  BY <1>2, <1>3
            <3> DEFINE replaced == [late EXCEPT ![i] = next]
            <3>2. /\ (next \in Carrying(n) => late[i] \in Carrying(n))
                     => Count(replaced, Carrying(n)) <= Count(late, Carrying(n))
                  /\ (next \notin Carrying(n) /\ late[i] \in Carrying(n))
                     => Count(replaced, Carrying(n)) = Count(late, Carrying(n)) - 1
                  BY <3>1, CountExcept
            <3> QED
                BY <1>5, <3>2, Zenon
      <2>4. /\ In(n, next) <= In(n, late[i])
            /\ Count(applied', Numbered(n)) + In(n, next)
               <= Count(applied, Numbered(n)) + In(n, late[i])
            BY <1>3
      <2> QED
          BY <2>1, <2>2, <2>3, <2>4
<1> QED
    BY <1>3, <1>4, <1>6, <1>7, <1>8, LateInv DEF LateStep

LEMMA LateEndsInv == ASSUME AgentAssumption, AgentInv, LateEnds PROVE AgentInv'
<1>1. PICK i \in DOMAIN late : late' = RemoveAt(late, i)
      BY DEF LateEnds
<1>2. UNCHANGED <<agentVars, request, channel, heard, handled, applied, queueVars,
                  adminVars, budget>>
      BY DEF LateEnds
<1>3. late \in Seq(Request) /\ \A j \in DOMAIN late : Carried(late[j])
      BY LateAreCarried
<1>4. /\ late' \in Seq(Request) /\ DOMAIN late' = 1..(Len(late) - 1)
      /\ \A j \in 1..(Len(late) - 1) : late'[j] = IF j < i THEN late[j] ELSE late[j + 1]
      BY <1>1, <1>3, RemoveIs
<1>5. Len(late) \in Nat /\ DOMAIN late = 1..Len(late) /\ i \in 1..Len(late)
      BY <1>3, LenProperties
<1>6. \A j \in DOMAIN late' : Carried(late'[j])
      BY <1>3, <1>4, <1>5
<1>7. ASSUME NEW n \in Number
      PROVE  Count(applied', Numbered(n)) + Count(late', Carrying(n))
             <= Count(applied, Numbered(n)) + Count(late, Carrying(n))
      <2>1. /\ Count(late', Carrying(n)) \in Nat /\ applied' = applied
            /\ Count(applied, Numbered(n)) \in Nat /\ Count(late, Carrying(n)) \in Nat
            BY <1>2, <1>4, CountIsANumber, CopiesAreNumbers DEF AgentInv
      <2>2. Count(late', Carrying(n)) <= Count(late, Carrying(n))
            BY <1>1, <1>3, CountRemove
      <2> QED
          BY <2>1, <2>2
<1>8. /\ handled' \subseteq Number /\ channel' \in 0..IngestCapacity /\ heard' \in BOOLEAN
      /\ applied' \in Seq(Result) /\ budget' \in Budgets
      /\ budget.faults \in Nat
      /\ \A j \in DOMAIN applied' : applied'[j].number <= checked
      BY <1>2 DEF AgentInv, PushTypeOK, Budgets, RequestsInv
<1>9. budget' = budget /\ handled' = handled /\ budget'.faults <= budget.faults
      BY <1>2, <1>8
<1> QED
    BY <1>2, <1>4, <1>6, <1>7, <1>8, <1>9, LateInv DEF LateStep

-----------------------------------------------------------------------------
\* The agent's own steps.

\* A fault may add a copy; nothing else does.
LEMMA FewerCopies ==
    ASSUME AgentAssumption, AgentInv, NEW n \in Number, NEW spent \in Nat,
           applied' = applied, budget' \in Budgets, budget'.faults = budget.faults - spent,
           Count(late', Carrying(n)) \in Nat,
           Count(late', Carrying(n)) + OwnCopy(n)'
           <= Count(late, Carrying(n)) + OwnCopy(n) + spent
    PROVE  Copies(n)' <= 1 + (MaxFaults - budget'.faults)
<1>1. /\ Count(applied, Numbered(n)) \in Nat /\ Count(late, Carrying(n)) \in Nat
      /\ OwnCopy(n) \in {0, 1}
      BY CopiesAreNumbers DEF AgentInv
<1>2. OwnCopy(n)' \in {0, 1}
      BY DEF OwnCopy
<1>3. budget.faults \in Nat /\ MaxFaults \in Nat /\ budget'.faults \in Nat
      BY DEF AgentAssumption, AgentInv, PushTypeOK, Budgets
<1>4. Count(applied, Numbered(n)) + Count(late, Carrying(n)) + OwnCopy(n)
      <= 1 + (MaxFaults - budget.faults)
      BY DEF AgentInv, CopiesInv, Copies
<1>5. Copies(n)' = Count(applied, Numbered(n)) + Count(late', Carrying(n)) + OwnCopy(n)'
      BY DEF Copies
<1>6. Count(applied, Numbered(n)) + Count(late', Carrying(n)) + OwnCopy(n)'
      <= 1 + (MaxFaults - budget'.faults)
      BY <1>1, <1>2, <1>3, <1>4
<1> QED
    BY <1>5, <1>6, Zenon

\* A request is let go.
LEMMA LetGo ==
    ASSUME AgentInv
    PROVE  /\ Append(late, request) \in Seq(Request)
           /\ \A i \in DOMAIN Append(late, request) : Carried(Append(late, request)[i])
           /\ \A n : /\ Count(Append(late, request), Carrying(n)) \in Nat
                     /\ Count(Append(late, request), Carrying(n))
                        = Count(late, Carrying(n)) + In(n, request)
<1>1. /\ late \in Seq(Request) /\ request \in Request /\ Carried(request)
      /\ \A i \in DOMAIN late : Carried(late[i])
      BY DEF AgentInv, PushTypeOK, RequestsInv
<1>2. /\ Append(late, request) \in Seq(Request)
      /\ Len(late) \in Nat /\ DOMAIN late = 1..Len(late)
      /\ DOMAIN Append(late, request) = 1..(Len(late) + 1)
      /\ \A i \in 1..Len(late) : Append(late, request)[i] = late[i]
      /\ Append(late, request)[Len(late) + 1] = request
      BY <1>1, AppendProperties, LenProperties
<1>3. \A i \in DOMAIN Append(late, request) : Carried(Append(late, request)[i])
      <2>1. ASSUME NEW i \in 1..(Len(late) + 1) PROVE i \in 1..Len(late) \/ i = Len(late) + 1
            BY <1>2
      <2> QED
          BY <1>1, <1>2, <2>1
<1>4. ASSUME NEW n
      PROVE  /\ Count(Append(late, request), Carrying(n)) \in Nat
             /\ Count(Append(late, request), Carrying(n))
                = Count(late, Carrying(n)) + In(n, request)
      <2>1. Count(Append(late, request), Carrying(n))
            = Count(late, Carrying(n)) + (IF request \in Carrying(n) THEN 1 ELSE 0)
            BY <1>1, CountAppend
      <2>2. In(n, request) = IF request \in Carrying(n) THEN 1 ELSE 0
            BY <1>1 DEF In, Carrying
      <2> QED
          BY <1>2, <2>1, <2>2, CountIsANumber
<1> QED
    BY <1>2, <1>3, <1>4

\* The push has failed and the newest of its batch are kept.
LEMMA BufferedInv ==
    ASSUME AgentAssumption, AgentInv, phase = "awaiting", Buffered,
           UNCHANGED <<checked, born, handled>>
    PROVE  /\ phase' \in {"sleeping", "ended"} /\ signal' \in Signal
           /\ hand' = <<>> /\ hand' \in Seq(Result) /\ request' = NoRequest
           /\ buffer' \in Seq(Result) /\ Len(buffer') <= BufferCapacity
           /\ PhaseInv' /\ HeldInv' /\ AwaitedInv' /\ GoneInv'
           /\ NumbersOf(Held') \subseteq NumbersOf(hand)
<1>1. /\ phase' \in {"sleeping", "ended"} /\ signal' \in Signal
      /\ hand' = <<>> /\ request' = NoRequest /\ buffer' = PushedBack(hand)
      BY DEF Buffered, CycleEnds, AgentInv, PushTypeOK, Signal
<1>2. /\ hand \in Seq(Result) /\ buffer \in Seq(Result) /\ buffer = <<>>
      /\ checked \in Nat /\ born \in Nat /\ BufferCapacity \in Nat
      BY DEF AgentAssumption, AgentInv, PushTypeOK, PhaseInv
<1>3. /\ buffer' \in Seq(Result) /\ Len(buffer') \in Nat /\ Len(buffer') <= BufferCapacity
      /\ Len(buffer') <= Len(hand)
      /\ Len(buffer') < Len(hand) => Len(buffer') = BufferCapacity
      /\ \A i \in DOMAIN buffer' : buffer'[i] = hand[Len(hand) - Len(buffer') + i]
      BY <1>1, <1>2, PushedBackIs
<1>4. hand' \in Seq(Result)
      BY <1>1, EmptySeq
<1>5. Held' = buffer'
      BY <1>1, <1>3, ConcatEmptySeq DEF Held
<1>6. Held = hand /\ Len(hand) \in Nat /\ DOMAIN hand = 1..Len(hand)
      BY <1>2, HeldIs
<1>7. /\ Len(hand) <= checked - born
      /\ \A i \in 1..Len(hand) : hand[i].number = checked - Len(hand) + i
      BY <1>6 DEF AgentInv, HeldInv
<1>8. DOMAIN buffer' = 1..Len(buffer')
      BY <1>3, LenProperties
<1>9. ASSUME NEW i \in 1..Len(buffer')
      PROVE  /\ Len(hand) - Len(buffer') + i \in 1..Len(hand)
             /\ buffer'[i].number = checked - Len(buffer') + i
      <2>1. Len(hand) - Len(buffer') + i \in 1..Len(hand)
            BY <1>3, <1>6
      <2>2. buffer'[i].number = checked - Len(hand) + (Len(hand) - Len(buffer') + i)
            BY <1>3, <1>7, <1>8, <2>1
      <2> QED
          BY <1>2, <1>3, <1>6, <2>1, <2>2
<1>10. HeldInv'
      <2>1. Len(Held') <= checked' - born'
            BY <1>2, <1>3, <1>5, <1>6, <1>7
      <2>2. \A i \in DOMAIN Held' : Held'[i].number = checked' - Len(Held') + i
            BY <1>5, <1>8, <1>9
      <2> QED
          BY <2>1, <2>2 DEF HeldInv
<1>11. GoneInv'
      <2>1. ASSUME NEW n \in (born + 1)..(checked - Len(buffer'))
            PROVE  n \in handled \/ checked - n >= BufferCapacity
            <3>1. CASE n <= checked - Len(hand)
                  <4>1. n \in (born + 1)..(checked - Len(Held))
                        BY <1>2, <1>6, <3>1
                  <4> QED
                      BY <4>1 DEF AgentInv, GoneInv
            <3>2. CASE ~(n <= checked - Len(hand))
                  BY <1>2, <1>3, <1>6, <3>2
            <3> QED
                BY <3>1, <3>2
      <2> QED
          BY <1>5, <2>1 DEF GoneInv
<1>12. PhaseInv' /\ AwaitedInv'
      BY <1>1 DEF PhaseInv, AwaitedInv
<1>13. NumbersOf(Held') \subseteq NumbersOf(hand)
      BY <1>3, <1>5, <1>6, <1>8, <1>9 DEF NumbersOf
<1> QED
    BY <1>1, <1>3, <1>4, <1>10, <1>11, <1>12, <1>13

LEMMA PushFailsInv == ASSUME AgentAssumption, AgentInv, PushFails PROVE AgentInv'
<1>1. /\ phase = "awaiting" /\ Buffered
      /\ UNCHANGED <<checked, born, channel, heard, handled, applied, lateFetch, assigned,
                     issued, authorized, owned>>
      BY DEF PushFails, queueVars, adminVars
<1>2. /\ phase' \in {"sleeping", "ended"} /\ signal' \in Signal
      /\ hand' = <<>> /\ hand' \in Seq(Result) /\ request' = NoRequest
      /\ buffer' \in Seq(Result) /\ Len(buffer') <= BufferCapacity
      /\ PhaseInv' /\ HeldInv' /\ AwaitedInv' /\ GoneInv'
      /\ NumbersOf(Held') \subseteq NumbersOf(hand)
      BY <1>1, BufferedInv
<1>3. \/ ~request.begun /\ UNCHANGED <<late, budget>>
      \/ Fault /\ late' \in {late, Append(late, request)}
      BY DEF PushFails
<1>4. budget \in Budgets /\ budget.faults \in Nat /\ late \in Seq(Request)
      BY DEF AgentInv, PushTypeOK, Budgets
<1>5. /\ late' \in {late, Append(late, request)} /\ budget' \in Budgets
      /\ budget'.checks = budget.checks
      BY <1>3, <1>4, BudgetSteps
<1>6. late' \in Seq(Request) /\ \A i \in DOMAIN late' : Carried(late'[i])
      BY <1>5, LetGo, LateAreCarried
<1>7. PushTypeOK'
      BY <1>1, <1>2, <1>5, <1>6, NoNumbers DEF AgentInv, PushTypeOK, Phase, Budgets
<1>8. RoomInv'
      BY <1>1, <1>5 DEF AgentInv, RoomInv
<1>9. RequestsInv'
      <2>1. \A i \in DOMAIN late' : Carried(late[i])'
            BY <1>1, <1>6 DEF Carried
      <2>2. Carried(request)'
            <3>1. request'.left = <<>>
                  BY <1>2 DEF NoRequest, Pushed
            <3> QED
                BY <3>1 DEF Carried, Distinct
      <2> QED
          BY <1>1, <2>1, <2>2 DEF AgentInv, RequestsInv
<1>10. CopiesInv'
      <2> SUFFICES ASSUME NEW n \in Number
                   PROVE  Copies(n)' <= 1 + (MaxFaults - budget'.faults)
          BY DEF CopiesInv
      <2>1. /\ OwnCopy(n) = In(n, request)
            /\ OwnCopy(n)' = IF n \in NumbersOf(Held') THEN 1 ELSE 0
            BY <1>1, <1>2 DEF OwnCopy, In
      <2>2. Count(late, Carrying(n)) \in Nat
            BY CopiesAreNumbers DEF AgentInv
      <2>3. CASE ~request.begun /\ UNCHANGED <<late, budget>>
            <3>1. request.left = hand
                  BY <1>1, <2>3 DEF AgentInv, AwaitedInv
            <3>2. OwnCopy(n)' <= OwnCopy(n)
                  BY <1>2, <2>1, <3>1 DEF In
            <3>3. /\ OwnCopy(n) \in {0, 1} /\ OwnCopy(n)' \in {0, 1}
                  /\ Count(late', Carrying(n)) = Count(late, Carrying(n))
                  BY <2>1, <2>3 DEF In
            <3>4. /\ Count(late', Carrying(n)) \in Nat
                  /\ Count(late', Carrying(n)) + OwnCopy(n)'
                     <= Count(late, Carrying(n)) + OwnCopy(n) + 0
                  BY <2>2, <3>2, <3>3
            <3>5. budget'.faults = budget.faults - 0
                  BY <1>4, <2>3
            <3> QED
                BY <1>1, <1>5, <3>4, <3>5, FewerCopies
      <2>4. CASE Fault /\ late' \in {late, Append(late, request)}
            <3>1. \/ Count(late', Carrying(n)) = Count(late, Carrying(n))
                  \/ Count(late', Carrying(n)) = Count(late, Carrying(n)) + OwnCopy(n)
                  BY <2>1, <2>4, LetGo
            <3>2. OwnCopy(n) \in {0, 1} /\ OwnCopy(n)' \in {0, 1}
                  BY <2>1 DEF In
            <3>3. /\ Count(late', Carrying(n)) \in Nat
                  /\ Count(late', Carrying(n)) + OwnCopy(n)'
                     <= Count(late, Carrying(n)) + OwnCopy(n) + 1
                  BY <2>2, <3>1, <3>2
            <3>4. budget'.faults = budget.faults - 1
                  BY <1>4, <2>4, BudgetSteps
            <3> QED
                BY <1>1, <1>5, <3>3, <3>4, FewerCopies
      <2> QED
          BY <1>3, <2>3, <2>4
<1> QED
    BY <1>2, <1>7, <1>8, <1>9, <1>10 DEF AgentInv

LEMMA DaemonRestartsInv == ASSUME AgentAssumption, AgentInv, DaemonRestarts PROVE AgentInv'
<1>1. /\ Fault /\ late' = <<>> /\ channel' = 0 /\ applied' = <<>>
      /\ assigned' = <<>> /\ lateFetch' = FALSE
      /\ UNCHANGED <<checked, born, heard, handled, issued, authorized, owned>>
      BY DEF DaemonRestarts, adminVars
<1>2. budget \in Budgets /\ budget.faults \in Nat /\ budget.checks \in Nat
      BY DEF AgentInv, PushTypeOK, Budgets
<1>3. /\ budget' \in Budgets /\ budget'.faults = budget.faults - 1
      /\ budget'.checks = budget.checks
      BY <1>1, <1>2, BudgetSteps
<1>4. /\ late' \in Seq(Request) /\ applied' \in Seq(Result)
      /\ assigned' \in Seq(Assignment) /\ Len(assigned') = 0
      BY <1>1, EmptySeq
<1>5. lateFetch' \in BOOLEAN
      BY <1>1, Zenon
<1>6. channel' \in 0..IngestCapacity /\ Len(assigned') <= QueueCapacity
      BY <1>1, <1>4 DEF AgentAssumption
<1>7. /\ phase' \in Phase /\ signal' \in Signal /\ hand' \in Seq(Result)
      /\ buffer' \in Seq(Result) /\ Len(buffer') <= BufferCapacity /\ request' \in Request
      /\ PhaseInv' /\ HeldInv' /\ AwaitedInv' /\ GoneInv' /\ Carried(request)'
      /\ phase' # "awaiting"
      <2>1. CASE phase = "awaiting"
            <3>1. Buffered
                  BY <2>1 DEF DaemonRestarts
            <3>2. /\ phase' \in {"sleeping", "ended"} /\ signal' \in Signal
                  /\ hand' \in Seq(Result) /\ request' = NoRequest
                  /\ buffer' \in Seq(Result) /\ Len(buffer') <= BufferCapacity
                  /\ PhaseInv' /\ HeldInv' /\ AwaitedInv' /\ GoneInv'
                  BY <1>1, <2>1, <3>1, BufferedInv
            <3>3. Carried(request)'
                  <4>1. request'.left = <<>>
                        BY <3>2 DEF NoRequest, Pushed
                  <4> QED
                      BY <4>1 DEF Carried, Distinct
            <3> QED
                BY <3>2, <3>3, NoNumbers DEF Phase
      <2>2. CASE phase # "awaiting"
            <3>1. UNCHANGED <<phase, signal, hand, buffer, request>>
                  BY <2>2 DEF DaemonRestarts
            <3>2. Held' = Held
                  BY <3>1 DEF Held
            <3>3. PhaseInv' /\ HeldInv' /\ AwaitedInv' /\ GoneInv'
                  BY <1>1, <2>2, <3>1, <3>2
                  DEF AgentInv, PhaseInv, HeldInv, AwaitedInv, GoneInv
            <3>4. Carried(request)'
                  BY <1>1, <3>1 DEF AgentInv, RequestsInv, Carried
            <3> QED
                BY <2>2, <3>1, <3>3, <3>4 DEF AgentInv, PushTypeOK
      <2> QED
          BY <2>1, <2>2
<1>8. PushTypeOK'
      BY <1>1, <1>3, <1>4, <1>5, <1>6, <1>7 DEF AgentInv, PushTypeOK, Budgets
<1>9. RoomInv'
      <2>1. checked + Len(assigned) + budget.checks <= MaxChecks + issued
            BY DEF AgentInv, RoomInv
      <2>2. Len(assigned) \in Nat /\ checked \in Nat /\ issued \in Nat /\ MaxChecks \in Nat
            BY LenProperties DEF AgentAssumption, AgentInv, PushTypeOK
      <2>3. checked + 0 + budget.checks <= MaxChecks + issued
            BY <1>2, <2>1, <2>2
      <2> QED
          BY <1>1, <1>3, <1>4, <2>3 DEF RoomInv
<1>10. RequestsInv'
      BY <1>1, <1>7 DEF RequestsInv
<1>11. CopiesInv'
      <2>1. ASSUME NEW n \in Number PROVE Copies(n)' = OwnCopy(n)' /\ OwnCopy(n)' \in {0, 1}
            <3>1. Count(applied', Numbered(n)) = 0 /\ Count(late', Carrying(n)) = 0
                  BY <1>1, CountOfNone
            <3>2. OwnCopy(n)' \in {0, 1}
                  BY DEF OwnCopy
            <3> QED
                BY <3>1, <3>2 DEF Copies
      <2>2. budget'.faults <= MaxFaults /\ budget'.faults \in Nat /\ MaxFaults \in Nat
            BY <1>3 DEF AgentAssumption, Budgets
      <2> QED
          BY <2>1, <2>2 DEF CopiesInv
<1> QED
    BY <1>7, <1>8, <1>9, <1>10, <1>11 DEF AgentInv

LEMMA SendInv == ASSUME AgentAssumption, AgentInv, Send PROVE AgentInv'
<1>1. /\ phase = "sending" /\ phase' = "awaiting" /\ hand' = Held /\ buffer' = <<>>
      /\ request' = Pushed(Held)
      /\ UNCHANGED <<signal, checked, born, late, channel, heard, handled, applied,
                     lateFetch, assigned, issued, authorized, owned, budget>>
      BY DEF Send, Batch, Held, ingestVars, queueVars, adminVars
<1>2. Held \in Seq(Result) /\ Len(Held) \in Nat /\ DOMAIN Held = 1..Len(Held)
      BY HeldIs DEF AgentInv, PushTypeOK
<1>3. /\ hand' \in Seq(Result) /\ buffer' \in Seq(Result)
      /\ Len(buffer') <= BufferCapacity
      BY <1>1, <1>2, EmptySeq DEF AgentAssumption
<1>4. Held' = Held
      BY <1>1, <1>2, ConcatEmptySeq DEF Held
<1>5. request' \in Request /\ request'.left = Held /\ request'.begun = FALSE
      BY <1>1, <1>2 DEF Request, Pushed
<1>6. /\ NumbersOf(Held) = (checked - Len(Held) + 1)..checked /\ Distinct(Held)
      /\ \A i \in DOMAIN Held : Held[i].number <= checked
      <2>1. checked \in Nat
            BY DEF AgentInv, PushTypeOK
      <2> QED
          BY <1>2, <2>1, HeldNumbers DEF AgentInv, HeldInv
<1>7. PushTypeOK'
      BY <1>1, <1>3, <1>5 DEF AgentInv, PushTypeOK, Phase
<1>8. PhaseInv' /\ HeldInv' /\ RoomInv' /\ GoneInv'
      BY <1>1, <1>4 DEF AgentInv, PhaseInv, HeldInv, RoomInv, GoneInv
<1>9. AwaitedInv'
      BY <1>1, <1>5 DEF AwaitedInv
<1>10. RequestsInv'
      BY <1>1, <1>5, <1>6 DEF AgentInv, RequestsInv, Carried
<1>11. CopiesInv'
      <2>1. ASSUME NEW n \in Number PROVE Copies(n)' = Copies(n)
            BY <1>1, <1>5 DEF Copies, OwnCopy
      <2> QED
          BY <1>1, <2>1 DEF AgentInv, CopiesInv
<1> QED
    BY <1>7, <1>8, <1>9, <1>10, <1>11 DEF AgentInv

LEMMA AcceptedInv == ASSUME AgentAssumption, AgentInv, Accepted PROVE AgentInv'
<1>1. /\ phase = "awaiting" /\ request.begun /\ request.left = <<>>
      /\ phase' \in {"sleeping", "ended"} /\ signal' \in Signal
      /\ hand' = <<>> /\ request' = NoRequest
      /\ UNCHANGED <<buffer, checked, born, late, channel, heard, handled, applied,
                     lateFetch, assigned, issued, authorized, owned, budget>>
      BY DEF Accepted, CycleEnds, AgentInv, PushTypeOK, Signal, ingestVars, queueVars,
             adminVars
<1>2. /\ hand \in Seq(Result) /\ buffer \in Seq(Result) /\ buffer = <<>>
      /\ checked \in Nat /\ born \in Nat /\ born <= checked
      BY <1>1 DEF AgentInv, PushTypeOK, PhaseInv
<1>3. hand' \in Seq(Result) /\ Held' = <<>> /\ Len(Held') = 0
      BY <1>1, <1>2, EmptySeq, ConcatEmptySeq DEF Held
<1>4. Held = hand
      BY <1>2, HeldIs
<1>5. PushTypeOK'
      BY <1>1, <1>3, NoNumbers DEF AgentInv, PushTypeOK, Phase
<1>6. PhaseInv' /\ HeldInv' /\ RoomInv' /\ AwaitedInv'
      BY <1>1, <1>2, <1>3 DEF AgentInv, PhaseInv, HeldInv, RoomInv, AwaitedInv
<1>7. RequestsInv'
      <2>1. request'.left = <<>>
            BY <1>1 DEF NoRequest, Pushed
      <2>2. Carried(request)'
            BY <2>1 DEF Carried, Distinct
      <2>3. \A i \in DOMAIN late' : Carried(late[i])'
            BY <1>1 DEF AgentInv, RequestsInv, Carried
      <2> QED
          BY <1>1, <2>2, <2>3 DEF AgentInv, RequestsInv
<1>8. GoneInv'
      <2>1. ASSUME NEW n \in (born + 1)..checked
            PROVE  n \in handled \/ checked - n >= BufferCapacity
            <3>1. CASE n \in (born + 1)..(checked - Len(Held))
                  BY <1>1, <3>1 DEF AgentInv, GoneInv
            <3>2. CASE n \notin (born + 1)..(checked - Len(Held))
                  <4>1. n \in (checked - Len(Held) + 1)..checked
                        <5>1. Len(Held) \in Nat
                              BY <1>2, HeldIs
                        <5> QED
                            BY <1>2, <3>2, <5>1
                  <4>2. n \in NumbersOf(hand)
                        BY <1>4, <4>1, HeldNumbers DEF AgentInv
                  <4> QED
                      BY <1>1, <4>2, NoNumbers DEF AgentInv, AwaitedInv
            <3> QED
                BY <3>1, <3>2
      <2>2. checked' - Len(Held') = checked
            BY <1>1, <1>2, <1>3
      <2> QED
          BY <1>1, <2>1, <2>2 DEF GoneInv
<1>9. CopiesInv'
      <2> SUFFICES ASSUME NEW n \in Number
                   PROVE  Copies(n)' <= 1 + (MaxFaults - budget'.faults)
          BY DEF CopiesInv
      <2>1. OwnCopy(n)' = 0
            BY <1>1, <1>3, NoNumbers DEF OwnCopy
      <2>2. Count(late, Carrying(n)) \in Nat /\ OwnCopy(n) \in {0, 1}
            BY CopiesAreNumbers DEF AgentInv
      <2>3. /\ Count(late', Carrying(n)) \in Nat
            /\ Count(late', Carrying(n)) + OwnCopy(n)'
               <= Count(late, Carrying(n)) + OwnCopy(n) + 0
            BY <1>1, <2>1, <2>2
      <2>4. budget' \in Budgets /\ budget'.faults = budget.faults - 0
            BY <1>1 DEF AgentInv, PushTypeOK, Budgets
      <2> QED
          BY <1>1, <2>3, <2>4, FewerCopies
<1> QED
    BY <1>5, <1>6, <1>7, <1>8, <1>9 DEF AgentInv

LEMMA KilledInv == ASSUME AgentAssumption, AgentInv, Killed PROVE AgentInv'
<1>1. /\ phase # "ended" /\ Operator /\ phase' = "ended" /\ hand' = <<>> /\ buffer' = <<>>
      /\ request' = NoRequest
      /\ late' = late \/ (phase = "awaiting" /\ late' = Append(late, request))
      /\ UNCHANGED <<signal, checked, born, channel, heard, handled, applied, lateFetch,
                     assigned, issued, authorized, owned>>
      BY DEF Killed, queueVars, adminVars
<1>2. budget \in Budgets /\ budget.faults \in Nat /\ checked \in Nat /\ born \in Nat
      /\ born <= checked /\ BufferCapacity \in Nat
      BY DEF AgentAssumption, AgentInv, PushTypeOK, Budgets
<1>3. /\ budget' \in Budgets /\ budget'.faults = budget.faults - 0
      /\ budget'.checks = budget.checks
      BY <1>1, <1>2, BudgetSteps
<1>4. /\ hand' \in Seq(Result) /\ buffer' \in Seq(Result) /\ Held' = <<>>
      /\ Len(Held') = 0 /\ Len(buffer') <= BufferCapacity
      BY <1>1, <1>2, EmptySeq, ConcatEmptySeq DEF Held
<1>5. late' \in Seq(Request) /\ \A i \in DOMAIN late' : Carried(late'[i])
      BY <1>1, LetGo, LateAreCarried
<1>6. PushTypeOK'
      BY <1>1, <1>3, <1>4, <1>5, NoNumbers DEF AgentInv, PushTypeOK, Phase, Budgets
<1>7. PhaseInv' /\ HeldInv' /\ RoomInv' /\ AwaitedInv' /\ GoneInv'
      BY <1>1, <1>2, <1>3, <1>4 DEF AgentInv, PhaseInv, HeldInv, RoomInv, AwaitedInv, GoneInv
<1>8. RequestsInv'
      <2>1. request'.left = <<>>
            BY <1>1 DEF NoRequest, Pushed
      <2>2. Carried(request)'
            BY <2>1 DEF Carried, Distinct
      <2>3. \A i \in DOMAIN late' : Carried(late[i])'
            BY <1>1, <1>5 DEF Carried
      <2> QED
          BY <1>1, <2>2, <2>3 DEF AgentInv, RequestsInv
<1>9. CopiesInv'
      <2> SUFFICES ASSUME NEW n \in Number
                   PROVE  Copies(n)' <= 1 + (MaxFaults - budget'.faults)
          BY DEF CopiesInv
      <2>1. OwnCopy(n)' = 0 /\ (phase = "awaiting" => OwnCopy(n) = In(n, request))
            BY <1>1, <1>4, NoNumbers DEF OwnCopy, In
      <2>2. Count(late, Carrying(n)) \in Nat /\ OwnCopy(n) \in {0, 1}
            BY CopiesAreNumbers DEF AgentInv
      <2>3. \/ Count(late', Carrying(n)) = Count(late, Carrying(n))
            \/ Count(late', Carrying(n)) = Count(late, Carrying(n)) + OwnCopy(n)
            BY <1>1, <2>1, LetGo
      <2>4. /\ Count(late', Carrying(n)) \in Nat
            /\ Count(late', Carrying(n)) + OwnCopy(n)'
               <= Count(late, Carrying(n)) + OwnCopy(n) + 0
            BY <2>1, <2>2, <2>3
      <2> QED
          BY <1>1, <1>3, <2>4, FewerCopies
<1> QED
    BY <1>6, <1>7, <1>8, <1>9 DEF AgentInv

LEMMA RevivedInv == ASSUME AgentAssumption, AgentInv, Revived PROVE AgentInv'
<1>1. /\ phase = "ended" /\ Operator /\ phase' = "checking" /\ signal' = "fatal"
      /\ buffer' = <<>> /\ born' = checked /\ authorized' = TRUE /\ hand = <<>>
      /\ UNCHANGED <<hand, checked, request, late, channel, heard, handled, applied,
                     lateFetch, assigned, issued, owned>>
      BY DEF Revived, ingestVars, queueVars, AgentInv, PhaseInv
<1>2. /\ budget \in Budgets /\ budget.faults \in Nat /\ checked \in Nat
      /\ BufferCapacity \in Nat
      BY DEF AgentAssumption, AgentInv, PushTypeOK, Budgets
<1>3. /\ budget' \in Budgets /\ budget'.faults = budget.faults - 0
      /\ budget'.checks = budget.checks
      BY <1>1, <1>2, BudgetSteps
<1>4. /\ buffer' \in Seq(Result) /\ Held' = <<>> /\ Len(Held') = 0
      /\ Len(buffer') <= BufferCapacity
      BY <1>1, <1>2, EmptySeq, ConcatEmptySeq DEF Held
<1>5. authorized' \in BOOLEAN
      BY <1>1, Zenon
<1>6. PushTypeOK'
      BY <1>1, <1>2, <1>3, <1>4, <1>5 DEF AgentInv, PushTypeOK, Phase, Signal, Budgets
<1>7. PhaseInv' /\ HeldInv' /\ RoomInv' /\ AwaitedInv' /\ GoneInv'
      BY <1>1, <1>2, <1>3, <1>4 DEF AgentInv, PhaseInv, HeldInv, RoomInv, AwaitedInv, GoneInv
<1>8. RequestsInv'
      BY <1>1 DEF AgentInv, RequestsInv, Carried
<1>9. CopiesInv'
      <2> SUFFICES ASSUME NEW n \in Number
                   PROVE  Copies(n)' <= 1 + (MaxFaults - budget'.faults)
          BY DEF CopiesInv
      <2>1. OwnCopy(n)' = 0
            BY <1>1, <1>4, NoNumbers DEF OwnCopy
      <2>2. Count(late, Carrying(n)) \in Nat /\ OwnCopy(n) \in {0, 1}
            BY CopiesAreNumbers DEF AgentInv
      <2>3. /\ Count(late', Carrying(n)) \in Nat
            /\ Count(late', Carrying(n)) + OwnCopy(n)'
               <= Count(late, Carrying(n)) + OwnCopy(n) + 0
            BY <1>1, <2>1, <2>2
      <2> QED
          BY <1>1, <1>3, <2>3, FewerCopies
<1> QED
    BY <1>6, <1>7, <1>8, <1>9 DEF AgentInv

LEMMA CheckLocallyInv == ASSUME AgentAssumption, AgentInv, CheckLocally PROVE AgentInv'
<1>1. /\ phase = "checking" /\ phase' = "fetching" /\ hand = <<>>
      /\ UNCHANGED <<buffer, signal, born, request, late, channel, heard, handled, applied,
                     lateFetch, assigned, issued, authorized, owned>>
      BY DEF CheckLocally, ingestVars, queueVars, adminVars, AgentInv, PhaseInv
<1>2. /\ checked \in Nat /\ born \in Nat /\ born <= checked /\ issued \in Nat
      /\ issued <= MaxAssigned /\ MaxChecks \in Nat /\ MaxAssigned \in Nat
      /\ Len(assigned) \in Nat /\ budget \in Budgets /\ budget.checks \in 0..MaxChecks
      /\ checked + Len(assigned) + budget.checks <= MaxChecks + issued
      BY LenProperties DEF AgentAssumption, AgentInv, PushTypeOK, RoomInv, Budgets
<1>3. CASE UNCHANGED <<budget, checked, hand>>
      <2>1. PushTypeOK' /\ PhaseInv' /\ RoomInv'
            BY <1>1, <1>3 DEF AgentInv, PushTypeOK, Phase, PhaseInv, RoomInv
      <2>2. budget'.faults <= budget.faults
            BY <1>2, <1>3 DEF Budgets
      <2> QED
          BY <1>1, <1>3, <2>1, <2>2, QuietInv
<1>4. CASE /\ budget.checks > 0
           /\ budget' = [budget EXCEPT !.checks = @ - 1]
           /\ checked' = checked + 1
           /\ \E success \in BOOLEAN :
                 hand' = <<[number |-> checked', monitor |-> Local, success |-> success]>>
      <2>1. PICK success \in BOOLEAN :
               hand' = <<[number |-> checked', monitor |-> Local, success |-> success]>>
            BY <1>4, Zenon
      <2> DEFINE result == [number |-> checked', monitor |-> Local, success |-> success]
                 new    == <<result>>
      <2>2. checked' = checked + 1 /\ checked' \in Number
            BY <1>2, <1>4 DEF Number
      <2>3. result \in Result
            BY <2>2 DEF Result, Monitor
      <2>4. result.number = checked + 1
            BY <2>2
      <2>5. hand' = new
            BY <2>1
      <2> HIDE DEF result
      <2>6. new \in Seq(Result) /\ Len(new) = 1 /\ DOMAIN new = {1} /\ new[1] = result
            BY <2>3
      <2>7. hand' = hand \o new /\ hand' \in Seq(Result)
            BY <1>1, <2>5, <2>6, ConcatEmptySeq
      <2> HIDE DEF new
      <2>8. \A i \in DOMAIN new : new[i].number = checked + i
            BY <2>4, <2>6
      <2>9. /\ budget' \in Budgets /\ budget'.faults = budget.faults
            /\ budget'.checks = budget.checks - 1
            <3>1. ASSUME NEW k \in 0..MaxChecks
                  PROVE  LET b == [budget EXCEPT !.checks = k]
                         IN  b \in Budgets /\ b.faults = budget.faults /\ b.checks = k
                  BY <1>2 DEF Budgets
            <3>2. budget.checks - 1 \in 0..MaxChecks
                  BY <1>2, <1>4
            <3> QED
                BY <1>4, <3>1, <3>2, Zenon
      <2>10. PushTypeOK'
            <3>1. checked' \in 0..(MaxChecks + MaxAssigned) /\ born' \in 0..checked'
                  BY <1>1, <1>2, <2>2 DEF Number
            <3> QED
                BY <1>1, <2>7, <2>9, <3>1 DEF AgentInv, PushTypeOK, Phase, Budgets
      <2>11. PhaseInv'
            BY <1>1 DEF PhaseInv
      <2>12. RoomInv'
            BY <1>1, <1>2, <2>2, <2>9 DEF RoomInv
      <2>13. checked' = checked + Len(new)
            BY <2>2, <2>6
      <2> QED
          BY <1>1, <2>6, <2>7, <2>8, <2>9, <2>10, <2>11, <2>12, <2>13, GrowsInv
<1> QED
    BY <1>3, <1>4 DEF CheckLocally

LEMMA FetchAnsweredInv == ASSUME AgentAssumption, AgentInv, FetchAnswered PROVE AgentInv'
<1>1. /\ phase = "fetching" /\ phase' = "sending" /\ assigned' = <<>>
      /\ checked' = checked + Len(assigned)
      /\ UNCHANGED <<buffer, signal, born, request, late, channel, heard, handled, applied,
                     lateFetch, issued, authorized, owned, budget>>
      BY DEF FetchAnswered, Drained, ingestVars, adminVars
<1>2. PICK o \in [DOMAIN assigned -> BOOLEAN] :
         hand' = hand \o [i \in DOMAIN assigned |->
                    [number |-> checked + i, monitor |-> Remote, success |-> o[i]]]
      BY DEF FetchAnswered
<1> DEFINE new == [i \in DOMAIN assigned |->
                     [number |-> checked + i, monitor |-> Remote, success |-> o[i]]]
<1>3. /\ checked \in Nat /\ born \in Nat /\ born <= checked /\ issued \in Nat
      /\ issued <= MaxAssigned /\ MaxChecks \in Nat /\ MaxAssigned \in Nat
      /\ Len(assigned) \in Nat /\ DOMAIN assigned = 1..Len(assigned)
      /\ budget \in Budgets /\ budget.checks \in Nat /\ budget.faults \in Nat
      /\ checked + Len(assigned) + budget.checks <= MaxChecks + issued
      BY LenProperties DEF AgentAssumption, AgentInv, PushTypeOK, RoomInv, Budgets
<1>4. ASSUME NEW i \in 1..Len(assigned)
      PROVE  [number |-> checked + i, monitor |-> Remote, success |-> o[i]] \in Result
      <2>1. checked + i \in Number
            BY <1>3 DEF Number
      <2>2. o[i] \in BOOLEAN
            BY <1>3
      <2> QED
          BY <2>1, <2>2 DEF Result, Monitor
<1>5. new \in [1..Len(assigned) -> Result]
      BY <1>3, <1>4
<1>6. \A i \in 1..Len(assigned) : new[i].number = checked + i
      BY <1>3
<1>7. hand' = hand \o new
      BY <1>2
<1> HIDE DEF new
<1>8. new \in Seq(Result) /\ DOMAIN new = 1..Len(assigned) /\ Len(new) = Len(assigned)
      <2>1. new \in Seq(Result)
            BY <1>3, <1>5, SeqDef
      <2>2. DOMAIN new = 1..Len(assigned)
            BY <1>5
      <2> QED
          BY <1>3, <2>1, <2>2, LenProperties
<1>9. hand' \in Seq(Result)
      <2>1. hand \in Seq(Result)
            BY DEF AgentInv, PushTypeOK
      <2> QED
          BY <1>7, <1>8, <2>1, ConcatProperties
<1>10. assigned' \in Seq(Assignment) /\ Len(assigned') = 0
      BY <1>1, EmptySeq
<1>11. PushTypeOK'
      <2>1. /\ checked' \in 0..(MaxChecks + MaxAssigned) /\ born' \in 0..checked'
            /\ Len(assigned') <= QueueCapacity
            BY <1>1, <1>3, <1>10 DEF AgentAssumption
      <2> QED
          BY <1>1, <1>9, <1>10, <2>1 DEF AgentInv, PushTypeOK, Phase
<1>12. PhaseInv'
      BY <1>1 DEF PhaseInv
<1>13. RoomInv'
      <2>1. (checked + Len(assigned)) + 0 + budget.checks <= MaxChecks + issued
            BY <1>3
      <2> QED
          BY <1>1, <1>10, <2>1 DEF RoomInv
<1> QED
    BY <1>1, <1>6, <1>7, <1>8, <1>11, <1>12, <1>13, GrowsInv

\* The engine's queue takes one more.
LEMMA AssignIs ==
    ASSUME AgentAssumption, AgentInv, Assign
    PROVE  /\ assigned' \in Seq(Assignment) /\ Len(assigned') <= QueueCapacity
           /\ issued' \in 0..MaxAssigned /\ RoomInv'
<1>1. /\ issued < MaxAssigned /\ issued' = issued + 1
      /\ assigned' = Append(IF Len(assigned) >= QueueCapacity THEN Tail(assigned)
                            ELSE assigned, issued + 1)
      /\ checked' = checked /\ budget' = budget
      BY DEF Assign, agentVars
<1>2. /\ assigned \in Seq(Assignment) /\ Len(assigned) \in Nat
      /\ Len(assigned) <= QueueCapacity /\ QueueCapacity \in Nat \ {0}
      /\ issued \in Nat /\ MaxAssigned \in Nat /\ MaxChecks \in Nat /\ checked \in Nat
      /\ budget.checks \in Nat
      /\ checked + Len(assigned) + budget.checks <= MaxChecks + issued
      BY LenProperties DEF AgentAssumption, AgentInv, PushTypeOK, RoomInv
<1>3. issued + 1 \in Assignment
      BY <1>1, <1>2 DEF Assignment
<1> DEFINE rest == IF Len(assigned) >= QueueCapacity THEN Tail(assigned) ELSE assigned
<1>4. /\ rest \in Seq(Assignment) /\ Len(rest) \in Nat
      /\ Len(rest) < QueueCapacity /\ Len(rest) <= Len(assigned)
      <2>1. CASE Len(assigned) >= QueueCapacity
            <3>1. assigned # <<>>
                  BY <1>2, <2>1, EmptySeq
            <3>2. Tail(assigned) \in Seq(Assignment) /\ Len(Tail(assigned)) = Len(assigned) - 1
                  BY <1>2, <3>1, HeadTailProperties
            <3> QED
                BY <1>2, <2>1, <3>2
      <2>2. CASE ~(Len(assigned) >= QueueCapacity)
            BY <1>2, <2>2
      <2> QED
          BY <2>1, <2>2
<1>5. assigned' = Append(rest, issued + 1)
      BY <1>1
<1> HIDE DEF rest
<1>6. assigned' \in Seq(Assignment) /\ Len(assigned') = Len(rest) + 1
      BY <1>3, <1>4, <1>5, AppendProperties
<1>7. RoomInv'
      <2>1. checked + (Len(rest) + 1) + budget.checks <= MaxChecks + (issued + 1)
            BY <1>2, <1>4
      <2> QED
          BY <1>1, <1>6, <2>1 DEF RoomInv
<1> QED
    BY <1>1, <1>2, <1>4, <1>6, <1>7

\* The steps that touch no result.
Quiet == \/ FetchFails \/ Wake \/ Stop \/ Terminated \/ Assign \/ Consume
         \/ HeartbeatLapses \/ Rotate \/ (\E m \in Monitor : Disown(m)) \/ FetchLate

LEMMA QuietSteps == ASSUME AgentAssumption, AgentInv, Quiet PROVE AgentInv'
<1>1. /\ PushTypeOK /\ PhaseInv /\ RoomInv /\ budget \in Budgets /\ budget.faults \in Nat
      /\ checked \in Nat /\ issued \in Nat /\ MaxChecks \in Nat /\ budget.checks \in Nat
      /\ Len(assigned) \in Nat /\ assigned \in Seq(Assignment)
      BY LenProperties DEF AgentAssumption, AgentInv, PushTypeOK, Budgets
<1>d. <<>> \in Seq(Assignment) /\ Len(<<>>) = 0 /\ Len(<<>>) <= QueueCapacity
      BY EmptySeq DEF AgentAssumption
<1>2. CASE FetchFails
      <2>1. /\ phase = "fetching" /\ phase' = "sending"
            /\ UNCHANGED <<hand, buffer, signal, checked, born, request, late, channel,
                           heard, handled, applied, issued, authorized, owned>>
            BY <1>2 DEF FetchFails, ingestVars, adminVars
      <2>2. /\ assigned' \in {assigned, <<>>} /\ lateFetch' \in BOOLEAN
            BY <1>1, <1>2, Zenon DEF FetchFails, Drained, PushTypeOK
      <2>3. budget' = budget \/ Fault
            BY <1>2 DEF FetchFails
      <2>4. budget' \in Budgets /\ budget'.faults <= budget.faults
                                /\ budget'.checks = budget.checks
            BY <1>1, <2>3, BudgetSteps
      <2>5. PushTypeOK' /\ PhaseInv'
            BY <1>1, <1>d, <2>1, <2>2, <2>4 DEF PushTypeOK, PhaseInv, Phase, Budgets
      <2>6. RoomInv'
            <3>1. Len(assigned') \in Nat /\ Len(assigned') <= Len(assigned)
                  BY <1>1, <1>d, <2>2
            <3> QED
                BY <1>1, <2>1, <2>4, <3>1 DEF RoomInv
      <2> QED
          BY <2>1, <2>4, <2>5, <2>6, QuietInv
<1>3. CASE Wake \/ Stop
      <2>1. /\ phase = "sleeping" /\ phase' \in {"checking", "sending"}
            /\ signal' \in {signal, "obeyed"}
            /\ UNCHANGED <<hand, buffer, checked, born, request, late, channel, heard,
                           handled, applied, lateFetch, assigned, issued, authorized, owned,
                           budget>>
            BY <1>3 DEF Wake, Stop, ingestVars, queueVars, adminVars
      <2>2. PushTypeOK' /\ PhaseInv' /\ RoomInv'
            BY <1>1, <2>1 DEF PushTypeOK, PhaseInv, RoomInv, Phase, Signal
      <2> QED
          BY <1>1, <2>1, <2>2, QuietInv
<1>4. CASE Terminated
      <2>1. /\ signal' = "received"
            /\ UNCHANGED <<phase, hand, buffer, checked, born, request, late, channel, heard,
                           handled, applied, lateFetch, assigned, issued, authorized, owned,
                           budget>>
            BY <1>4 DEF Terminated, ingestVars, queueVars, adminVars
      <2>2. PushTypeOK' /\ PhaseInv' /\ RoomInv'
            BY <1>1, <2>1 DEF PushTypeOK, PhaseInv, RoomInv, Signal
      <2> QED
          BY <1>1, <2>1, <2>2, QuietInv
<1>5. CASE Assign
      <2>1. UNCHANGED <<phase, hand, buffer, signal, checked, born, request, late, channel,
                        heard, handled, applied, lateFetch, authorized, owned, budget>>
            BY <1>5 DEF Assign, agentVars, ingestVars, adminVars
      <2>2. /\ assigned' \in Seq(Assignment) /\ Len(assigned') <= QueueCapacity
            /\ issued' \in 0..MaxAssigned /\ RoomInv'
            BY <1>5, AssignIs
      <2>3. PushTypeOK' /\ PhaseInv'
            BY <1>1, <2>1, <2>2 DEF PushTypeOK, PhaseInv
      <2> QED
          BY <1>1, <2>1, <2>2, <2>3, QuietInv
<1>6. CASE Consume \/ HeartbeatLapses
      <2>1. UNCHANGED <<phase, hand, buffer, signal, checked, born, request, late,
                        handled, applied, lateFetch, assigned, issued, authorized, owned,
                        budget>>
            BY <1>6 DEF Consume, HeartbeatLapses, agentVars, queueVars, adminVars
      <2>2. channel' \in 0..IngestCapacity
            BY <1>1, <1>6 DEF AgentAssumption, Consume, HeartbeatLapses, PushTypeOK
      <2>3. heard' \in BOOLEAN
            BY <1>1, <1>6, Zenon DEF Consume, HeartbeatLapses, PushTypeOK
      <2>4. PushTypeOK' /\ PhaseInv' /\ RoomInv'
            BY <1>1, <2>1, <2>2, <2>3 DEF PushTypeOK, PhaseInv, RoomInv
      <2> QED
          BY <1>1, <2>1, <2>4, QuietInv
<1>7. CASE Rotate \/ \E m \in Monitor : Disown(m)
      <2>1. UNCHANGED <<phase, hand, buffer, signal, checked, born, request, late, channel,
                        handled, applied, lateFetch, assigned, issued>>
            BY <1>7 DEF Rotate, Disown, agentVars, ingestVars, queueVars
      <2>2. Operator
            BY <1>7 DEF Rotate, Disown
      <2>3. heard' \in BOOLEAN /\ authorized' \in BOOLEAN
            BY <1>1, <1>7, Zenon DEF Rotate, Disown, PushTypeOK, ingestVars
      <2>4. owned' \subseteq Monitor
            BY <1>1, <1>7, Zenon DEF Rotate, Disown, PushTypeOK
      <2>5. /\ budget' \in Budgets /\ budget'.faults <= budget.faults
            /\ budget'.checks = budget.checks
            BY <1>1, <2>2, BudgetSteps
      <2>6. PushTypeOK' /\ PhaseInv' /\ RoomInv'
            BY <1>1, <2>1, <2>3, <2>4, <2>5 DEF PushTypeOK, PhaseInv, RoomInv, Budgets
      <2> QED
          BY <1>1, <2>1, <2>5, <2>6, QuietInv
<1>8. CASE FetchLate
      <2>1. /\ lateFetch' = FALSE /\ assigned' \in {assigned, <<>>}
            /\ UNCHANGED <<phase, hand, buffer, signal, checked, born, request, late,
                           channel, heard, handled, applied, issued, authorized, owned,
                           budget>>
            BY <1>8 DEF FetchLate, Drained, agentVars, ingestVars, adminVars
      <2>2. lateFetch' \in BOOLEAN
            BY <2>1, Zenon
      <2>3. PushTypeOK' /\ PhaseInv'
            BY <1>1, <1>d, <2>1, <2>2 DEF PushTypeOK, PhaseInv
      <2>4. RoomInv'
            <3>1. Len(assigned') \in Nat /\ Len(assigned') <= Len(assigned)
                  BY <1>1, <1>d, <2>1
            <3> QED
                BY <1>1, <2>1, <3>1 DEF RoomInv
      <2> QED
          BY <1>1, <2>1, <2>3, <2>4, QuietInv
<1> QED
    BY <1>2, <1>3, <1>4, <1>5, <1>6, <1>7, <1>8 DEF Quiet

LEMMA PushNextInv == ASSUME AgentAssumption, AgentInv, [PushNext]_pushVars PROVE AgentInv'
<1>1. CASE Quiet
      BY <1>1, QuietSteps
<1>2. CASE CheckLocally \/ FetchAnswered
      BY <1>2, CheckLocallyInv, FetchAnsweredInv
<1>3. CASE Send \/ Accepted \/ PushFails
      BY <1>3, SendInv, AcceptedInv, PushFailsInv
<1>4. CASE Serve \/ ServeLate \/ LateEnds
      BY <1>4, ServeInv, ServeLateInv, LateEndsInv
<1>5. CASE Killed \/ Revived \/ DaemonRestarts
      BY <1>5, KilledInv, RevivedInv, DaemonRestartsInv
<1>6. CASE UNCHANGED pushVars
      <2>1. UNCHANGED <<phase, hand, buffer, signal, request, late, lateFetch, assigned,
                        channel, heard, authorized, owned, checked, born, issued, handled,
                        applied, budget>>
            BY <1>6 DEF pushVars, agentVars, ingestVars, queueVars, adminVars
      <2>2. PushTypeOK' /\ PhaseInv' /\ RoomInv'
            BY <2>1 DEF AgentInv, PushTypeOK, PhaseInv, RoomInv
      <2>3. budget'.faults <= budget.faults
            BY <2>1 DEF AgentInv, PushTypeOK
      <2> QED
          BY <2>1, <2>2, <2>3, QuietInv
<1> QED
    BY <1>1, <1>2, <1>3, <1>4, <1>5, <1>6 DEF PushNext, Cycle, Quiet

LEMMA PushInvariance == ASSUME AgentAssumption PROVE PushSpec => []AgentInv
<1>1. PushInit => AgentInv
      BY PushInitInv
<1>2. AgentInv /\ [PushNext]_pushVars => AgentInv'
      BY PushNextInv
<1> QED
    BY <1>1, <1>2, PTL DEF PushSpec

-----------------------------------------------------------------------------
\* The agent and the two routes keep their types; the batch buffer, the assignment queue
\* and the channel of pushed results never exceed their capacities.
THEOREM PushTypeCorrect == ASSUME AgentAssumption PROVE PushSpec => []PushTypeOK
<1>1. AgentInv => PushTypeOK
      BY DEF AgentInv
<1> QED
    BY <1>1, PushInvariance, PTL

\* Only overflow loses results, whatever is lost, late, refused or restarted: one that no
\* handler has dealt with is held by the agent or BufferCapacity newer ones were made.
THEOREM OnlyOverflow == ASSUME AgentAssumption PROVE PushSpec => []OnlyOverflowLoses
<1>1. ASSUME AgentInv PROVE OnlyOverflowLoses
      <2> SUFFICES ASSUME phase # "ended", NEW n \in (born + 1)..checked
                   PROVE  \/ n \in handled
                          \/ n \in ToSet(Numbers(Held))
                          \/ checked - n >= BufferCapacity
          BY DEF OnlyOverflowLoses
      <2>1. checked \in Nat /\ born \in Nat /\ Held \in Seq(Result) /\ Len(Held) \in Nat
            BY <1>1, HeldIs DEF AgentInv, PushTypeOK
      <2>2. CASE n \in (born + 1)..(checked - Len(Held))
            BY <1>1, <2>2 DEF AgentInv, GoneInv
      <2>3. CASE n \notin (born + 1)..(checked - Len(Held))
            <3>1. n \in (checked - Len(Held) + 1)..checked
                  BY <2>1, <2>3
            <3>2. n \in NumbersOf(Held)
                  BY <1>1, <3>1, HeldNumbers DEF AgentInv
            <3>3. PICK i \in DOMAIN Held : Held[i].number = n
                  BY <3>2 DEF NumbersOf
            <3>4. i \in DOMAIN Numbers(Held) /\ Numbers(Held)[i] = n
                  BY <3>3 DEF Numbers
            <3> QED
                BY <3>4 DEF ToSet
      <2> QED
          BY <2>2, <2>3
<1> QED
    BY <1>1, PushInvariance, PTL

\* A retry counts a result again only after a fault, and each fault costs at most one more.
THEOREM RepeatsAreFaults == ASSUME AgentAssumption PROVE PushSpec => []RepeatsNeedFaults
<1>1. ASSUME AgentInv PROVE RepeatsNeedFaults
      <2> SUFFICES ASSUME NEW n \in 1..checked
                   PROVE  Times(n) <= 1 + (MaxFaults - budget.faults)
          BY DEF RepeatsNeedFaults
      <2>1. n \in Number
            BY <1>1 DEF AgentAssumption, AgentInv, PushTypeOK, Number
      <2>2. Times(n) = Count(applied, Numbered(n))
            <3>1. \A i \in DOMAIN applied : applied[i] \in Result
                  BY <1>1, ElementOfSeq, LenProperties DEF AgentInv, PushTypeOK
            <3>2. {i \in DOMAIN applied : applied[i].number = n}
                  = {i \in DOMAIN applied : applied[i] \in Numbered(n)}
                  BY <3>1 DEF Numbered
            <3> QED
                BY <3>2 DEF Times, Count
      <2>3. /\ Count(applied, Numbered(n)) \in Nat /\ Count(late, Carrying(n)) \in Nat
            /\ OwnCopy(n) \in {0, 1} /\ budget.faults \in Nat /\ MaxFaults \in Nat
            BY <1>1, CopiesAreNumbers DEF AgentAssumption, AgentInv
      <2>4. Copies(n) <= 1 + (MaxFaults - budget.faults)
            BY <1>1, <2>1 DEF AgentInv, CopiesInv
      <2>5. Copies(n) = Count(applied, Numbered(n)) + Count(late, Carrying(n)) + OwnCopy(n)
            BY DEF Copies
      <2> HIDE DEF Copies
      <2> QED
          BY <2>2, <2>3, <2>4, <2>5
<1> QED
    BY <1>1, PushInvariance, PTL

-----------------------------------------------------------------------------
\* HostChecks.

\* While a scan goes on: who has borne the name since its beginning is still to be
\* looked at or has been missed, and whoever bears it now has been noticed.
ScanInv == Scanning => /\ steady \subseteq unread \cup missed
                       /\ Bearing(process) # {} => borne

HostInv == HostTypeOK /\ ScanInv

-----------------------------------------------------------------------------
LEMMA OutcomesTyped ==
    /\ \A free, blocks, percent \in Nat :
          DiskOutcome(free, blocks, percent) \in {"success", "failure", "unavailable"}
    /\ \A said : SystemdOutcome(said) \in {"success", "failure", "unavailable"}
BY DEF DiskOutcome, SystemdOutcome

LEMMA HostInitInv == ASSUME HostChecksAssumption, HostInit PROVE HostInv
BY DEF HostChecksAssumption, HostInit, HostInv, HostTypeOK, ScanInv, Scanning, Bearing

LEMMA ProcessChangesInv ==
    ASSUME HostChecksAssumption, HostInv, NEW p \in Pid, ProcessChanges(p)
    PROVE  HostInv'
<1>1. HostTypeOK'
      BY DEF HostChecksAssumption, HostInv, HostTypeOK, ScanInv, ProcessChanges, Scanning,
             Bearing, Running
<1>2. ScanInv'
      BY DEF HostChecksAssumption, HostInv, HostTypeOK, ScanInv, ProcessChanges, Scanning,
             Bearing, Running
<1> QED
    BY <1>1, <1>2 DEF HostInv

LEMMA ScanStepsInv ==
    ASSUME HostChecksAssumption, HostInv,
           BeginScan \/ NoneLeft \/ \E p \in Pid : ReadEntry(p)
    PROVE  HostInv'
<1> USE DEF HostChecksAssumption, HostInv, HostTypeOK, ScanInv, Scanning, Bearing
<1>1. CASE BeginScan
      BY <1>1 DEF BeginScan, Running
<1>2. CASE NoneLeft
      BY <1>2 DEF NoneLeft, EndScan
<1>3. CASE \E p \in Pid : ReadEntry(p)
      <2> PICK p \in Pid : ReadEntry(p)
          BY <1>3
      <2>1. CASE EndScan("success")
            BY <2>1 DEF EndScan
      <2>2. CASE ~EndScan("success")
            BY <2>2 DEF ReadEntry, PassOver
      <2> QED
          BY <2>1, <2>2
<1> QED
    BY <1>1, <1>2, <1>3

LEMMA HostNextInv == ASSUME HostChecksAssumption, HostInv, [HostNext]_hostVars PROVE HostInv'
<1>1. CASE \E p \in Pid : ProcessChanges(p)
      BY <1>1, ProcessChangesInv
<1>2. CASE BeginScan \/ NoneLeft \/ \E p \in Pid : ReadEntry(p)
      BY <1>2, ScanStepsInv
<1>3. CASE CheckAtOnce
      <2>1. outcome' \in {"success", "failure", "unavailable"}
            BY <1>3, OutcomesTyped DEF CheckAtOnce, HostChecksAssumption
      <2> QED
          BY <1>3, <2>1
          DEF CheckAtOnce, HostInv, HostTypeOK, ScanInv, Scanning, Bearing
<1>4. CASE UNCHANGED hostVars
      BY <1>4 DEF hostVars, HostInv, HostTypeOK, ScanInv, Scanning, Bearing
<1> QED
    BY <1>1, <1>2, <1>3, <1>4 DEF HostNext

LEMMA HostInvariance == ASSUME HostChecksAssumption PROVE HostSpec => []HostInv
<1> USE HostChecksAssumption
<1>1. HostInit => HostInv
      BY HostInitInv
<1>2. HostInv /\ [HostNext]_hostVars => HostInv'
      BY HostNextInv
<1> QED
    BY <1>1, <1>2, PTL DEF HostSpec

\* Every reachable state is well typed.
THEOREM HostTypeCorrect == ASSUME HostChecksAssumption PROVE HostSpec => []HostTypeOK
<1>1. HostInv => HostTypeOK
      BY DEF HostInv
<1> QED
    BY <1>1, HostInvariance, PTL

-----------------------------------------------------------------------------
\* A scan of /proc claims no more than it has read (check_process_in), with any number
\* of processes that come, go and change while it runs and any of them unreadable:
\* whoever bore the name throughout a scan that reports it missing could not be read.
THEOREM ScansTellTheTruth == ASSUME HostChecksAssumption PROVE HostSpec => ScanIsTrue
<1> USE HostChecksAssumption
<1> DEFINE Truth == Scanning => /\ outcome' = "failure" => steady \subseteq missed
                                /\ outcome' = "success" => borne
<1>1. ASSUME HostInv, [HostNext]_hostVars PROVE [Truth]_hostVars
      <2> SUFFICES ASSUME HostNext, Scanning PROVE Truth
          BY <1>1
      <2> USE DEF HostChecksAssumption, HostInv, HostTypeOK, ScanInv, Scanning, Bearing
      <2>1. CASE \E p \in Pid : ProcessChanges(p)
            BY <2>1 DEF ProcessChanges
      <2>2. CASE \E p \in Pid : ReadEntry(p)
            BY <1>1, <2>2 DEF ReadEntry, PassOver, EndScan
      <2>3. CASE NoneLeft
            BY <1>1, <2>3 DEF NoneLeft, EndScan
      <2> QED
          BY <2>1, <2>2, <2>3 DEF HostNext, BeginScan, CheckAtOnce
<1> QED
    BY <1>1, HostInvariance, PTL DEF HostSpec, ScanIsTrue
=============================================================================
