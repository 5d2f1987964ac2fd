----------------------------- MODULE AlertProofs -----------------------------
(***************************************************************************)
(* Theorems about AlertDelivery, for channels and retry queues of any      *)
(* capacity and any number of alerts, refusals and faults.                 *)
(***************************************************************************)
EXTENDS AlertDelivery, SequenceTheorems, TLAPS

-----------------------------------------------------------------------------
\* The types, and an alert in hand whenever one is worked on.
AlertInHand == /\ alerting \in {"notifying", "recording"} => current \in 1..MaxAlerts
               /\ alerting = "draining" <=> pending # <<>>

TInv == AlertsTypeOK /\ AlertInHand

LEMMA InitTInv == ASSUME AlertAssumption, AlertsInit PROVE TInv
<1> USE DEF AlertAssumption, AlertsInit
<1>1. requests = <<>> /\ retry = <<>> /\ pending = <<>> /\ Len(<<>>) = 0
      OBVIOUS
<1>2. recorded \in [Alert -> DeliveryOutcome \cup {"none"}]
      OBVIOUS
<1> QED
    BY <1>1, <1>2 DEF TInv, AlertInHand, AlertsTypeOK, AlertPhase, Alert, DeliveryOutcome

\* The channel's senders are there or gone.
LEMMA HeldStays ==
    ASSUME held \in BOOLEAN, AlertsNext \/ UNCHANGED alertVars PROVE held' \in BOOLEAN
<1>1. CASE Drop
      BY <1>1, Zenon DEF Drop
<1>2. held' = held \/ Drop
      BY DEF AlertsNext, Submit, Take, Notified, Record, Drain, Retried, TaskEnds, alertVars
<1> QED
    BY <1>1, <1>2, Zenon

LEMMA EnqueuedType ==
    ASSUME AlertAssumption, NEW q \in Seq(1..MaxAlerts), Len(q) <= RetryCapacity,
           NEW a \in 1..MaxAlerts
    PROVE  /\ Enqueued(q, a) \in Seq(1..MaxAlerts)
           /\ Len(Enqueued(q, a)) <= RetryCapacity
<1> USE DEF AlertAssumption
<1>1. CASE Len(q) >= RetryCapacity
  <2>1. q # <<>> /\ Tail(q) \in Seq(1..MaxAlerts) /\ Len(Tail(q)) = Len(q) - 1
        BY <1>1
  <2> QED
      BY <1>1, <2>1 DEF Enqueued
<1>2. CASE ~(Len(q) >= RetryCapacity)
      BY <1>2 DEF Enqueued
<1> QED
    BY <1>1, <1>2

Troubles == [refusals : 0..MaxRefusals, faults : 0..MaxAlertFaults]

LEMMA TroubleTypes ==
    ASSUME AlertAssumption, NEW t \in Troubles
    PROVE  /\ t.refusals > 0 => [t EXCEPT !.refusals = @ - 1] \in Troubles
           /\ t.faults > 0 => [t EXCEPT !.faults = @ - 1] \in Troubles
<1>1. ASSUME NEW n \in 0..MaxRefusals PROVE [t EXCEPT !.refusals = n] \in Troubles
      BY DEF Troubles
<1>2. ASSUME NEW n \in 0..MaxAlertFaults PROVE [t EXCEPT !.faults = n] \in Troubles
      BY DEF Troubles
<1>3. /\ t.refusals > 0 => t.refusals - 1 \in 0..MaxRefusals
      /\ t.faults > 0 => t.faults - 1 \in 0..MaxAlertFaults
      BY DEF AlertAssumption, Troubles
<1> QED
    BY <1>1, <1>2, <1>3, Zenon

LEMMA SinkTypes ==
    ASSUME AlertAssumption, TInv, NEW a \in 1..MaxAlerts,
           \/ SinkAccepts(a) /\ UNCHANGED retry
           \/ SinkErrs(a) /\ retry' = Enqueued(retry, a)
    PROVE  /\ received' \subseteq 1..MaxAlerts
           /\ sinkTrouble' \in Troubles
           /\ retry' \in Seq(1..MaxAlerts) /\ Len(retry') <= RetryCapacity
<1> USE DEF AlertAssumption, TInv, AlertsTypeOK, Alert
<1>1. CASE SinkAccepts(a) /\ UNCHANGED retry
      BY <1>1 DEF SinkAccepts, Troubles
<1>2. CASE SinkErrs(a) /\ retry' = Enqueued(retry, a)
  <2>1. received' \subseteq 1..MaxAlerts
        BY <1>2 DEF SinkErrs
  <2>2. sinkTrouble' \in Troubles
        BY <1>2, TroubleTypes, Zenon DEF SinkErrs, Troubles
  <2>3. retry' \in Seq(1..MaxAlerts) /\ Len(retry') <= RetryCapacity
        BY <1>2, EnqueuedType
  <2> QED
      BY <2>1, <2>2, <2>3
<1> QED
    BY <1>1, <1>2

LEMMA TaskTypes ==
    ASSUME AlertAssumption, TInv,
           Take \/ TaskEnds \/ Drain \/ Notified \/ Record \/ Retried
    PROVE  TInv'
<1> USE DEF AlertAssumption, TInv, AlertInHand, AlertsTypeOK, AlertPhase,
            Alert, DeliveryOutcome
<1>1. held' \in BOOLEAN
      BY HeldStays, Zenon DEF AlertsNext, TInv, AlertsTypeOK
<1>2. CASE Take
  <2>1. current' \in 1..MaxAlerts /\ requests' \in Seq(1..MaxAlerts)
        /\ Len(requests') <= Capacity
        BY <1>2 DEF Take
  <2> QED
      BY <1>1, <1>2, <2>1 DEF Take
<1>3. CASE TaskEnds
      BY <1>1, <1>3 DEF TaskEnds
<1>4. CASE Drain
      BY <1>1, <1>4 DEF Drain
<1>5. CASE Notified
  <2>1. current \in 1..MaxAlerts
        BY <1>5 DEF Notified
  <2>2. \/ SinkAccepts(current) /\ UNCHANGED retry
        \/ SinkErrs(current) /\ retry' = Enqueued(retry, current)
        BY <1>5 DEF Notified
  <2>3. /\ received' \subseteq 1..MaxAlerts
        /\ sinkTrouble' \in Troubles
        /\ retry' \in Seq(1..MaxAlerts) /\ Len(retry') <= RetryCapacity
        BY <2>1, <2>2, SinkTypes
  <2> QED
      BY <1>1, <1>5, <2>1, <2>3 DEF Notified, Troubles
<1>6. CASE Record
  <2>1. current \in 1..MaxAlerts
        BY <1>6 DEF Record
  <2>2. recorded' \in [1..MaxAlerts -> {"sent", "queued"} \cup {"none"}]
        BY <1>6, <2>1 DEF Record
  <2>3. sinkTrouble' \in Troubles
        BY <1>6, TroubleTypes, Zenon DEF Record, Troubles
  <2> QED
      BY <1>1, <1>6, <2>2, <2>3 DEF Record, Troubles
<1>7. CASE Retried
  <2>1. pending # <<>> /\ Head(pending) \in 1..MaxAlerts
        BY <1>7 DEF Retried
  <2>2. \/ SinkAccepts(Head(pending)) /\ UNCHANGED retry
        \/ /\ SinkErrs(Head(pending))
           /\ retry' = Enqueued(retry, Head(pending))
        BY <1>7 DEF Retried
  <2>3. /\ received' \subseteq 1..MaxAlerts
        /\ sinkTrouble' \in Troubles
        /\ retry' \in Seq(1..MaxAlerts) /\ Len(retry') <= RetryCapacity
        BY <2>1, <2>2, SinkTypes
  <2>4. pending' \in Seq(1..MaxAlerts) /\ Len(pending') = Len(pending) - 1
        BY <1>7, <2>1 DEF Retried
  <2>5. alerting' = "draining" <=> pending' # <<>>
    <3>1. pending' # <<>> <=> Len(pending) # 1
      <4>1. Len(pending) \in Nat \ {0} /\ Len(pending') = Len(pending) - 1
            BY <2>1, <2>4, EmptySeq
      <4>2. pending' # <<>> => Len(pending') # 0
            BY <2>4, EmptySeq
      <4>3. pending' = <<>> => Len(pending') = 0
            BY EmptySeq
      <4> QED
          BY <4>1, <4>2, <4>3
    <3>2. alerting' = IF Len(pending) = 1 THEN "waiting" ELSE "draining"
          BY <1>7 DEF Retried
    <3> QED
        BY <3>1, <3>2
  <2>6. alerting' \in {"waiting", "draining"}
        BY <1>7 DEF Retried
  <2>7. UNCHANGED <<requests, current, outcome, recorded, submitted>>
        BY <1>7 DEF Retried
  <2>8. Len(pending') <= RetryCapacity
        BY <2>1, <2>4
  <2> QED
      BY <1>1, <2>3, <2>4, <2>5, <2>6, <2>7, <2>8 DEF Troubles
<1> QED
    BY <1>2, <1>3, <1>4, <1>5, <1>6, <1>7

\* What the senders do keeps the channel typed.
LEMMA SubmitTypes ==
    ASSUME AlertAssumption, TInv, Submit PROVE TInv'
<1> USE DEF AlertAssumption, TInv, AlertInHand, AlertsTypeOK,
            Submit, Alert
<1>1. submitted' \in 0..MaxAlerts /\ submitted + 1 \in 1..MaxAlerts
      OBVIOUS
<1>2. requests' \in Seq(1..MaxAlerts) /\ Len(requests') <= Capacity
  <2>1. CASE Len(requests) < Capacity
        BY <1>1, <2>1
  <2>2. CASE ~(Len(requests) < Capacity)
        BY <2>2
  <2> QED
      BY <2>1, <2>2
<1>3. held' \in BOOLEAN
      BY HeldStays, Zenon DEF AlertsNext, TInv, AlertsTypeOK
<1> QED
    BY <1>1, <1>2, <1>3

LEMMA NextTInv == ASSUME AlertAssumption, TInv, [AlertsNext]_alertVars PROVE TInv'
<1>0. held' \in BOOLEAN
      BY HeldStays, Zenon DEF TInv, AlertsTypeOK
<1>1. CASE Submit
      BY <1>1, SubmitTypes
<1>2. CASE Drop
  <2>1. UNCHANGED <<requests, alerting, current, outcome, retry, pending, recorded,
                    received, submitted, sinkTrouble>>
        BY <1>2 DEF Drop
  <2> QED
      BY <1>0, <2>1 DEF TInv, AlertInHand, AlertsTypeOK
<1>3. CASE Take \/ TaskEnds \/ Drain \/ Notified \/ Record \/ Retried
      BY <1>3, TaskTypes
<1>4. CASE UNCHANGED alertVars
      BY <1>0, <1>4 DEF alertVars, TInv, AlertInHand, AlertsTypeOK
<1> QED
    BY <1>1, <1>2, <1>3, <1>4 DEF AlertsNext

LEMMA AlwaysTInv == ASSUME AlertAssumption PROVE AlertsSpec => []TInv
<1> USE AlertAssumption
<1>1. AlertsInit => TInv
      BY InitTInv
<1>2. TInv /\ [AlertsNext]_alertVars => TInv'
      BY NextTInv
<1> QED
    BY <1>1, <1>2, PTL DEF AlertsSpec

\* Every reachable state of the alert task is well typed: its channel, its retry queue
\* and the copy a drain works on keep within their capacities, whatever the sink does.
THEOREM AlertsTypeCorrect == ASSUME AlertAssumption PROVE AlertsSpec => []AlertsTypeOK
<1>1. TInv => AlertsTypeOK
      BY DEF TInv
<1>2. AlertsSpec => []TInv
      BY AlwaysTInv
<1> QED
    BY <1>1, <1>2, PTL

-----------------------------------------------------------------------------
\* The alert in hand, once its outcome is known to be "sent", has reached the sink.
SentIsReceived == alerting = "recording" /\ outcome = "sent" => current \in received

HInv == HistoryIsTrue /\ SentIsReceived

LEMMA InitHInv == ASSUME AlertsInit PROVE HInv
BY DEF AlertsInit, HInv, HistoryIsTrue, SentIsReceived

LEMMA NextHInv == ASSUME TInv, HInv, [AlertsNext]_alertVars PROVE HInv'
<1> USE DEF HInv, HistoryIsTrue, SentIsReceived
<1>1. CASE Submit \/ Drop \/ Take \/ TaskEnds \/ Drain
      BY <1>1 DEF Submit, Drop, Take, TaskEnds, Drain
<1>2. CASE Notified
      BY <1>2 DEF Notified, SinkAccepts, SinkErrs
<1>3. CASE Record
  <2>1. recorded \in [Alert -> DeliveryOutcome \cup {"none"}]
        BY DEF TInv, AlertsTypeOK
  <2> QED
      BY <1>3, <2>1 DEF Record
<1>4. CASE Retried
      BY <1>4 DEF Retried, SinkAccepts, SinkErrs
<1>5. CASE UNCHANGED alertVars
      BY <1>5 DEF alertVars
<1> QED
    BY <1>1, <1>2, <1>3, <1>4, <1>5 DEF AlertsNext

\* handle_request and drain_retries: an alert the history calls sent has reached the
\* sink, whatever is retried, pushed out or never recorded.
THEOREM HistoryStaysTrue == ASSUME AlertAssumption PROVE AlertsSpec => []HistoryIsTrue
<1>1. AlertsSpec => []TInv
      BY AlwaysTInv
<1>2. AlertsInit => HInv
      BY InitHInv
<1>3. TInv /\ HInv /\ [AlertsNext]_alertVars => HInv'
      BY NextHInv
<1>4. HInv => HistoryIsTrue
      BY DEF HInv
<1> QED
    BY <1>1, <1>2, <1>3, <1>4, PTL DEF AlertsSpec

-----------------------------------------------------------------------------
\* The order of what the alert task keeps, in terms of what each queue holds.
Elements(s)  == {s[i] : i \in DOMAIN s}
Before(s, t) == \A x \in Elements(s), y \in Elements(t) : x < y

Hand == IF alerting = "notifying" THEN <<current>> ELSE <<>>

OInv ==
    /\ Increasing(retry) /\ Increasing(pending)
    /\ Increasing(requests)
    /\ Before(retry, pending) /\ Before(retry, Hand) /\ Before(retry, requests)
    /\ Before(pending, requests) /\ Before(Hand, requests)
    /\ \A x \in Elements(retry) \cup Elements(pending) \cup Elements(Hand)
                \cup Elements(requests) : x <= submitted

LEMMA ElementsOfShort == /\ Elements(<<>>) = {}
                         /\ \A x : Elements(<<x>>) = {x}
BY DEF Elements

LEMMA TailIncreases ==
    ASSUME NEW s \in Seq(Nat), s # <<>>, Increasing(s)
    PROVE  /\ Increasing(Tail(s))
           /\ Elements(Tail(s)) \subseteq Elements(s)
           /\ Head(s) \in Elements(s)
           /\ \A x \in Elements(Tail(s)) : Head(s) < x
<1>1. /\ Tail(s) \in Seq(Nat) /\ Len(Tail(s)) = Len(s) - 1
      /\ \A i \in 1 .. Len(Tail(s)) : Tail(s)[i] = s[i + 1]
      BY HeadTailProperties
<1>2. /\ Len(s) \in Nat \ {0} /\ DOMAIN s = 1 .. Len(s)
      /\ DOMAIN Tail(s) = 1 .. Len(s) - 1
      /\ Head(s) = s[1]
      BY <1>1, EmptySeq, LenProperties
<1>3. \A i \in DOMAIN Tail(s) : i + 1 \in DOMAIN s /\ Tail(s)[i] = s[i + 1] /\ 1 < i + 1
      BY <1>1, <1>2
<1>4. Increasing(Tail(s))
      BY <1>2, <1>3 DEF Increasing
<1>5. \A x \in Elements(Tail(s)) : x \in Elements(s) /\ Head(s) < x
      BY <1>2, <1>3 DEF Elements, Increasing
<1> QED
    BY <1>2, <1>4, <1>5 DEF Elements

LEMMA ConcatIncreases ==
    ASSUME NEW s \in Seq(Nat), NEW t \in Seq(Nat), Increasing(s),
           Increasing(t), Before(s, t)
    PROVE  /\ s \o t \in Seq(Nat)
           /\ Increasing(s \o t)
           /\ Elements(s \o t) \subseteq Elements(s) \cup Elements(t)
<1>1. /\ s \o t \in Seq(Nat) /\ Len(s \o t) = Len(s) + Len(t)
      /\ \A i \in 1 .. Len(s) + Len(t) :
            (s \o t)[i] = IF i <= Len(s) THEN s[i] ELSE t[i - Len(s)]
      BY ConcatProperties
<1>2. /\ Len(s) \in Nat /\ Len(t) \in Nat
      /\ DOMAIN s = 1 .. Len(s) /\ DOMAIN t = 1 .. Len(t)
      /\ DOMAIN (s \o t) = 1 .. Len(s) + Len(t)
      BY <1>1, LenProperties
<1>3. ASSUME NEW i \in DOMAIN (s \o t)
      PROVE  \/ i <= Len(s) /\ i \in DOMAIN s /\ (s \o t)[i] = s[i]
             \/ ~(i <= Len(s)) /\ i - Len(s) \in DOMAIN t /\ (s \o t)[i] = t[i - Len(s)]
      BY <1>1, <1>2
<1>4. ASSUME NEW i \in DOMAIN (s \o t), NEW j \in DOMAIN (s \o t), i < j
      PROVE  (s \o t)[i] < (s \o t)[j]
  <2>1. CASE j <= Len(s)
        BY <1>2, <1>3, <1>4, <2>1 DEF Increasing
  <2>2. CASE i <= Len(s) /\ ~(j <= Len(s))
        BY <1>3, <2>2 DEF Before, Elements
  <2>3. CASE ~(i <= Len(s)) /\ ~(j <= Len(s))
    <3>1. i - Len(s) < j - Len(s)
          BY <1>2, <1>4
    <3> QED
        BY <1>3, <2>3, <3>1 DEF Increasing
  <2> QED
      BY <1>2, <1>4, <2>1, <2>2, <2>3
<1>5. Increasing(s \o t)
      BY <1>4 DEF Increasing
<1>6. Elements(s \o t) \subseteq Elements(s) \cup Elements(t)
      BY <1>3 DEF Elements
<1> QED
    BY <1>1, <1>5, <1>6

LEMMA AppendIncreases ==
    ASSUME NEW s \in Seq(Nat), Increasing(s), NEW x \in Nat,
           \A y \in Elements(s) : y < x
    PROVE  /\ Append(s, x) \in Seq(Nat)
           /\ Increasing(Append(s, x))
           /\ Elements(Append(s, x)) \subseteq Elements(s) \cup {x}
<1>1. Append(s, x) = s \o <<x>> /\ <<x>> \in Seq(Nat)
      OBVIOUS
<1>2. Increasing(<<x>>)
      BY DEF Increasing
<1>3. Before(s, <<x>>)
      BY ElementsOfShort DEF Before
<1>4. /\ s \o <<x>> \in Seq(Nat)
      /\ Increasing(s \o <<x>>)
      /\ Elements(s \o <<x>>) \subseteq Elements(s) \cup Elements(<<x>>)
      BY <1>1, <1>2, <1>3, ConcatIncreases
<1> QED
    BY <1>1, <1>4, ElementsOfShort

LEMMA EnqueuedIncreases ==
    ASSUME AlertAssumption, NEW q \in Seq(Nat), Increasing(q), NEW a \in Nat,
           \A y \in Elements(q) : y < a
    PROVE  /\ Increasing(Enqueued(q, a))
           /\ Elements(Enqueued(q, a)) \subseteq Elements(q) \cup {a}
<1> USE DEF AlertAssumption
<1>1. CASE Len(q) >= RetryCapacity
  <2>1. q # <<>>
        BY <1>1
  <2>2. Tail(q) \in Seq(Nat)
        BY <2>1
  <2>3. /\ Increasing(Tail(q)) /\ Elements(Tail(q)) \subseteq Elements(q)
        BY <2>1, TailIncreases
  <2>4. Enqueued(q, a) = Append(Tail(q), a)
        BY <1>1 DEF Enqueued
  <2>5. \A y \in Elements(Tail(q)) : y < a
        BY <2>3
  <2>6. /\ Increasing(Append(Tail(q), a))
        /\ Elements(Append(Tail(q), a)) \subseteq Elements(Tail(q)) \cup {a}
        BY <2>2, <2>3, <2>5, AppendIncreases
  <2> QED
      BY <2>3, <2>4, <2>6
<1>2. CASE ~(Len(q) >= RetryCapacity)
  <2>1. Enqueued(q, a) = Append(q, a)
        BY <1>2 DEF Enqueued
  <2> QED
      BY <2>1, AppendIncreases
<1> QED
    BY <1>1, <1>2

\* What the types say that the order needs.
LEMMA Queues ==
    ASSUME AlertAssumption, TInv
    PROVE  /\ retry \in Seq(Nat) /\ pending \in Seq(Nat) /\ requests \in Seq(Nat)
           /\ submitted \in Nat
           /\ alerting \in {"notifying", "recording"} => current \in Nat
           /\ alerting # "draining" => pending = <<>>
           /\ Elements(retry) \cup Elements(pending) \cup Elements(Hand)
                \cup Elements(requests) \subseteq Nat
<1>1. /\ retry \in Seq(1..MaxAlerts) /\ pending \in Seq(1..MaxAlerts)
      /\ requests \in Seq(1..MaxAlerts)
      BY DEF TInv, AlertsTypeOK, Alert
<1>2. 1..MaxAlerts \subseteq Nat
      BY DEF AlertAssumption
<1>3. retry \in Seq(Nat) /\ pending \in Seq(Nat) /\ requests \in Seq(Nat)
      BY <1>1, <1>2, SeqMonotonic
<1>4. /\ submitted \in Nat
      /\ alerting \in {"notifying", "recording"} => current \in Nat
      /\ alerting # "draining" => pending = <<>>
      BY <1>2 DEF TInv, AlertsTypeOK, AlertInHand
<1>5. \A q \in Seq(Nat) : Elements(q) \subseteq Nat
      BY DEF Elements
<1>6. Elements(Hand) \subseteq Nat
      BY <1>4, ElementsOfShort DEF Hand
<1> QED
    BY <1>3, <1>4, <1>5, <1>6

LEMMA InitOInv == ASSUME AlertsInit PROVE OInv
<1>1. retry = <<>> /\ pending = <<>> /\ requests = <<>> /\ Hand = <<>>
      BY DEF AlertsInit, Hand
<1>2. Increasing(<<>>)
      BY DEF Increasing
<1> QED
    BY <1>1, <1>2, ElementsOfShort DEF OInv, Before

\* An alert submitted is newer than everything kept.
LEMMA SubmitKeepsOInv ==
    ASSUME AlertAssumption, TInv, OInv, Submit PROVE OInv'
<1>1. /\ UNCHANGED <<alerting, current, retry, pending>> /\ submitted' = submitted + 1
      /\ requests' = requests \/ requests' = Append(requests, submitted + 1)
      BY DEF Submit
<1>2. Hand' = Hand
      BY <1>1 DEF Hand
<1>3. submitted \in Nat /\ requests \in Seq(Nat)
      BY Queues
<1>4. /\ Increasing(requests')
      /\ Elements(requests') \subseteq Elements(requests) \cup {submitted + 1}
  <2>1. \A x \in Elements(requests) : x < submitted + 1
    <3>1. Elements(requests) \subseteq Nat
          BY <1>3 DEF Elements
    <3> QED
        BY <1>3, <3>1 DEF OInv
  <2>2. CASE requests' = requests
        BY <2>2 DEF OInv
  <2>3. CASE requests' = Append(requests, submitted + 1)
    <3>1. submitted + 1 \in Nat /\ Increasing(requests)
          BY <1>3 DEF OInv
    <3> QED
        BY <1>3, <2>1, <2>3, <3>1, AppendIncreases
  <2> QED
      BY <1>1, <2>2, <2>3
<1>5. \A x \in Elements(retry) \cup Elements(pending) \cup Elements(Hand)
              \cup Elements(requests) : x < submitted' /\ x <= submitted'
      BY <1>1, Queues DEF OInv
<1>6. submitted + 1 = submitted' /\ submitted' <= submitted'
      BY <1>1, <1>3
<1> QED
    BY <1>1, <1>2, <1>4, <1>5, <1>6 DEF OInv, Before
\* The alert task moves an alert from the front of one queue to the back of the one
\* before it, or takes it away.
LEMMA TakeKeepsOInv == ASSUME AlertAssumption, TInv, OInv, Take PROVE OInv'
<1>1. /\ requests # <<>> /\ current' = Head(requests) /\ requests' = Tail(requests)
      /\ alerting = "waiting" /\ alerting' = "notifying"
      /\ UNCHANGED <<retry, pending, submitted>>
      BY DEF Take
<1>2. pending = <<>> /\ Elements(pending) = {}
      BY <1>1, Queues, ElementsOfShort
<1>3. /\ Increasing(requests')
      /\ Elements(requests') \subseteq Elements(requests)
      /\ Head(requests) \in Elements(requests)
      /\ \A x \in Elements(requests') : Head(requests) < x
      BY <1>1, Queues, TailIncreases DEF OInv
<1>4. Hand' = <<Head(requests)>> /\ Elements(Hand') = {Head(requests)}
      BY <1>1, ElementsOfShort DEF Hand
<1> QED
    BY <1>1, <1>2, <1>3, <1>4 DEF OInv, Before

LEMMA DrainKeepsOInv == ASSUME AlertAssumption, TInv, OInv, Drain PROVE OInv'
<1>1. /\ pending' = retry /\ retry' = <<>>
      /\ alerting = "waiting" /\ alerting' = "draining"
      /\ UNCHANGED <<requests, current, submitted>>
      BY DEF Drain
<1>2. Hand = <<>> /\ Hand' = <<>> /\ Elements(<<>>) = {}
      BY <1>1, ElementsOfShort DEF Hand
<1>3. Increasing(<<>>)
      BY DEF Increasing
<1> QED
    BY <1>1, <1>2, <1>3 DEF OInv, Before

LEMMA NotifiedKeepsOInv == ASSUME AlertAssumption, TInv, OInv, Notified PROVE OInv'
<1>1. /\ alerting = "notifying" /\ alerting' = "recording"
      /\ retry' = retry \/ retry' = Enqueued(retry, current)
      /\ UNCHANGED <<requests, current, pending, submitted>>
      BY DEF Notified
<1>2. /\ current \in Nat /\ pending = <<>>
      /\ Hand = <<current>> /\ Elements(Hand) = {current}
      /\ Hand' = <<>> /\ Elements(Hand') = {} /\ Elements(pending) = {}
      BY <1>1, Queues, ElementsOfShort DEF Hand
<1>3. /\ Increasing(retry')
      /\ Elements(retry') \subseteq Elements(retry) \cup {current}
  <2>1. CASE retry' = retry
        BY <2>1 DEF OInv
  <2>2. CASE retry' = Enqueued(retry, current)
    <3>1. \A x \in Elements(retry) : x < current
          BY <1>2 DEF OInv, Before
    <3>2. retry \in Seq(Nat) /\ Increasing(retry)
          BY Queues DEF OInv
    <3> QED
        BY <1>2, <2>2, <3>1, <3>2, EnqueuedIncreases
  <2> QED
      BY <1>1, <2>1, <2>2
<1> QED
    BY <1>1, <1>2, <1>3 DEF OInv, Before

LEMMA RetriedKeepsOInv == ASSUME AlertAssumption, TInv, OInv, Retried PROVE OInv'
<1>1. /\ alerting = "draining" /\ pending' = Tail(pending)
      /\ alerting' \in {"waiting", "draining"}
      /\ retry' = retry \/ retry' = Enqueued(retry, Head(pending))
      /\ UNCHANGED <<requests, current, submitted>>
      BY DEF Retried
<1>2. /\ Hand = <<>> /\ Hand' = <<>> /\ Elements(<<>>) = {}
      BY <1>1, ElementsOfShort DEF Hand
<1>3. pending \in Seq(Nat) /\ pending # <<>> /\ Head(pending) \in Nat
      BY <1>1, Queues DEF TInv, AlertInHand
<1>4. /\ Increasing(pending')
      /\ Elements(pending') \subseteq Elements(pending)
      /\ Head(pending) \in Elements(pending)
      /\ \A x \in Elements(pending') : Head(pending) < x
      BY <1>1, <1>3, TailIncreases DEF OInv
<1>5. /\ Increasing(retry')
      /\ Elements(retry') \subseteq Elements(retry) \cup {Head(pending)}
  <2>1. CASE retry' = retry
        BY <2>1 DEF OInv
  <2>2. CASE retry' = Enqueued(retry, Head(pending))
    <3>1. \A x \in Elements(retry) : x < Head(pending)
          BY <1>4 DEF OInv, Before
    <3>2. retry \in Seq(Nat) /\ Increasing(retry)
          BY Queues DEF OInv
    <3> QED
        BY <1>3, <2>2, <3>1, <3>2, EnqueuedIncreases
  <2> QED
      BY <1>1, <2>1, <2>2
<1> QED
    BY <1>1, <1>2, <1>4, <1>5 DEF OInv, Before

\* One step of each kind.
LEMMA NextOInv == ASSUME AlertAssumption, TInv, OInv, [AlertsNext]_alertVars PROVE OInv'
<1>1. CASE Submit
      BY <1>1, SubmitKeepsOInv
<1>2. CASE Take \/ Drain \/ Notified \/ Retried
      BY <1>2, TakeKeepsOInv, DrainKeepsOInv, NotifiedKeepsOInv, RetriedKeepsOInv
<1>3. CASE Record \/ TaskEnds
  <2>1. /\ UNCHANGED <<retry, pending, requests, submitted>>
        /\ Hand = <<>> /\ Hand' = <<>>
        BY <1>3 DEF Record, TaskEnds, Hand
  <2> QED
      BY <2>1 DEF OInv, Before
<1>4. CASE Drop \/ UNCHANGED alertVars
      BY <1>4 DEF Drop, alertVars, OInv, Before, Hand
<1> QED
    BY <1>1, <1>2, <1>3, <1>4 DEF AlertsNext

LEMMA OInvIsOrder == ASSUME AlertAssumption, TInv, OInv PROVE KeptInOrder
<1>1. /\ retry \in Seq(Nat) /\ pending \in Seq(Nat) /\ requests \in Seq(Nat)
      /\ Elements(pending) = {} \/ Elements(Hand) = {}
      BY Queues, ElementsOfShort DEF Hand
<1>2. Hand \in Seq(Nat) /\ Increasing(Hand)
      BY Queues DEF Hand, Increasing
<1>3. /\ retry \o pending \in Seq(Nat)
      /\ Increasing(retry \o pending)
      /\ Elements(retry \o pending) \subseteq Elements(retry) \cup Elements(pending)
      BY <1>1, ConcatIncreases DEF OInv
<1>4. Before(retry \o pending, Hand)
      BY <1>1, <1>3 DEF OInv, Before
<1>5. /\ (retry \o pending) \o Hand \in Seq(Nat)
      /\ Increasing((retry \o pending) \o Hand)
      /\ Elements((retry \o pending) \o Hand)
            \subseteq Elements(retry \o pending) \cup Elements(Hand)
      BY <1>2, <1>3, <1>4, ConcatIncreases
<1>6. Before((retry \o pending) \o Hand, requests)
      BY <1>3, <1>5 DEF OInv, Before
<1>7. Increasing(((retry \o pending) \o Hand) \o requests)
      BY <1>1, <1>5, <1>6, ConcatIncreases DEF OInv
<1> QED
    BY <1>7 DEF KeptInOrder, Waiting, Hand

\* RetryingNotifier::enqueue and drain_retries: what is kept for retry stays in the
\* order it was submitted, before everything not tried yet and each alert in one place
\* only, with queues of any size and however many retries fail or overflow.
THEOREM RetriesKeepOrder == ASSUME AlertAssumption PROVE AlertsSpec => []KeptInOrder
<1> USE AlertAssumption
<1>1. AlertsSpec => []TInv
      BY AlwaysTInv
<1>2. AlertsInit => OInv
      BY InitOInv
<1>3. TInv /\ OInv /\ [AlertsNext]_alertVars => OInv'
      BY NextOInv
<1>4. TInv /\ OInv => KeptInOrder
      BY OInvIsOrder
<1> QED
    BY <1>1, <1>2, <1>3, <1>4, PTL DEF AlertsSpec
=============================================================================
