---------------------------- MODULE AlertDelivery ----------------------------
(***************************************************************************)
(* The alert task of crates/engine/src/alerts.rs and the RetryingNotifier  *)
(* of crates/provider/src/policy.rs it is the only user of: requests come  *)
(* from the scheduler and the watchdog through a bounded channel; each is  *)
(* tried at the sink once, kept for retry if that failed, and recorded in  *)
(* alert_events; a ticker retries what is kept.                            *)
(*                                                                         *)
(* It is one task: while it awaits the sink or the store nothing else of   *)
(* it runs, and only the senders go on.                                    *)
(***************************************************************************)
EXTENDS Naturals, Sequences

CONSTANTS Capacity,        \* AlertConfig::queue_capacity
          RetryCapacity,   \* RetryingNotifier::capacity
          MaxAlerts,       \* bound on the alerts submitted
          MaxRefusals,     \* bound on the sink's errors
          MaxAlertFaults   \* bound on the inserts that fail

\* What is assumed of the constants.
AlertAssumption ==
    /\ Capacity \in Nat \ {0} /\ RetryCapacity \in Nat \ {0}
    /\ MaxAlerts \in Nat /\ MaxRefusals \in Nat /\ MaxAlertFaults \in Nat

VARIABLES requests,     \* the channel
          alerting,     \* what the task awaits
          current,      \* the request handle_request has in hand, or 0
          outcome,      \* its DeliveryOutcome
          retry,        \* RetryingNotifier::queue
          pending,      \* drain_retries' own copy of it
          held,         \* the scheduler or the watchdog still holds an Alerts
          recorded,     \* alert_events: the delivery outcome of each alert
          received,     \* history: the alerts the sink has seen
          submitted,    \* history: how many were submitted
          sinkTrouble   \* errors left to a run

alertVars == <<requests, alerting, current, outcome, retry, pending, held, recorded,
               received, submitted, sinkTrouble>>

\* Alerts are told apart by the number they were submitted under.
Alert      == 1..MaxAlerts
AlertPhase == {"waiting", "notifying", "recording", "draining", "ended"}
DeliveryOutcome == {"sent", "queued"}

-----------------------------------------------------------------------------
\* Alerts::submit: never blocks, and drops the newest request into a full channel.
Submit ==
    /\ held
    /\ submitted < MaxAlerts
    /\ submitted' = submitted + 1
    /\ requests' = IF Len(requests) < Capacity
                   THEN Append(requests, submitted + 1) ELSE requests
    /\ UNCHANGED <<alerting, current, outcome, retry, pending, held, recorded,
                   received, sinkTrouble>>

\* The scheduler and the watchdog have both ended.
Drop ==
    /\ held
    /\ held' = FALSE
    /\ UNCHANGED <<requests, alerting, current, outcome, retry, pending, recorded,
                   received, submitted, sinkTrouble>>

-----------------------------------------------------------------------------
\* Mutant of Enqueued: at the front.

EnqueuedFirst(queue, alert) ==
    <<alert>> \o (IF Len(queue) >= RetryCapacity THEN Tail(queue) ELSE queue)

\* RetryingNotifier::enqueue: into a full queue at the expense of the oldest.
Enqueued(queue, alert) ==
    Append(IF Len(queue) >= RetryCapacity THEN Tail(queue) ELSE queue, alert)

\* The sink's answer to one notify: it has the alert, or an error comes back, which
\* may be its answer that was lost.
SinkAccepts(alert) == /\ received' = received \cup {alert}
                      /\ UNCHANGED sinkTrouble

SinkErrs(alert) == /\ sinkTrouble.refusals > 0
                   /\ sinkTrouble' = [sinkTrouble EXCEPT !.refusals = @ - 1]
                   /\ received' \in {received, received \cup {alert}}

\* handle_request, up to its await of the sink.
Take ==
    /\ alerting = "waiting"
    /\ requests # <<>>
    /\ current' = Head(requests)
    /\ requests' = Tail(requests)
    /\ alerting' = "notifying"
    /\ UNCHANGED <<outcome, retry, pending, held, recorded, received, submitted, sinkTrouble>>

\* Mutant of Notified: the outcome is taken for granted.
NotifiedForGranted ==
    /\ alerting = "notifying"
    /\ \/ SinkAccepts(current) /\ UNCHANGED retry
       \/ SinkErrs(current) /\ retry' = Enqueued(retry, current)
    /\ outcome' = "sent"
    /\ alerting' = "recording"
    /\ UNCHANGED <<requests, current, pending, held, recorded, submitted>>

\* notify_recording_outcome returns.
Notified ==
    /\ alerting = "notifying"
    /\ \/ SinkAccepts(current) /\ outcome' = "sent" /\ UNCHANGED retry
       \/ SinkErrs(current) /\ outcome' = "queued" /\ retry' = Enqueued(retry, current)
    /\ alerting' = "recording"
    /\ UNCHANGED <<requests, current, pending, held, recorded, submitted>>

\* insert_alert_event returns; that it failed is only logged.
Record ==
    /\ alerting = "recording"
    /\ \/ recorded' = [recorded EXCEPT ![current] = outcome] /\ UNCHANGED sinkTrouble
       \/ /\ sinkTrouble.faults > 0
          /\ sinkTrouble' = [sinkTrouble EXCEPT !.faults = @ - 1]
          /\ UNCHANGED recorded
    /\ alerting' = "waiting"
    /\ current' = 0
    /\ UNCHANGED <<requests, outcome, retry, pending, held, received, submitted>>

\* Mutant of Drain: it waits for a full retry queue.
DrainWhenFull ==
    /\ alerting = "waiting"
    /\ Len(retry) = RetryCapacity
    /\ pending' = retry
    /\ retry' = <<>>
    /\ alerting' = "draining"
    /\ UNCHANGED <<requests, current, outcome, held, recorded, received, submitted, sinkTrouble>>

\* The retry ticker fires: drain_retries takes the whole queue.
Drain ==
    /\ alerting = "waiting"
    /\ retry # <<>>
    /\ pending' = retry
    /\ retry' = <<>>
    /\ alerting' = "draining"
    /\ UNCHANGED <<requests, current, outcome, held, recorded, received, submitted, sinkTrouble>>

\* drain_retries: one alert tried again, and put back at the end if that failed.
Retried ==
    /\ alerting = "draining"
    /\ \/ SinkAccepts(Head(pending)) /\ UNCHANGED retry
       \/ SinkErrs(Head(pending)) /\ retry' = Enqueued(retry, Head(pending))
    /\ pending' = Tail(pending)
    /\ alerting' = IF Len(pending) = 1 THEN "waiting" ELSE "draining"
    /\ UNCHANGED <<requests, current, outcome, held, recorded, submitted>>

\* The channel is empty and closed: the task returns, whatever it still keeps.
TaskEnds ==
    /\ alerting = "waiting"
    /\ requests = <<>>
    /\ ~held
    /\ alerting' = "ended"
    /\ UNCHANGED <<requests, current, outcome, retry, pending, held, recorded,
                   received, submitted, sinkTrouble>>

-----------------------------------------------------------------------------
AlertsInit ==
    /\ requests = <<>>
    /\ alerting = "waiting"
    /\ current = 0
    /\ outcome = "sent"
    /\ retry = <<>>
    /\ pending = <<>>
    /\ held = TRUE
    /\ recorded = [alert \in Alert |-> "none"]
    /\ received = {}
    /\ submitted = 0
    /\ sinkTrouble = [refusals |-> MaxRefusals, faults |-> MaxAlertFaults]

AlertsNext == \/ Submit \/ Drop
              \/ Take \/ Notified \/ Record
              \/ Drain \/ Retried
              \/ TaskEnds

AlertsSpec == AlertsInit /\ [][AlertsNext]_alertVars

\* The task runs on and the store answers.  select! picks among its ready branches at
\* random, so the ticker's is taken though requests keep coming in between.  The
\* webhook client is built without a timeout, so that the sink answers is an
\* assumption about the sink.
AlertsFairness == /\ WF_alertVars(Take \/ TaskEnds)
                  /\ WF_alertVars(Notified) /\ WF_alertVars(Retried)
                  /\ WF_alertVars(Record)
                  /\ SF_alertVars(Drain)

AlertsFairSpec == AlertsSpec /\ AlertsFairness

-----------------------------------------------------------------------------
(***************************************************************************)
(* Properties.                                                             *)
(***************************************************************************)
AlertsTypeOK ==
    /\ requests \in Seq(Alert) /\ Len(requests) <= Capacity
    /\ alerting \in AlertPhase
    /\ current \in Alert \cup {0}
    /\ outcome \in DeliveryOutcome
    /\ retry \in Seq(Alert) /\ Len(retry) <= RetryCapacity
    /\ pending \in Seq(Alert) /\ Len(pending) <= RetryCapacity
    /\ held \in BOOLEAN
    /\ recorded \in [Alert -> DeliveryOutcome \cup {"none"}]
    /\ received \subseteq Alert
    /\ submitted \in 0..MaxAlerts
    /\ sinkTrouble \in [refusals : 0..MaxRefusals, faults : 0..MaxAlertFaults]

Increasing(s) == \A i, j \in DOMAIN s : i < j => s[i] < s[j]

\* What is kept for retry stays in the order it was submitted, before everything not
\* tried yet and each alert in one place only, through failed retries, overflows and
\* drains begun again.
Waiting == retry \o pending
           \o (IF alerting = "notifying" THEN <<current>> ELSE <<>>)
           \o requests

KeptInOrder == Increasing(Waiting)

\* An alert the history calls sent has reached the sink, whatever was retried or
\* pushed out meanwhile.
HistoryIsTrue == \A alert \in Alert : recorded[alert] = "sent" => alert \in received

\* A sink that errs only so often gets every alert that is kept, unless newer ones
\* push it out or the engine ends.
Kept(alert) == \E i \in DOMAIN (retry \o pending) : (retry \o pending)[i] = alert

KeptIsRetried ==
    \A alert \in Alert :
        Kept(alert) ~> (alert \in received \/ ~Kept(alert) \/ alerting = "ended")
=============================================================================
