------------------------------ MODULE MonitorView ------------------------------
(***************************************************************************)
(* The view of one monitor in the browser (MonitorView of web/src/App.tsx  *)
(* and the Dashboard above it): which monitor it names, and whose history  *)
(* it shows.  The monitor is the one selected or, once that is gone from   *)
(* the list, the first; the history is fetched when the monitor changes    *)
(* and only then.  Selection and list change while fetches are under way,  *)
(* and these are answered in any order or not at all.                      *)
(***************************************************************************)
EXTENDS Naturals, FiniteSetsExt

CONSTANTS MonitorId,    \* lists are in ascending order
          NoMonitor,    \* no monitor, no fetch
          MaxFetches    \* bound on the fetches under way

VARIABLES listed,     \* the monitors of the snapshot
          selected,   \* selectedMonitorId
          open,       \* activeView = "monitor": the view is mounted
          history,    \* whose results the view shows, NoMonitor for none
          fetches     \* getMonitorHistory: [of, current]

viewVars == <<listed, selected, open, history, fetches>>

FetchSlot == 1..MaxFetches
Fetch     == [of : MonitorId, current : BOOLEAN]

\* What is assumed of the constants.
MonitorViewAssumption ==
    /\ MonitorId \subseteq Nat /\ MonitorId # {}
    /\ MaxFetches \in Nat \ {0}
    /\ NoMonitor \notin Nat \cup Fetch

\* snapshot.monitors.find(...) ?? snapshot.monitors[0]
Named(list, choice) ==
    IF choice \in list THEN choice ELSE IF list = {} THEN NoMonitor ELSE Min(list)

monitorId == IF open THEN Named(listed, selected) ELSE NoMonitor

\* Mutant of Disowned: the effect has no cleanup.
DisownedNot(requests) == requests

\* The cleanup of the effect: what is under way is not current any more.
Disowned(requests) ==
    [i \in FetchSlot |->
        IF requests[i] = NoMonitor THEN NoMonitor ELSE [requests[i] EXCEPT !.current = FALSE]]

\* The effect, run again where monitorId is another one: it fetches its history.
Effect ==
    IF monitorId' = monitorId THEN UNCHANGED fetches
    ELSE IF monitorId' = NoMonitor THEN fetches' = Disowned(fetches)
    ELSE \E i \in FetchSlot :
            /\ fetches[i] = NoMonitor /\ \A j \in 1..i - 1 : fetches[j] # NoMonitor
            /\ fetches' = [Disowned(fetches) EXCEPT ![i] = [of |-> monitorId', current |-> TRUE]]

-----------------------------------------------------------------------------
\* Dashboard: another snapshot, another selection, another view.
SnapshotComes(list) ==
    /\ listed' = list
    /\ UNCHANGED <<selected, open, history>>
    /\ Effect

\* selectMonitor, from the table of another view or the view's own list.  The view
\* starts with no results when it is mounted.
SelectMonitor(m) ==
    /\ m \in listed
    /\ selected' = m
    /\ open' = TRUE
    /\ history' = IF open THEN history ELSE NoMonitor
    /\ UNCHANGED listed
    /\ Effect

OpenView ==
    /\ open' = ~open
    /\ history' = NoMonitor
    /\ UNCHANGED <<listed, selected>>
    /\ Effect

\* A fetch is answered, or fails: without a token, without a daemon.
FetchEnds(i) ==
    /\ fetches[i] # NoMonitor
    /\ fetches' = [fetches EXCEPT ![i] = NoMonitor]
    /\ IF fetches[i].current THEN history' \in {fetches[i].of, NoMonitor}
       ELSE UNCHANGED history
    /\ UNCHANGED <<listed, selected, open>>

-----------------------------------------------------------------------------
\* The dashboard is shown from its first snapshot on, in the view the address names.
ViewInit ==
    /\ listed \in SUBSET MonitorId
    /\ selected = NoMonitor
    /\ open \in BOOLEAN
    /\ history = NoMonitor
    /\ fetches = [i \in FetchSlot |-> IF i = 1 /\ monitorId # NoMonitor
                                 THEN [of |-> monitorId, current |-> TRUE] ELSE NoMonitor]

ViewNext ==
    \/ \E list \in SUBSET MonitorId : SnapshotComes(list)
    \/ \E m \in MonitorId : SelectMonitor(m)
    \/ OpenView
    \/ \E i \in FetchSlot : FetchEnds(i)

ViewSpec == ViewInit /\ [][ViewNext]_viewVars

-----------------------------------------------------------------------------
(***************************************************************************)
(* Properties.                                                             *)
(***************************************************************************)
ViewTypeOK ==
    /\ listed \subseteq MonitorId
    /\ selected \in MonitorId \cup {NoMonitor}
    /\ open \in BOOLEAN
    /\ history \in MonitorId \cup {NoMonitor}
    /\ fetches \in [FetchSlot -> Fetch \cup {NoMonitor}]

\* The view shows no other monitor's history under a monitor's name, except until the
\* fetch for it comes back: one is under way whenever the two differ, however selections,
\* lists and answers overtake one another.
HistoryIsTheMonitors ==
    monitorId # NoMonitor =>
        history \in {monitorId, NoMonitor} \/ \E i \in FetchSlot : fetches[i] # NoMonitor
                                              /\ fetches[i] = [of |-> monitorId, current |-> TRUE]
=============================================================================
