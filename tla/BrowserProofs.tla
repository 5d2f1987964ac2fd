----------------------------- MODULE BrowserProofs -----------------------------
(***************************************************************************)
(* Theorems about the browser: WebDashboard, for any number of tokens, of  *)
(* changes and of requests under way, and MonitorView, for any monitors    *)
(* and number of fetches.                                                  *)
(***************************************************************************)
EXTENDS WebDashboard, MonitorView, WellFoundedInduction, TLAPS

\* Only the gate checks a token, and while it is shown every request of an earlier
\* dashboard has been disowned.
GateInv == /\ candidate # Absent => view = "gate"
           /\ view = "gate" => \A i \in Slot : refreshes[i] # Absent
                                               => refreshes[i].current = FALSE

\* A good session is stored, and whatever it waits for was asked with its token.
SessionInv ==
    (view = "dashboard" /\ good) =>
       /\ stored = accepted
       /\ \A i \in Slot :
             (refreshes[i] # Absent /\ refreshes[i].current = TRUE)
             => refreshes[i].token = accepted /\ refreshes[i].reply # "refused"

DashboardInv == TypeOK /\ GateInv /\ SessionInv

-----------------------------------------------------------------------------
LEMMA SentTyped ==
    ASSUME NEW token \in TokenOrNone
    PROVE  /\ Sent(token) \in Refresh
           /\ Sent(token).token = token /\ Sent(token).reply = "sent"
BY DEF Sent, Refresh, Reply

LEMMA StoredTyped ==
    ASSUME WebDashboardAssumption, TypeOK, NEW token \in 1..MaxTokens
    PROVE  /\ Stored(token) \in TokenOrNone /\ (~keeps => Stored(token) = 0)
           /\ 0 \in TokenOrNone
BY DEF WebDashboardAssumption, TypeOK, Stored, TokenOrNone

LEMMA FeedTyped == \A token : Connected(token) \in {"none", "open", "waiting"}
BY DEF Connected

LEMMA DashboardInitInv == ASSUME WebDashboardAssumption, Init PROVE DashboardInv
<1>1. stored \in TokenOrNone /\ (~keeps => stored = 0) /\ 0 \in 0..MaxData
      BY DEF WebDashboardAssumption, Init, TokenOrNone
<1>2. refreshes \in [Slot -> Refresh \cup {Absent}]
      BY <1>1, SentTyped DEF Init
<1>3. TypeOK
      BY <1>1, <1>2, FeedTyped DEF Init, TypeOK, Admits
<1>4. GateInv
      BY DEF Init, GateInv
<1>5. SessionInv
      <2> SUFFICES ASSUME view = "dashboard", good
                   PROVE  /\ stored = accepted
                          /\ \A i \in Slot :
                                refreshes[i] # Absent
                                => refreshes[i].token = accepted
                                   /\ refreshes[i].reply # "refused"
          BY DEF SessionInv
      <2>1. stored = accepted /\ stored # 0
            BY DEF Init, Admits
      <2>2. \A i \in Slot : refreshes[i] # Absent => refreshes[i] = Sent(stored)
            BY <2>1 DEF Init
      <2> QED
          BY <1>1, <2>1, <2>2, SentTyped
<1> QED
    BY <1>3, <1>4, <1>5 DEF DashboardInv

-----------------------------------------------------------------------------
\* A request is sent.
LEMMA SendingTyped ==
    ASSUME TypeOK, NEW token \in TokenOrNone, Sending(token)
    PROVE  /\ refreshes' \in [Slot -> Refresh \cup {Absent}]
           /\ \A i \in Slot : refreshes'[i] = refreshes[i] \/ refreshes'[i] = Sent(token)
BY SentTyped DEF TypeOK, Sending

LEMMA GateStepsInv ==
    ASSUME WebDashboardAssumption, DashboardInv,
           (\E token \in 1..MaxTokens : Submit(token)) \/ CheckServed
    PROVE  DashboardInv'
<1>1. candidate' \in Check
      <2>1. CASE \E token \in 1..MaxTokens : Submit(token)
            BY <2>1 DEF Submit, Check
      <2>2. CASE CheckServed
            <3>1. candidate \in Check
                  BY <2>2 DEF CheckServed, DashboardInv, TypeOK
            <3>2. PICK reply \in {"ok", "not ok", "failed"} :
                        candidate' = [candidate EXCEPT !.reply = reply]
                  BY <2>2 DEF CheckServed
            <3> QED
                BY <3>1, <3>2 DEF Check
      <2> QED
          BY <2>1, <2>2
<1>2. view = "gate"
      BY DEF DashboardInv, GateInv, Submit, CheckServed
<1>3. UNCHANGED <<daemon, keeps, stored, elsewhere, view, refreshes, screen, feed, good>>
      BY DEF Submit, CheckServed
<1> QED
    BY <1>1, <1>2, <1>3 DEF daemon, screen, DashboardInv, TypeOK, GateInv, SessionInv

\* The dashboard opens, with a session that is good if the daemon takes its token.
LEMMA CheckAnsweredInv ==
    ASSUME WebDashboardAssumption, DashboardInv, CheckAnswered PROVE DashboardInv'
<1> USE DEF daemon, screen
<1>1. candidate.token \in 1..MaxTokens /\ view = "gate"
      BY DEF CheckAnswered, DashboardInv, TypeOK, GateInv, Check
<1>2. CASE candidate.reply # "ok"
      BY <1>1, <1>2 DEF CheckAnswered, DashboardInv, TypeOK, GateInv, SessionInv
<1>3. CASE candidate.reply = "ok"
      <2> DEFINE token == Stored(candidate.token)
      <2>1. token \in TokenOrNone /\ (~keeps => token = 0)
            BY <1>1, StoredTyped DEF DashboardInv
      <2>2. /\ stored' = token /\ view' = "dashboard" /\ candidate' = Absent
            /\ Sending(token)
            /\ shown' = Absent /\ error' = FALSE
            /\ feed' = Connected(token) /\ good' = Admits(token)
            /\ UNCHANGED <<daemon, keeps, elsewhere>>
            BY <1>3 DEF CheckAnswered, Mount
      <2> HIDE DEF token
      <2>3. TypeOK'
            BY <2>1, <2>2, SendingTyped, FeedTyped DEF DashboardInv, TypeOK, Admits
      <2>4. GateInv'
            BY <2>2 DEF GateInv
      <2>5. SessionInv'
            BY <1>1, <2>1, <2>2, SendingTyped, SentTyped
            DEF DashboardInv, GateInv, SessionInv, Admits
      <2> QED
          BY <2>3, <2>4, <2>5 DEF DashboardInv
<1> QED
    BY <1>2, <1>3

LEMMA PollInv == ASSUME WebDashboardAssumption, DashboardInv, Poll PROVE DashboardInv'
<1>1. stored \in TokenOrNone /\ view = "dashboard"
      BY DEF Poll, DashboardInv, TypeOK
<1>2. /\ refreshes' \in [Slot -> Refresh \cup {Absent}]
      /\ \A i \in Slot : refreshes'[i] = refreshes[i] \/ refreshes'[i] = Sent(stored)
      BY <1>1, SendingTyped DEF Poll, DashboardInv
<1>3. UNCHANGED <<daemon, keeps, stored, elsewhere, view, candidate, screen, feed, good>>
      BY DEF Poll
<1>4. TypeOK' /\ GateInv'
      BY <1>1, <1>2, <1>3 DEF daemon, screen, DashboardInv, TypeOK, GateInv
<1>5. SessionInv'
      BY <1>1, <1>2, <1>3, SentTyped DEF daemon, DashboardInv, SessionInv
<1> QED
    BY <1>4, <1>5 DEF DashboardInv

\* The daemon refuses no request that carries the token it takes.
LEMMA ServedInv ==
    ASSUME WebDashboardAssumption, DashboardInv, NEW i \in Slot, Served(i) PROVE DashboardInv'
<1> DEFINE old == refreshes[i]
           reply == IF ~up THEN "failed" ELSE IF Admits(old.token) THEN "snapshot"
                    ELSE "refused"
           seen  == IF up /\ Admits(old.token) THEN data ELSE Absent
           part == [old EXCEPT !.reply = reply]
           new  == [part EXCEPT !.seen = seen]
<1>1. old \in Refresh /\ old # Absent
      BY DEF Served, DashboardInv, TypeOK
<1>2. reply \in Reply /\ seen \in 0..MaxData \cup {Absent}
      BY DEF Reply, DashboardInv, TypeOK
<1>3. reply = "refused" => old.token # accepted
      BY DEF Admits
<1>4. /\ UNCHANGED <<daemon, keeps, stored, elsewhere, view, candidate, screen, feed, good>>
      /\ refreshes' = [refreshes EXCEPT ![i] = new]
      BY <1>1 DEF Served, DashboardInv, TypeOK
<1>5. /\ new \in Refresh
      /\ new.token = old.token /\ new.current = old.current /\ new.reply = reply
      <2> HIDE DEF reply, seen, old
      <2>1. /\ part \in Refresh
            /\ part.token = old.token /\ part.current = old.current /\ part.reply = reply
            BY <1>1, <1>2 DEF Refresh
      <2> HIDE DEF part
      <2> QED
          BY <1>2, <2>1 DEF Refresh
<1> HIDE DEF reply, new
<1>6. \A j \in Slot : refreshes'[j] = IF j = i THEN new ELSE refreshes[j]
      BY <1>4, <1>5 DEF DashboardInv, TypeOK
<1>7. TypeOK'
      BY <1>4, <1>5 DEF daemon, screen, DashboardInv, TypeOK
<1>8. GateInv'
      BY <1>1, <1>4, <1>5, <1>6 DEF DashboardInv, GateInv
<1>9. SessionInv'
      BY <1>1, <1>3, <1>4, <1>5, <1>6 DEF daemon, DashboardInv, SessionInv
<1> QED
    BY <1>7, <1>8, <1>9 DEF DashboardInv

\* Only a request of this dashboard that was refused closes it.
LEMMA AnsweredInv ==
    ASSUME WebDashboardAssumption, DashboardInv, NEW i \in Slot, Answered(i) PROVE DashboardInv'
<1> DEFINE rest == [refreshes EXCEPT ![i] = Absent]
<1> USE DEF daemon, screen
<1>1. rest \in [Slot -> Refresh \cup {Absent}]
      /\ \A j \in Slot : rest[j] = Absent \/ rest[j] = refreshes[j]
      BY DEF DashboardInv, TypeOK
<1>2. UNCHANGED <<daemon, keeps, elsewhere, candidate, good>>
      BY DEF Answered, React
<1>3. CASE refreshes' = rest /\ UNCHANGED <<stored, view, feed>>
           /\ shown' \in 0..MaxData \cup {Absent} /\ error' \in BOOLEAN
      <2> HIDE DEF rest
      <2> QED
          BY <1>1, <1>2, <1>3 DEF DashboardInv, TypeOK, GateInv, SessionInv
<1>4. CASE /\ stored' = 0
           /\ view' = "gate" /\ feed' = "none" /\ shown' = Absent /\ error' = FALSE
           /\ refreshes' = [j \in Slot |-> IF rest[j] = Absent THEN Absent
                                           ELSE [rest[j] EXCEPT !.current = FALSE]]
      <2> HIDE DEF rest
      <2>1. \A j \in Slot :
               rest[j] # Absent => /\ [rest[j] EXCEPT !.current = FALSE] \in Refresh
                                   /\ [rest[j] EXCEPT !.current = FALSE].current = FALSE
            BY <1>1 DEF Refresh
      <2>2. TypeOK'
            <3>1. refreshes' \in [Slot -> Refresh \cup {Absent}]
                  BY <1>4, <2>1
            <3>2. stored' \in TokenOrNone
                  BY <1>4 DEF WebDashboardAssumption, TokenOrNone
            <3> QED
                BY <1>2, <1>4, <3>1, <3>2 DEF DashboardInv, TypeOK
      <2>3. GateInv' /\ SessionInv'
            BY <1>4, <2>1 DEF GateInv, SessionInv
      <2> QED
          BY <2>2, <2>3 DEF DashboardInv
<1>5. refreshes[i] \in Refresh
      BY DEF Answered, React, DashboardInv, TypeOK
<1> QED
    BY <1>3, <1>4, <1>5 DEF Answered, React, Refresh, DashboardInv, TypeOK

-----------------------------------------------------------------------------
\* The socket, the other tab and the daemon.
LEMMA SurroundingsInv ==
    ASSUME WebDashboardAssumption, DashboardInv,
           FeedLost \/ Reconnect \/ OtherPolls \/ OtherAnswered \/ OtherEnters \/ DataChanges
    PROVE  DashboardInv'
<1> USE DEF daemon, screen, DashboardInv, TypeOK, GateInv, SessionInv
<1>1. CASE FeedLost \/ Reconnect
      BY <1>1, FeedTyped DEF FeedLost, Reconnect
<1>2. CASE OtherPolls
      BY <1>2 DEF OtherPolls
<1>3. CASE OtherAnswered
      <2>1. 0 \in TokenOrNone
            BY DEF WebDashboardAssumption, TokenOrNone
      <2>2. /\ \/ stored' = 0 /\ good' = FALSE
               \/ UNCHANGED <<stored, good>>
            /\ elsewhere' = Absent
            /\ UNCHANGED <<daemon, keeps, view, candidate, refreshes, screen, feed>>
            BY <1>3 DEF OtherAnswered
      <2>3. CASE stored' = 0 /\ good' = FALSE
            <3>1. TypeOK'
                  BY <2>1, <2>2, <2>3
            <3>2. GateInv' /\ SessionInv'
                  BY <2>2, <2>3
            <3> QED
                BY <3>1, <3>2
      <2>4. CASE UNCHANGED <<stored, good>>
            BY <2>2, <2>4
      <2> QED
          BY <2>2, <2>3, <2>4
<1>4. CASE OtherEnters
      <2>1. stored' = Stored(accepted)
            /\ UNCHANGED <<daemon, keeps, elsewhere, view, candidate, refreshes, screen, feed,
                           good>>
            BY <1>4 DEF OtherEnters
      <2>2. stored' \in TokenOrNone /\ (~keeps => stored' = 0)
            BY <2>1, StoredTyped
      <2>3. keeps => stored' = accepted
            BY <2>1 DEF Stored
      <2>4. accepted # 0
            BY DEF WebDashboardAssumption
      <2> QED
          BY <2>1, <2>2, <2>3, <2>4
<1>5. CASE DataChanges
      BY <1>5 DEF DataChanges, WebDashboardAssumption
<1> QED
    BY <1>1, <1>2, <1>3, <1>4, <1>5

LEMMA StopsInv == ASSUME WebDashboardAssumption, DashboardInv, Stops PROVE DashboardInv'
<1> USE DEF screen
<1>1. /\ up' = FALSE /\ feed' \in {feed, "waiting"}
      /\ UNCHANGED <<accepted, data, keeps, stored, elsewhere, view, candidate, screen, good>>
      BY DEF Stops
<1>2. \A i \in Slot :
         \/ refreshes'[i] = refreshes[i]
         \/ /\ refreshes[i] \in Refresh
            /\ refreshes'[i] = [refreshes[i] EXCEPT !.reply = "failed"]
      <2> TAKE i \in Slot
      <2>1. refreshes'[i] = IF refreshes[i] = Absent THEN Absent
                            ELSE [refreshes[i] EXCEPT
                                     !.reply = IF refreshes[i].reply = "sent" THEN "failed"
                                               ELSE refreshes[i].reply]
            BY DEF Stops
      <2>2. refreshes[i] \in Refresh \cup {Absent}
            BY DEF DashboardInv, TypeOK
      <2> QED
          BY <2>1, <2>2 DEF Refresh
<1>3. refreshes' \in [Slot -> Refresh \cup {Absent}]
      <2>1. DOMAIN refreshes' = Slot /\ refreshes' = [i \in Slot |-> refreshes'[i]]
            BY DEF Stops
      <2>2. \A i \in Slot : refreshes'[i] \in Refresh \cup {Absent}
            BY <1>2 DEF DashboardInv, TypeOK, Refresh, Reply
      <2> QED
          BY <2>1, <2>2
<1>4. \A i \in Slot :
         refreshes[i] \in Refresh /\ refreshes'[i] # refreshes[i]
         => /\ refreshes'[i].token = refreshes[i].token
            /\ refreshes'[i].current = refreshes[i].current
            /\ refreshes'[i].reply = "failed"
      BY <1>2 DEF Refresh
<1>5. TypeOK'
      BY <1>1, <1>3 DEF DashboardInv, TypeOK
<1>6. \A i \in Slot :
         refreshes'[i] # Absent => refreshes[i] # Absent
      BY <1>2 DEF Stops
<1>7. \A i \in Slot : refreshes'[i] # Absent => refreshes[i] \in Refresh
      BY <1>6 DEF DashboardInv, TypeOK
<1>8. GateInv'
      BY <1>1, <1>4, <1>6, <1>7 DEF DashboardInv, GateInv
<1>9. SessionInv'
      BY <1>1, <1>4, <1>6, <1>7 DEF DashboardInv, SessionInv
<1> QED
    BY <1>5, <1>8, <1>9 DEF DashboardInv

LEMMA StartsInv == ASSUME WebDashboardAssumption, DashboardInv, Starts PROVE DashboardInv'
<1>1. accepted' \in 1..MaxTokens /\ up' = TRUE /\ good' = (good /\ accepted' = accepted)
      /\ UNCHANGED <<data, keeps, stored, elsewhere, view, candidate, refreshes, screen, feed>>
      BY DEF Starts
<1>2. good' \in BOOLEAN /\ (good' => good /\ accepted' = accepted)
      BY <1>1
<1> QED
    BY <1>1, <1>2 DEF screen, DashboardInv, TypeOK, GateInv, SessionInv

LEMMA DashboardNextInv ==
    ASSUME WebDashboardAssumption, DashboardInv, [Next]_vars PROVE DashboardInv'
<1>1. CASE UNCHANGED vars
      BY <1>1 DEF vars, DashboardInv, TypeOK, GateInv, SessionInv
<1>2. CASE Next
      BY <1>2, GateStepsInv, CheckAnsweredInv, PollInv, ServedInv, AnsweredInv,
         SurroundingsInv, StopsInv, StartsInv DEF Next
<1> QED
    BY <1>1, <1>2

LEMMA DashboardInvariance == ASSUME WebDashboardAssumption PROVE Spec => []DashboardInv
<1> USE WebDashboardAssumption
<1>1. Init => DashboardInv
      BY DashboardInitInv
<1>2. DashboardInv /\ [Next]_vars => DashboardInv'
      BY DashboardNextInv
<1> QED
    BY <1>1, <1>2, PTL DEF Spec

\* Every reachable state is well typed.
THEOREM DashboardTypeCorrect == ASSUME WebDashboardAssumption PROVE Spec => []TypeOK
<1>1. DashboardInv => TypeOK
      BY DEF DashboardInv
<1> QED
    BY <1>1, DashboardInvariance, PTL

-----------------------------------------------------------------------------
\* No late answer ends a session whose token is the daemon's (the 401 path of
\* App.tsx's refresh), with any number of requests under way from this session and from
\* those before.
THEOREM SessionsLast == ASSUME WebDashboardAssumption PROVE Spec => SessionLasts
<1> USE WebDashboardAssumption
<1> DEFINE Lasts == view = "dashboard" /\ view' = "gate" => ~good
<1>1. ASSUME DashboardInv, [Next]_vars PROVE [Lasts]_vars
      <2> SUFFICES ASSUME Next, view = "dashboard", view' = "gate" PROVE ~good
          BY <1>1
      <2>1. PICK i \in Slot : Answered(i)
            BY DEF Next, Submit, CheckServed, CheckAnswered, Mount, Poll, FeedLost, Reconnect,
                   Served, OtherPolls, OtherAnswered, OtherEnters, DataChanges, Stops, Starts
      <2>2. /\ refreshes[i] # Absent /\ refreshes[i].current
            /\ refreshes[i].reply = "refused"
            BY <2>1 DEF Answered, React
      <2>3. refreshes[i].current = TRUE
            BY <1>1, <2>2 DEF DashboardInv, TypeOK, Refresh
      <2> QED
          BY <1>1, <2>2, <2>3 DEF DashboardInv, SessionInv
<1> QED
    BY <1>1, DashboardInvariance, PTL DEF Spec, SessionLasts

-----------------------------------------------------------------------------
(***************************************************************************)
(* MonitorView.                                                            *)
(***************************************************************************)
\* What is awaited is the history of the monitor the view names.
FetchesInv == \A i \in FetchSlot :
                 (fetches[i] # NoMonitor /\ fetches[i].current = TRUE)
                 => fetches[i].of = monitorId

ViewInv == ViewTypeOK /\ FetchesInv /\ HistoryIsTheMonitors

-----------------------------------------------------------------------------
\* The first of a list is one of it.
LEMMA FirstIsListed ==
    ASSUME NEW list \in SUBSET Nat, list # {} PROVE Min(list) \in list
<1>1. PICK x \in list : \A y \in list : <<y, x>> \notin OpToRel(<, Nat)
      BY NatLessThanWellFounded, WFMin
<1>2. \A y \in list : ~(y < x)
      <2>1. ASSUME NEW y \in list, y < x PROVE <<y, x>> \in OpToRel(<, Nat)
            BY <2>1, Zenon DEF OpToRel
      <2> QED
          BY <1>1, <2>1, Zenon
<1>3. \A y \in list : x <= y
      BY <1>2
<1> QED
    BY <1>3 DEF Min

\* The view names a monitor of the list, if there is one.
LEMMA NamedTyped ==
    ASSUME MonitorViewAssumption, NEW list \in SUBSET MonitorId, NEW choice
    PROVE  Named(list, choice) \in list \cup {NoMonitor}
BY FirstIsListed DEF MonitorViewAssumption, Named

LEMMA MonitorIdTyped ==
    ASSUME MonitorViewAssumption, listed \in SUBSET MonitorId
    PROVE  monitorId \in MonitorId \cup {NoMonitor}
BY NamedTyped DEF monitorId

LEMMA ViewInitInv == ASSUME MonitorViewAssumption, ViewInit PROVE ViewInv
<1>1. monitorId \in MonitorId \cup {NoMonitor}
      BY MonitorIdTyped DEF ViewInit
<1>2. ViewTypeOK
      BY <1>1 DEF ViewInit, ViewTypeOK, Fetch
<1>3. FetchesInv
      BY DEF ViewInit, FetchesInv
<1>4. HistoryIsTheMonitors
      BY DEF ViewInit, HistoryIsTheMonitors
<1> QED
    BY <1>2, <1>3, <1>4 DEF ViewInv

\* Nobody waits for what has been disowned.
LEMMA DisownedTyped ==
    ASSUME ViewTypeOK
    PROVE  /\ Disowned(fetches) \in [FetchSlot -> Fetch \cup {NoMonitor}]
           /\ \A i \in FetchSlot : Disowned(fetches)[i] # NoMonitor
                              => Disowned(fetches)[i].current = FALSE
<1>1. \A i \in FetchSlot :
         fetches[i] # NoMonitor => /\ [fetches[i] EXCEPT !.current = FALSE] \in Fetch
                                /\ [fetches[i] EXCEPT !.current = FALSE].current = FALSE
      BY DEF ViewTypeOK, Fetch
<1> QED
    BY <1>1 DEF Disowned

\* Whatever changes the view's monitor, the effect keeps up with it.
LEMMA EffectInv ==
    ASSUME MonitorViewAssumption, ViewInv, Effect, listed' \in SUBSET MonitorId,
           selected' \in MonitorId \cup {NoMonitor}, open' \in BOOLEAN,
           history' = history \/ history' = NoMonitor
    PROVE  ViewInv'
<1>1. monitorId' \in MonitorId \cup {NoMonitor}
      BY NamedTyped DEF monitorId
<1>2. CASE monitorId' = monitorId
      <2>1. fetches' = fetches
            BY <1>2 DEF Effect
      <2> QED
          BY <1>2, <2>1 DEF ViewInv, ViewTypeOK, FetchesInv, HistoryIsTheMonitors
<1>3. CASE monitorId' # monitorId /\ monitorId' = NoMonitor
      <2>1. fetches' = Disowned(fetches)
            BY <1>3 DEF Effect
      <2> QED
          BY <1>3, <2>1, DisownedTyped DEF ViewInv, ViewTypeOK, FetchesInv, HistoryIsTheMonitors
<1>4. CASE monitorId' # monitorId /\ monitorId' # NoMonitor
      <2> DEFINE fetch == [of |-> monitorId', current |-> TRUE]
      <2>1. PICK i \in FetchSlot : fetches' = [Disowned(fetches) EXCEPT ![i] = fetch]
            BY <1>4 DEF Effect
      <2>2. fetch \in Fetch
            BY <1>1, <1>4 DEF Fetch
      <2>3. /\ fetches' \in [FetchSlot -> Fetch \cup {NoMonitor}]
            /\ fetches'[i] = fetch
            /\ \A j \in FetchSlot \ {i} : fetches'[j] # NoMonitor => fetches'[j].current = FALSE
            BY <2>1, <2>2, DisownedTyped DEF ViewInv
      <2>4. ViewTypeOK'
            BY <2>3 DEF ViewInv, ViewTypeOK
      <2>5. FetchesInv'
            BY <2>3 DEF FetchesInv
      <2>6. fetch # NoMonitor
            BY <2>2 DEF MonitorViewAssumption
      <2>7. HistoryIsTheMonitors'
            BY <2>3, <2>6 DEF HistoryIsTheMonitors
      <2> QED
          BY <2>4, <2>5, <2>7 DEF ViewInv
<1> QED
    BY <1>2, <1>3, <1>4

LEMMA FetchEndsInv ==
    ASSUME MonitorViewAssumption, ViewInv, NEW i \in FetchSlot, FetchEnds(i) PROVE ViewInv'
<1>1. /\ fetches[i] \in Fetch /\ fetches' = [fetches EXCEPT ![i] = NoMonitor]
      /\ UNCHANGED <<listed, selected, open>> /\ monitorId' = monitorId
      BY DEF FetchEnds, ViewInv, ViewTypeOK, monitorId
<1>2. \A j \in FetchSlot : fetches'[j] = IF j = i THEN NoMonitor ELSE fetches[j]
      BY <1>1 DEF ViewInv, ViewTypeOK
<1>3. FetchesInv'
      BY <1>1, <1>2 DEF ViewInv, FetchesInv
<1>4. CASE fetches[i].current
      <2>1. fetches[i].of = monitorId
            BY <1>1, <1>4 DEF Fetch, FetchEnds, ViewInv, FetchesInv
      <2>2. history' \in {monitorId, NoMonitor} /\ history' \in MonitorId \cup {NoMonitor}
            BY <1>1, <1>4, <2>1 DEF Fetch, FetchEnds
      <2>3. HistoryIsTheMonitors'
            BY <1>1, <2>2 DEF HistoryIsTheMonitors
      <2> QED
          BY <1>1, <1>3, <2>2, <2>3 DEF ViewInv, ViewTypeOK
<1>5. CASE ~fetches[i].current
      <2>1. history' = history
            BY <1>5 DEF FetchEnds
      <2>2. fetches[i] # [of |-> monitorId, current |-> TRUE]
            BY <1>5
      <2>3. HistoryIsTheMonitors'
            BY <1>1, <1>2, <2>1, <2>2 DEF ViewInv, HistoryIsTheMonitors
      <2> QED
          BY <1>1, <1>3, <2>1, <2>3 DEF ViewInv, ViewTypeOK
<1> QED
    BY <1>4, <1>5

LEMMA ViewNextInv == ASSUME MonitorViewAssumption, ViewInv, [ViewNext]_viewVars PROVE ViewInv'
<1>1. CASE \E list \in SUBSET MonitorId : SnapshotComes(list)
      BY <1>1, EffectInv DEF SnapshotComes, ViewInv, ViewTypeOK
<1>2. CASE \E m \in MonitorId : SelectMonitor(m)
      BY <1>2, EffectInv DEF SelectMonitor, ViewInv, ViewTypeOK
<1>3. CASE OpenView
      BY <1>3, EffectInv DEF OpenView, ViewInv, ViewTypeOK
<1>4. CASE \E i \in FetchSlot : FetchEnds(i)
      BY <1>4, FetchEndsInv
<1>5. CASE UNCHANGED viewVars
      BY <1>5 DEF viewVars, ViewInv, ViewTypeOK, FetchesInv, HistoryIsTheMonitors, monitorId
<1> QED
    BY <1>1, <1>2, <1>3, <1>4, <1>5 DEF ViewNext

LEMMA ViewInvariance == ASSUME MonitorViewAssumption PROVE ViewSpec => []ViewInv
<1> USE MonitorViewAssumption
<1>1. ViewInit => ViewInv
      BY ViewInitInv
<1>2. ViewInv /\ [ViewNext]_viewVars => ViewInv'
      BY ViewNextInv
<1> QED
    BY <1>1, <1>2, PTL DEF ViewSpec

\* Every reachable state is well typed.
THEOREM ViewTypeCorrect == ASSUME MonitorViewAssumption PROVE ViewSpec => []ViewTypeOK
<1>1. ViewInv => ViewTypeOK
      BY DEF ViewInv
<1> QED
    BY <1>1, ViewInvariance, PTL

\* The view never keeps another monitor's results under a monitor's name without asking
\* for the right ones (the effect of MonitorView in App.tsx), however many fetches are
\* under way and in whatever order they end.
THEOREM NoOtherHistory ==
    ASSUME MonitorViewAssumption PROVE ViewSpec => []HistoryIsTheMonitors
<1>1. ViewInv => HistoryIsTheMonitors
      BY DEF ViewInv
<1> QED
    BY <1>1, ViewInvariance, PTL
=============================================================================
