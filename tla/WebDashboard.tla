----------------------------- MODULE WebDashboard -----------------------------
(***************************************************************************)
(* The browser's dashboard (web/src/App.tsx, auth.tsx, api/client.ts) and  *)
(* the gate of the routes it calls (crates/backend/src/auth.rs): one tab   *)
(* in full and, as far as the token they share goes, another tab of the    *)
(* same browser.                                                           *)
(*                                                                         *)
(* The tab asks for a token, has the daemon check it and stores it; its    *)
(* dashboard then fetches a snapshot every two seconds and whenever /ws    *)
(* pushes something.  Requests overlap and are answered in any order; the  *)
(* daemon goes away, comes back and may then accept another token.         *)
(***************************************************************************)
EXTENDS Naturals

CONSTANTS MaxTokens,     \* bound on the tokens: each is a number, the latest the largest
          MaxData,       \* bound on the changes of what there is to show
          MaxInFlight,   \* bound on the snapshots under way
          Absent         \* no request, no snapshot

\* What is assumed of the constants.
WebDashboardAssumption ==
    /\ MaxTokens \in Nat \ {0} /\ MaxData \in Nat /\ MaxInFlight \in Nat \ {0}
    /\ Absent \notin 0..MaxData

VARIABLES up,         \* can the daemon be reached?
          accepted,   \* the token it accepts, AppState::token
          data,       \* what there is to show, numbered
          keeps,      \* does localStorage work, or throw?
          stored,     \* TOKEN_KEY in localStorage, 0 for none
          elsewhere,  \* the token of a request the other tab waits for
          view,       \* the gate, or the dashboard: App's authed
          candidate,  \* TokenGate: the token being checked
          refreshes,  \* getSnapshot: requests under way
          shown,      \* Dashboard: snapshot
          error,      \* Dashboard: lastError # null
          feed,       \* subscribeLive: the socket
          good        \* history: the session's token has been the daemon's all along

vars == <<up, accepted, data, keeps, stored, elsewhere, view, candidate, refreshes, shown,
          error, feed, good>>

daemon == <<up, accepted, data>>
screen == <<shown, error>>

TokenOrNone == 0..MaxTokens
Slot        == 1..MaxInFlight
\* An answer under way to the tab.
Reply   == {"sent", "refused", "failed", "snapshot"}
Refresh == [token : TokenOrNone, current : BOOLEAN, reply : Reply,
            seen : 0..MaxData \cup {Absent}]
Check   == [token : 1..MaxTokens, reply : {"sent", "ok", "not ok", "failed"}]

-----------------------------------------------------------------------------
\* require_token and require_token_ws
Admits(token) == token = accepted

\* getToken and setToken, as long as the browser lets them.
Stored(token) == IF keeps THEN token ELSE 0

\* refresh: getSnapshot reads the token as it sends its requests.
Sent(token) == [token |-> token, current |-> TRUE, reply |-> "sent", seen |-> Absent]

Sending(token) ==
    \E i \in Slot :
       /\ refreshes[i] = Absent /\ \A j \in 1..i - 1 : refreshes[j] # Absent
       /\ refreshes' = [refreshes EXCEPT ![i] = Sent(token)]

\* connect: without a token it returns and nobody calls it again.
Connected(token) == IF token = 0 THEN "none" ELSE IF up /\ Admits(token) THEN "open"
                    ELSE "waiting"

\* The effect of Dashboard when it is mounted with this token stored.
Mount(token) ==
    /\ view' = "dashboard"
    /\ candidate' = Absent
    /\ Sending(token)
    /\ shown' = Absent /\ error' = FALSE
    /\ feed' = Connected(token)
    /\ good' = Admits(token)

-----------------------------------------------------------------------------
\* TokenGate: submit, the daemon's answer, and what the tab makes of it.
Submit(token) ==
    /\ view = "gate" /\ candidate = Absent
    /\ candidate' = [token |-> token, reply |-> "sent"]
    /\ UNCHANGED <<daemon, keeps, stored, elsewhere, view, refreshes, screen, feed, good>>

CheckServed ==
    /\ candidate # Absent /\ candidate.reply = "sent"
    /\ candidate' = [candidate EXCEPT !.reply =
                        IF ~up THEN "failed" ELSE IF Admits(candidate.token) THEN "ok"
                        ELSE "not ok"]
    /\ UNCHANGED <<daemon, keeps, stored, elsewhere, view, refreshes, screen, feed, good>>

CheckAnswered ==
    /\ candidate # Absent /\ candidate.reply # "sent"
    /\ IF candidate.reply = "ok"
       THEN /\ stored' = Stored(candidate.token)
            /\ Mount(Stored(candidate.token))
       ELSE /\ candidate' = Absent
            /\ UNCHANGED <<stored, view, refreshes, screen, feed, good>>
    /\ UNCHANGED <<daemon, keeps, elsewhere>>

-----------------------------------------------------------------------------
\* Mutant of Poll: the next refresh waits for the last to succeed.
PollIfLive ==
    /\ view = "dashboard" /\ ~error
    /\ Sending(stored)
    /\ UNCHANGED <<daemon, keeps, stored, elsewhere, view, candidate, screen, feed, good>>

\* setInterval, or a message of /ws: either calls refresh, whatever is under way.
Poll ==
    /\ view = "dashboard"
    /\ Sending(stored)
    /\ UNCHANGED <<daemon, keeps, stored, elsewhere, view, candidate, screen, feed, good>>

\* The daemon answers a request, or the browser gives it up.
Served(i) ==
    /\ refreshes[i] # Absent /\ refreshes[i].reply = "sent"
    /\ refreshes' = [refreshes EXCEPT
          ![i].reply = IF ~up THEN "failed" ELSE IF Admits(refreshes[i].token) THEN "snapshot"
                       ELSE "refused",
          ![i].seen = IF up /\ Admits(refreshes[i].token) THEN data ELSE Absent]
    /\ UNCHANGED <<daemon, keeps, stored, elsewhere, view, candidate, screen, feed, good>>

\* What the answer to a refresh does.  A refusal forgets the token and unmounts the
\* dashboard, which disowns what else is under way and closes the socket.
React(i, mine) ==
    LET reply == refreshes[i].reply
        rest  == [refreshes EXCEPT ![i] = Absent]
    IN  /\ refreshes[i] # Absent /\ reply # "sent"
        /\ \/ /\ ~mine
              /\ refreshes' = rest
              /\ UNCHANGED <<stored, view, screen, feed>>
           \/ /\ mine /\ reply = "refused"
              /\ stored' = 0
              /\ view' = "gate" /\ feed' = "none" /\ shown' = Absent /\ error' = FALSE
              /\ refreshes' = [j \in Slot |-> IF rest[j] = Absent THEN Absent
                                              ELSE [rest[j] EXCEPT !.current = FALSE]]
           \/ /\ mine /\ reply = "failed"
              /\ error' = TRUE
              /\ refreshes' = rest
              /\ UNCHANGED <<stored, view, shown, feed>>
           \/ /\ mine /\ reply = "snapshot"
              /\ shown' = refreshes[i].seen /\ error' = FALSE
              /\ refreshes' = rest
              /\ UNCHANGED <<stored, view, feed>>
        /\ UNCHANGED <<daemon, keeps, elsewhere, candidate, good>>

\* Mutant of Answered: without looking at `current`.
AnsweredAnyway(i) == React(i, view = "dashboard")

Answered(i) == React(i, refreshes[i] # Absent /\ refreshes[i].current)

\* The socket is closed: the daemon drops a slow client.
FeedLost ==
    /\ feed = "open"
    /\ feed' = "waiting"
    /\ UNCHANGED <<daemon, keeps, stored, elsewhere, view, candidate, refreshes, screen, good>>

\* connect, three seconds after the socket was closed.
Reconnect ==
    /\ feed = "waiting"
    /\ feed' = Connected(stored)
    /\ UNCHANGED <<daemon, keeps, stored, elsewhere, view, candidate, refreshes, screen, good>>

-----------------------------------------------------------------------------
\* The other tab: its polls, what a refusal makes it do, and a token entered there.
OtherPolls ==
    /\ elsewhere = Absent
    /\ elsewhere' = stored
    /\ UNCHANGED <<daemon, keeps, stored, view, candidate, refreshes, screen, feed, good>>

OtherAnswered ==
    /\ elsewhere # Absent
    /\ elsewhere' = Absent
    /\ IF up /\ ~Admits(elsewhere) THEN stored' = 0 /\ good' = FALSE
       ELSE UNCHANGED <<stored, good>>
    /\ UNCHANGED <<daemon, keeps, view, candidate, refreshes, screen, feed>>

OtherEnters ==
    /\ up
    /\ stored' = Stored(accepted)
    /\ UNCHANGED <<daemon, keeps, elsewhere, view, candidate, refreshes, screen, feed, good>>

-----------------------------------------------------------------------------
\* The daemon: what it has to show changes, it stops and cuts its connections, and it
\* starts, with a token the operator may have replaced.
DataChanges ==
    /\ up /\ data < MaxData
    /\ data' = data + 1
    /\ UNCHANGED <<up, accepted, keeps, stored, elsewhere, view, candidate, refreshes, screen,
                   feed, good>>

Stops ==
    /\ up
    /\ up' = FALSE
    /\ feed' = IF feed = "open" THEN "waiting" ELSE feed
    /\ refreshes' = [i \in Slot |->
                       IF refreshes[i] = Absent THEN Absent
                       ELSE [refreshes[i] EXCEPT !.reply = IF @ = "sent" THEN "failed" ELSE @]]
    /\ UNCHANGED <<accepted, data, keeps, stored, elsewhere, view, candidate, screen, good>>

Starts ==
    /\ ~up
    /\ up' = TRUE
    /\ accepted' \in {accepted, accepted + 1} \cap 1..MaxTokens
    /\ good' = (good /\ accepted' = accepted)
    /\ UNCHANGED <<data, keeps, stored, elsewhere, view, candidate, refreshes, screen, feed>>

-----------------------------------------------------------------------------
\* App is mounted when the page is loaded, or loaded again: a token found in the store
\* is trusted until the daemon refuses it.
Init ==
    /\ up \in BOOLEAN /\ accepted \in 1..MaxTokens /\ data = 0
    /\ keeps \in BOOLEAN
    /\ stored \in IF keeps THEN 0..accepted ELSE {0}
    /\ elsewhere = Absent
    /\ candidate = Absent /\ shown = Absent /\ error = FALSE
    /\ IF stored = 0
       THEN /\ view = "gate" /\ feed = "none" /\ good = FALSE
            /\ refreshes = [i \in Slot |-> Absent]
       ELSE /\ view = "dashboard" /\ feed = Connected(stored) /\ good = Admits(stored)
            /\ refreshes = [i \in Slot |-> IF i = 1 THEN Sent(stored) ELSE Absent]

Next ==
    \/ \E token \in 1..MaxTokens : Submit(token)
    \/ CheckServed \/ CheckAnswered
    \/ Poll \/ FeedLost \/ Reconnect
    \/ \E i \in Slot : Served(i) \/ Answered(i)
    \/ OtherPolls \/ OtherAnswered \/ OtherEnters
    \/ DataChanges \/ Stops \/ Starts

Spec == Init /\ [][Next]_vars

\* Timers fire; a request is answered or the browser gives it up; answers arrive.
Fairness == /\ WF_vars(Poll) /\ WF_vars(Reconnect)
            /\ \A i \in Slot : WF_vars(Served(i)) /\ WF_vars(Answered(i))

FairSpec == Spec /\ Fairness

-----------------------------------------------------------------------------
(***************************************************************************)
(* Properties.                                                             *)
(***************************************************************************)
TypeOK ==
    /\ up \in BOOLEAN /\ accepted \in 1..MaxTokens /\ data \in 0..MaxData
    /\ keeps \in BOOLEAN
    /\ stored \in TokenOrNone /\ (~keeps => stored = 0)
    /\ elsewhere \in TokenOrNone \cup {Absent}
    /\ view \in {"gate", "dashboard"}
    /\ candidate \in Check \cup {Absent}
    /\ refreshes \in [Slot -> Refresh \cup {Absent}]
    /\ shown \in 0..MaxData \cup {Absent}
    /\ error \in BOOLEAN /\ good \in BOOLEAN
    /\ feed \in {"none", "open", "waiting"}

\* A session lasts as long as its token is the daemon's: whatever late answer to a
\* request of an earlier session, sent with a token since replaced, still arrives, the
\* tab asks for a token again only after the daemon's has changed or another tab has
\* forgotten the one they share.
SessionLasts == [][view = "dashboard" /\ view' = "gate" => ~good]_vars

\* The screen follows the daemon, however its answers overtake one another: while it can
\* be reached and takes the token, what is shown becomes and stays what there is, without
\* a claim of an error; while it cannot, the tab stops claiming to be live; and a session
\* that lasts gets its pushes again after every outage and every disconnect.
ScreenFollows ==
    /\ \A d \in 0..MaxData :
          <>[](view = "dashboard" /\ up /\ Admits(stored) /\ data = d)
          => <>[](shown = d /\ ~error)
    /\ <>[](view = "dashboard" /\ ~up) => <>[]error
    /\ <>[](view = "dashboard" /\ up /\ good) => []<>(feed = "open")
=============================================================================
