--------------------------- MODULE TerminalDashboard ---------------------------
(***************************************************************************)
(* The terminal dashboard: the data layer of crates/tui/src/data.rs and    *)
(* the view state of crates/tui/src/app.rs.                                *)
(*                                                                         *)
(* Two loops run on their own.  poll_loop refetches everything at each     *)
(* tick, and after each attempt of its live feed's to connect; the render  *)
(* loop takes the latest snapshot and the keys.  Each hands the other a    *)
(* watch channel.  Time is counted in seconds where the code compares two  *)
(* timers.                                                                 *)
(*                                                                         *)
(* The feed's request for /ws carries no token, and the daemon refuses it: *)
(* what WsFeed would do with a stream is not modelled, it never has one.   *)
(***************************************************************************)
EXTENDS Integers, FiniteSets, SequencesExt

CONSTANTS MaxId,          \* monitors there may be
          PollInterval,   \* POLL_INTERVAL, in seconds
          RetryDelay,     \* WS_RETRY_DELAY, in seconds
          MaxLate,        \* bound on how late a tick is, in seconds
          MaxWritten,     \* bound on results
          MaxChanges,     \* bound on monitors added and removed
          MaxKeys,        \* bound on keys pressed
          MaxOutages      \* bound on the daemon's outages

ASSUME TerminalAssumption ==
    /\ MaxId \in Nat \ {0}
    /\ PollInterval \in Nat \ {0} /\ RetryDelay \in Nat /\ MaxLate \in Nat
    /\ MaxWritten \in Nat /\ MaxChanges \in Nat /\ MaxKeys \in Nat /\ MaxOutages \in Nat

VARIABLES
    written,    \* results the writer has committed
    rows,       \* ids in the table of monitors
    serving,    \* the daemon answers
    stream,     \* WsFeed::stream is Some
    loop,       \* poll_loop waits or fetches
    asked,      \* the monitor whose history the fetch under way is for
    tickIn,     \* seconds to the next tick, less than 0 if it is late
    retryIn,    \* seconds the present wait_for_event has still to sleep
    published,  \* the watch channel to the render loop
    news,       \* it has changed since it was read
    wanted,     \* the watch channel back: whose history is wanted
    display,    \* App::snapshot
    cursor,     \* App::selected
    left        \* what may still happen

tableVars == <<written, rows, serving>>
loopVars  == <<stream, loop, asked, retryIn>>
appVars   == <<news, wanted, display, cursor>>

terminalVars == <<tableVars, loopVars, tickIn, published, appVars, left>>

RowId == 1..MaxId
NoId  == 0

\* What a fetch brings: the list of monitors, whose history and how far it reaches, and
\* whether any of the requests failed.
Snapshot == [list : SUBSET RowId, history : RowId \cup {NoId}, upto : 0..MaxWritten,
             error : BOOLEAN]
NoSnapshot == [list |-> {}, history |-> NoId, upto |-> 0, error |-> FALSE]

May(what) == left[what] > 0 /\ left' = [left EXCEPT ![what] = @ - 1]

-----------------------------------------------------------------------------
\* The daemon.

Writes ==
    /\ serving
    /\ written < MaxWritten
    /\ written' = written + 1
    /\ UNCHANGED <<rows, serving, loopVars, tickIn, published, appVars, left>>

Change ==
    /\ serving
    /\ May("changes")
    /\ \E m \in RowId : rows' = IF m \in rows THEN rows \ {m} ELSE rows \cup {m}
    /\ UNCHANGED <<written, serving, loopVars, tickIn, published, appVars>>

GoesDown ==
    /\ serving
    /\ May("outages")
    /\ serving' = FALSE
    /\ UNCHANGED <<written, rows, loopVars, tickIn, published, appVars>>

ComesBack ==
    /\ ~serving
    /\ serving' = TRUE
    /\ UNCHANGED <<written, rows, loopVars, tickIn, published, appVars, left>>

\* require_token_ws: the upgrade must carry the daemon's token, in Authorization or as
\* the subprotocol.
Upgrades(credential) == serving /\ credential = "token"

-----------------------------------------------------------------------------
\* poll_loop.

\* Both timers run, and poll_loop takes what is ready before more time passes.
Pass ==
    /\ loop = "waiting" => tickIn > 0 /\ (stream \/ retryIn > 0)
    /\ tickIn > -MaxLate
    /\ tickIn' = tickIn - 1
    /\ retryIn' = IF loop = "waiting" /\ ~stream THEN retryIn - 1 ELSE retryIn
    /\ UNCHANGED <<tableVars, stream, loop, asked, published, appVars, left>>

\* Whatever ended the select!, everything is fetched; `selected` is read first.
Fetches == loop' = "fetching" /\ asked' = wanted

\* interval.tick(): a late tick does not delay the next.  wait_for_event is dropped, and
\* with it what it has slept.
Tick ==
    /\ loop = "waiting"
    /\ tickIn <= 0
    /\ tickIn' = tickIn + PollInterval
    /\ Fetches
    /\ UNCHANGED <<tableVars, stream, retryIn, published, appVars, left>>

\* What connect_async(url) sends: the bare request for ws_url, without a header.
Carried == "none"

\* wait_for_event without a stream: the delay is over, and one attempt is made.
Retries ==
    /\ loop = "waiting"
    /\ ~stream
    /\ retryIn = 0
    /\ stream' = Upgrades(Carried)
    /\ Fetches
    /\ UNCHANGED <<tableVars, tickIn, retryIn, published, appVars, left>>

\* fetch_snapshot: a request that fails leaves its part empty and an error.
SnapshotNow ==
    IF ~serving THEN [NoSnapshot EXCEPT !.error = TRUE]
    ELSE [list |-> rows,
          history |-> IF asked \in rows THEN asked ELSE NoId,
          upto |-> written,
          error |-> asked # NoId /\ asked \notin rows]

\* Mutant of Fetched: a snapshot that lists what the last one did is not published.
FetchedIfListChanged ==
    /\ loop = "fetching"
    /\ loop' = "waiting"
    /\ retryIn' = RetryDelay
    /\ asked' = NoId
    /\ published' = IF SnapshotNow.list = published.list THEN published
                    ELSE SnapshotNow
    /\ news' = TRUE
    /\ UNCHANGED <<tableVars, stream, tickIn, wanted, display, cursor, left>>

\* It returns and is published; the next wait_for_event sleeps afresh.
Fetched ==
    /\ loop = "fetching"
    /\ loop' = "waiting"
    /\ retryIn' = RetryDelay
    /\ asked' = NoId
    /\ published' = SnapshotNow
    /\ news' = TRUE
    /\ UNCHANGED <<tableVars, stream, tickIn, wanted, display, cursor, left>>

-----------------------------------------------------------------------------
\* run_loop and App.

\* The list is in the order of the ids; `selected` is an index into it.
InOrder(list) == SetToSortSeq(list, <)
IdAt(list, index) == IF index < Cardinality(list) THEN InOrder(list)[index + 1] ELSE NoId

Clamped(index, list) ==
    IF index >= Cardinality(list) /\ list # {} THEN Cardinality(list) - 1 ELSE index

\* Mutant of Renders: the selection is only announced when a key moves it.
RendersOnly ==
    /\ news
    /\ news' = FALSE
    /\ display' = published
    /\ cursor' = Clamped(cursor, published.list)
    /\ UNCHANGED <<tableVars, loopVars, tickIn, published, wanted, left>>

\* on_snapshot.
Renders ==
    /\ news
    /\ news' = FALSE
    /\ display' = published
    /\ cursor' = Clamped(cursor, published.list)
    /\ wanted' = IdAt(published.list, cursor')
    /\ UNCHANGED <<tableVars, loopVars, tickIn, published, left>>

\* on_key, for the keys that move the selection.
Key ==
    /\ May("keys")
    /\ \/ /\ display.list # {}
          /\ cursor' = IF cursor + 1 < Cardinality(display.list) THEN cursor + 1
                       ELSE Cardinality(display.list) - 1
       \/ cursor' = IF cursor = 0 THEN 0 ELSE cursor - 1
    /\ wanted' = IdAt(display.list, cursor')
    /\ UNCHANGED <<tableVars, loopVars, tickIn, published, news, display>>

-----------------------------------------------------------------------------
\* WsFeed::connect has been tried once when poll_loop begins to wait; interval's first
\* tick is immediate.
TerminalInit ==
    /\ written = 0 /\ rows = RowId /\ serving = TRUE
    /\ stream = Upgrades(Carried)
    /\ loop = "waiting" /\ asked = NoId
    /\ tickIn = 0 /\ retryIn = RetryDelay
    /\ published = NoSnapshot /\ news = FALSE
    /\ wanted = NoId
    /\ display = NoSnapshot /\ cursor = 0
    /\ left = [changes |-> MaxChanges, keys |-> MaxKeys, outages |-> MaxOutages]

LoopStep == Tick \/ Retries \/ Fetched

TerminalNext == \/ Writes \/ Change \/ GoesDown \/ ComesBack
                \/ Pass \/ LoopStep
                \/ Renders \/ Key

TerminalSpec == TerminalInit /\ [][TerminalNext]_terminalVars

\* Time passes, the two loops run, the backend answers, and the daemon is started again.
TerminalFairSpec ==
    /\ TerminalSpec
    /\ WF_terminalVars(Pass) /\ WF_terminalVars(LoopStep)
    /\ WF_terminalVars(Renders) /\ WF_terminalVars(ComesBack)

-----------------------------------------------------------------------------
(***************************************************************************)
(* Properties.                                                             *)
(***************************************************************************)
TerminalTypeOK ==
    /\ written \in 0..MaxWritten
    /\ rows \subseteq RowId
    /\ serving \in BOOLEAN /\ stream \in BOOLEAN
    /\ loop \in {"waiting", "fetching"}
    /\ asked \in RowId \cup {NoId} /\ wanted \in RowId \cup {NoId}
    /\ tickIn \in -MaxLate..PollInterval
    /\ retryIn \in 0..RetryDelay
    /\ published \in Snapshot /\ display \in Snapshot
    /\ news \in BOOLEAN
    /\ cursor \in 0..(MaxId - 1)
    /\ left \in [changes : 0..MaxChanges, keys : 0..MaxKeys, outages : 0..MaxOutages]

\* Without a live feed, what is in the table still reaches the screen: once nothing more
\* is written it shows all there is and keeps showing it, or says that something failed,
\* since poll_loop fetches on the timers alone.
ScreenCatchesUp == <>[](display.upto = written \/ display.error)

\* When nothing moves any more the history shown is that of the monitor selected, though
\* the two loops exchange list and selection without waiting for each other.
HistoryFollows ==
    <>[](~display.error /\ display.list # {} =>
            display.history = IdAt(display.list, cursor))

-----------------------------------------------------------------------------
(***************************************************************************)
(* What data.rs says of the live feed and the code does not do.            *)
(***************************************************************************)

\* WsFeed reconnects after a fixed delay: beside a daemon that stays up the terminal has
\* its feed in the end.
Reconnects == <>[]serving => <>stream
=============================================================================
