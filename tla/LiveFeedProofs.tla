---------------------------- MODULE LiveFeedProofs ----------------------------
(***************************************************************************)
(* Theorems about LiveFeed, for any ring, any number of frames on their    *)
(* way and any number of results, cut connections and restarts, and about  *)
(* TerminalDashboard, for any timers and any monitors, keys and outages.   *)
(***************************************************************************)
EXTENDS LiveFeed, TerminalDashboard, SequenceTheorems, FiniteSetTheorems, TLAPS

\* The types of the feed's own variables.
FeedTypes == /\ sent \in 0..MaxBroadcast
             /\ socket \in Socket /\ next \in 1..(sent + 1)
             /\ socket = "sending" => next <= sent
             /\ wire \in Seq(Frame)
             /\ got \in Frame

\* A socket task is only there for a client that reads, it goes on where the last frame
\* on its way ends, and none of those ends the connection.
SocketInv == socket # "none" => /\ connected
                                /\ next = got + Len(wire) + 1
                                /\ \A i \in DOMAIN wire : wire[i] # Close

FeedInv == FeedTypes /\ SocketInv /\ NoSilentGap

-----------------------------------------------------------------------------
LEMMA StillNext ==
    ASSUME NEW n, NEW s \in Nat, NEW t \in Nat, s <= t, n \in 1..(s + 1)
    PROVE  n \in 1..(t + 1)
OBVIOUS

LEMMA EmptyWire == <<>> \in Seq(Frame) /\ Len(<<>>) = 0 /\ DOMAIN <<>> = {}
BY EmptySeq

LEMMA FeedInitInv == FeedInit => FeedInv
BY EmptyWire, FeedAssumption
DEF FeedInit, FeedInv, FeedTypes, SocketInv, NoSilentGap, Socket, Frame

\* Nothing the feed depends on moves but how many results there are.
LEMMA ElsewhereInv ==
    ASSUME FeedInv, UNCHANGED <<socketVars, connected, got>>,
           sent' \in Nat, sent <= sent', sent' <= MaxBroadcast
    PROVE  FeedInv'
<1>1. FeedTypes'
      <2>1. /\ sent' \in 0..MaxBroadcast /\ next' \in 1..(sent' + 1)
            /\ socket' = "sending" => next' <= sent'
            <3>1. /\ sent \in Nat /\ MaxBroadcast \in Nat /\ next \in 1..(sent + 1)
                  /\ socket = "sending" => next <= sent
                  BY FeedAssumption DEF FeedAssumption, FeedInv, FeedTypes
            <3>2. next' = next /\ socket' = socket
                  BY DEF socketVars
            <3>3. sent' \in 0..MaxBroadcast
                  BY <3>1
            <3>4. next \in 1..(sent' + 1)
                  BY <3>1, StillNext
            <3>5. socket = "sending" => next <= sent'
                  BY <3>1
            <3> QED
                BY <3>2, <3>3, <3>4, <3>5, Zenon
      <2> QED
          BY <2>1 DEF FeedInv, FeedTypes, socketVars
<1>2. SocketInv' /\ NoSilentGap'
      BY DEF FeedInv, SocketInv, NoSilentGap, socketVars
<1> QED
    BY <1>1, <1>2 DEF FeedInv

\* The socket task is gone, and with it perhaps what the connection held.
LEMMA GoneInv ==
    ASSUME FeedInv, socket' = "none", next' = 1, wire' \in {wire, <<>>},
           UNCHANGED <<sent, connected, got>>
    PROVE  FeedInv'
<1>1. FeedTypes'
      <2>1. next' \in 1..(sent' + 1) /\ socket' \in Socket /\ socket' # "sending"
            BY FeedAssumption DEF FeedInv, FeedTypes, Socket
      <2>2. wire' \in Seq(Frame)
            BY EmptyWire DEF FeedInv, FeedTypes
      <2> QED
          BY <2>1, <2>2 DEF FeedInv, FeedTypes
<1>2. SocketInv' /\ NoSilentGap'
      BY EmptyWire DEF FeedInv, SocketInv, NoSilentGap
<1> QED
    BY <1>1, <1>2 DEF FeedInv

LEMMA WireTypes ==
    ASSUME FeedInv
    PROVE  /\ Len(wire) \in Nat /\ DOMAIN wire = 1..Len(wire) /\ MaxBroadcast \in Nat
           /\ sent \in Nat /\ got \in Nat /\ next \in Nat
           /\ \A i \in 1..Len(wire) : wire[i] \in Frame
BY LenProperties, ElementOfSeq, FeedAssumption DEF FeedInv, FeedTypes, Frame

\* A frame joins those on their way.
LEMMA AppendedIs ==
    ASSUME FeedInv, NEW frame \in Frame, wire' = Append(wire, frame)
    PROVE  /\ wire' \in Seq(Frame) /\ Len(wire') = Len(wire) + 1
           /\ DOMAIN wire' = 1..(Len(wire) + 1)
           /\ \A i \in 1..Len(wire) : wire'[i] = wire[i]
           /\ wire'[Len(wire) + 1] = frame
BY AppendProperties, LenProperties DEF FeedInv, FeedTypes

LEMMA SocketStepInv == ASSUME FeedInv, SocketStep PROVE FeedInv'
<1>1. CASE Receives \/ IsTold
      <2>1. /\ socket = "selecting" /\ socket' \in {"closing", "sending"}
            /\ socket' = "sending" => next <= sent
            /\ UNCHANGED <<sent, next, wire, connected, got>>
            BY <1>1 DEF Receives, IsTold
      <2> QED
          BY <2>1 DEF FeedInv, FeedTypes, SocketInv, NoSilentGap, Socket
<1>2. CASE Sends
      <2>1. /\ socket = "sending" /\ wire' = Append(wire, next) /\ next' = next + 1
            /\ socket' = "selecting" /\ UNCHANGED <<sent, connected, got>>
            BY <1>2 DEF Sends, ToClient
      <2>2. next \in Frame /\ next # Close /\ next <= sent
            BY <2>1, WireTypes DEF FeedInv, FeedTypes, Frame, Close
      <2>3. /\ wire' \in Seq(Frame) /\ Len(wire') = Len(wire) + 1
            /\ DOMAIN wire' = 1..(Len(wire) + 1)
            /\ \A i \in 1..Len(wire) : wire'[i] = wire[i]
            /\ wire'[Len(wire) + 1] = next
            BY <2>1, <2>2, AppendedIs
      <2>4. /\ connected /\ next = got + Len(wire) + 1
            /\ \A i \in 1..Len(wire) : wire[i] # Close /\ wire[i] = got + i
            BY <2>1, WireTypes DEF FeedInv, SocketInv, NoSilentGap
      <2>5. FeedTypes'
            BY <2>1, <2>2, <2>3, WireTypes DEF FeedInv, FeedTypes, Socket
      <2>6. ASSUME NEW i \in 1..(Len(wire) + 1)
            PROVE  wire'[i] # Close /\ wire'[i] = got + i
            <3>1. i \in 1..Len(wire) \/ i = Len(wire) + 1
                  BY WireTypes
            <3>2. next = got + (Len(wire) + 1)
                  BY <2>4, WireTypes
            <3> QED
                BY <2>2, <2>3, <2>4, <3>1, <3>2
      <2>7. next' = got' + Len(wire') + 1
            BY <2>1, <2>3, <2>4, WireTypes
      <2> QED
          BY <2>1, <2>3, <2>4, <2>5, <2>6, <2>7 DEF FeedInv, SocketInv, NoSilentGap
<1>3. CASE Closes
      <2>1. /\ socket = "closing" /\ wire' = Append(wire, Close) /\ next' = 1
            /\ socket' = "none" /\ UNCHANGED <<sent, connected, got>>
            BY <1>3 DEF Closes, ToClient
      <2>2. Close \in Frame
            BY FeedAssumption DEF Close, Frame
      <2>3. /\ wire' \in Seq(Frame) /\ DOMAIN wire' = 1..(Len(wire) + 1)
            /\ \A i \in 1..Len(wire) : wire'[i] = wire[i]
            /\ wire'[Len(wire) + 1] = Close
            BY <2>1, <2>2, AppendedIs
      <2>4. FeedTypes'
            BY <2>1, <2>3, WireTypes DEF FeedInv, FeedTypes, Socket
      <2>5. NoSilentGap'
            <3>1. ASSUME NEW i \in 1..(Len(wire) + 1), wire'[i] # Close, connected
                  PROVE  wire'[i] = got + i
                  <4>1. i \in 1..Len(wire)
                        BY <2>3, <3>1, WireTypes
                  <4> QED
                      BY <2>3, <3>1, <4>1, WireTypes DEF FeedInv, NoSilentGap
            <3> QED
                BY <2>1, <2>3, <3>1 DEF NoSilentGap
      <2> QED
          BY <2>1, <2>4, <2>5 DEF FeedInv, SocketInv
<1> QED
    BY <1>1, <1>2, <1>3 DEF SocketStep

LEMMA ReadsFrameInv == ASSUME FeedInv, ReadsFrame PROVE FeedInv'
<1>0. /\ UNCHANGED <<sent, socket, next, connected>> /\ connected
      /\ wire # <<>> /\ Head(wire) # Close
      /\ got' = Head(wire) /\ wire' = Tail(wire)
      BY DEF ReadsFrame
<1>1. /\ Tail(wire) \in Seq(Frame) /\ Len(Tail(wire)) = Len(wire) - 1
      /\ DOMAIN Tail(wire) = 1..(Len(wire) - 1)
      /\ \A i \in 1..(Len(wire) - 1) : Tail(wire)[i] = wire[i + 1]
      <2>1. wire \in Seq(Frame) /\ wire # <<>>
            BY <1>0 DEF FeedInv, FeedTypes
      <2>2. /\ Tail(wire) \in Seq(Frame) /\ Len(Tail(wire)) = Len(wire) - 1
            /\ \A i \in 1..Len(Tail(wire)) : Tail(wire)[i] = wire[i + 1]
            BY <2>1, HeadTailProperties
      <2> QED
          BY <2>2, LenProperties
<1>2. /\ Len(wire) >= 1 /\ Head(wire) = wire[1]
      <2>1. Len(wire) # 0
            BY <1>0, EmptySeq DEF FeedInv, FeedTypes
      <2> QED
          BY <2>1, WireTypes DEF Head
<1>3. \A i \in 1..Len(wire) : wire[i] # Close => wire[i] = got + i
      BY <1>0, WireTypes DEF FeedInv, NoSilentGap
<1>4. got' = got + 1 /\ got' \in Frame
      BY <1>0, <1>2, <1>3, WireTypes
<1>5. FeedTypes'
      BY <1>0, <1>1, <1>4 DEF FeedInv, FeedTypes
<1>6. NoSilentGap'
      <2>1. ASSUME NEW i \in 1..(Len(wire) - 1), wire[i + 1] # Close
            PROVE  wire[i + 1] = got' + i
            <3>1. i + 1 \in 1..Len(wire)
                  BY WireTypes
            <3>2. wire[i + 1] = got + (i + 1)
                  BY <1>3, <2>1, <3>1
            <3> QED
                BY <1>4, <3>2, WireTypes
      <2> QED
          BY <1>0, <1>1, <2>1 DEF NoSilentGap
<1>7. SocketInv'
      <2>1. ASSUME socket # "none" PROVE next = got' + (Len(wire) - 1) + 1
            BY <1>4, <2>1, WireTypes DEF FeedInv, SocketInv
      <2>2. ASSUME socket # "none", NEW i \in 1..(Len(wire) - 1)
            PROVE  wire[i + 1] # Close
            <3>1. i + 1 \in DOMAIN wire
                  BY WireTypes
            <3> QED
                BY <2>2, <3>1 DEF FeedInv, SocketInv
      <2> QED
          BY <1>0, <1>1, <2>1, <2>2 DEF SocketInv
<1> QED
    BY <1>5, <1>6, <1>7 DEF FeedInv

LEMMA ReadsEndInv == ASSUME FeedInv, ReadsEnd PROVE FeedInv'
<1>1. /\ sent' = sent /\ connected' = FALSE /\ got' = 0
      /\ socket' = "none" /\ wire' = <<>> /\ next' = 1
      BY DEF ReadsEnd
<1>2. FeedTypes'
      <2>1. next' \in 1..(sent' + 1) /\ socket' \in Socket /\ got' \in Frame
            BY <1>1, WireTypes DEF Socket, Frame
      <2> QED
          BY <1>1, <2>1, EmptyWire DEF FeedInv, FeedTypes
<1> QED
    BY <1>1, <1>2 DEF FeedInv, SocketInv, NoSilentGap

LEMMA ConnectsInv == ASSUME FeedInv, Connects PROVE FeedInv'
<1>1. /\ sent' = sent /\ connected' = TRUE /\ got' = sent /\ socket' = "selecting"
      /\ next' = sent + 1 /\ wire' = <<>>
      BY DEF Connects
<1>2. FeedTypes'
      BY <1>1, EmptyWire, FeedAssumption DEF FeedInv, FeedTypes, Socket, Frame
<1> QED
    BY <1>1, <1>2, EmptyWire, WireTypes DEF FeedInv, SocketInv, NoSilentGap

LEMMA FeedNextInv == ASSUME FeedInv, [FeedNext]_feedVars PROVE FeedInv'
<1>s. sent \in Nat /\ sent <= sent /\ sent <= MaxBroadcast /\ MaxBroadcast \in Nat
      BY FeedAssumption DEF FeedAssumption, FeedInv, FeedTypes
<1>1. CASE Broadcast
      <2>1. sent' \in Nat /\ sent <= sent' /\ sent' <= MaxBroadcast
            BY <1>1, <1>s DEF Broadcast
      <2> QED
          BY <1>1, <2>1, ElsewhereInv DEF Broadcast
<1>2. CASE ServerStops \/ Returns \/ UNCHANGED feedVars
      <2>1. UNCHANGED <<sent, socketVars, connected, got>>
            BY <1>2 DEF ServerStops, Returns, feedVars
      <2> QED
          BY <1>s, <2>1, ElsewhereInv
<1>3. CASE Fails \/ Exits
      BY <1>3, GoneInv DEF Fails, Exits
<1>4. CASE SocketStep \/ ClientStep
      BY <1>4, SocketStepInv, ConnectsInv, ReadsFrameInv, ReadsEndInv DEF ClientStep
<1> QED
    BY <1>1, <1>2, <1>3, <1>4 DEF FeedNext

-----------------------------------------------------------------------------
\* A client reads the results without a gap while its connection lives (handle_socket):
\* one that falls behind by more than the ring is closed, never skipped over.
THEOREM NoGap == FeedSpec => []NoSilentGap
<1>1. FeedInit => FeedInv
      BY FeedInitInv
<1>2. FeedInv /\ [FeedNext]_feedVars => FeedInv'
      BY FeedNextInv
<1>3. FeedInv => NoSilentGap
      BY DEF FeedInv
<1> QED
    BY <1>1, <1>2, <1>3, PTL DEF FeedSpec

-----------------------------------------------------------------------------
\* Whatever is shown has a monitor selected, if there is one to select.
SelectionInBounds == display.list # {} => cursor < Cardinality(display.list)

\* The lists on their way to the screen are finite.
ListsInv == /\ rows \subseteq RowId
            /\ published.list \subseteq RowId
            /\ display.list \subseteq RowId
            /\ cursor \in Nat

SelectionInv == ListsInv /\ SelectionInBounds

LEMMA Counts ==
    ASSUME NEW list \in SUBSET RowId
    PROVE  Cardinality(list) \in Nat /\ (list # {} => Cardinality(list) > 0)
<1>1. IsFiniteSet(RowId)
      BY FS_Interval, TerminalAssumption DEF TerminalAssumption, RowId
<1>2. IsFiniteSet(list)
      BY <1>1, FS_Subset
<1> QED
    BY <1>2, FS_CardinalityType, FS_EmptySet

LEMMA SelectionInitInv == TerminalInit => SelectionInv
BY DEF TerminalInit, SelectionInv, ListsInv, SelectionInBounds, NoSnapshot

LEMMA SelectionNextInv == ASSUME SelectionInv, [TerminalNext]_terminalVars PROVE SelectionInv'
<1> USE DEF SelectionInv, ListsInv
<1>1. CASE Change
      <2>1. rows' \subseteq RowId /\ UNCHANGED <<published, display, cursor>>
            BY <1>1 DEF Change, appVars
      <2> QED
          BY <2>1 DEF SelectionInBounds
<1>2. CASE Fetched
      <2>1. published'.list \in {{}, rows} /\ UNCHANGED <<rows, display, cursor>>
            BY <1>2 DEF Fetched, SnapshotNow, NoSnapshot, tableVars
      <2> QED
          BY <2>1 DEF SelectionInBounds
<1>3. CASE Renders
      <2>1. /\ UNCHANGED <<rows, published>> /\ display' = published
            /\ cursor' = Clamped(cursor, published.list)
            BY <1>3 DEF Renders, tableVars
      <2>2. /\ Cardinality(published.list) \in Nat
            /\ published.list # {} => Cardinality(published.list) > 0
            BY Counts
      <2>3. /\ cursor' \in Nat
            /\ published.list # {} => cursor' < Cardinality(published.list)
            BY <2>1, <2>2 DEF Clamped
      <2> QED
          BY <2>1, <2>3 DEF SelectionInBounds
<1>4. CASE Key
      <2>1. UNCHANGED <<rows, published, display>>
            BY <1>4 DEF Key, tableVars
      <2>2. /\ Cardinality(display.list) \in Nat
            /\ display.list # {} => Cardinality(display.list) > 0
            BY Counts
      <2>3. /\ cursor' \in Nat
            /\ display.list # {} => cursor' < Cardinality(display.list)
            BY <1>4, <2>2 DEF Key, SelectionInBounds
      <2> QED
          BY <2>1, <2>3 DEF SelectionInBounds
<1>5. CASE \/ Writes \/ GoesDown \/ ComesBack \/ Pass \/ Tick \/ Retries
           \/ UNCHANGED terminalVars
      <2>1. UNCHANGED <<rows, published, display, cursor>>
            BY <1>5 DEF Writes, GoesDown, ComesBack, Pass, Tick, Retries, tableVars, appVars,
                        terminalVars
      <2> QED
          BY <2>1 DEF SelectionInBounds
<1> QED
    BY <1>1, <1>2, <1>3, <1>4, <1>5 DEF TerminalNext, LoopStep

\* App::on_snapshot and on_key: however the list shrinks and grows between two snapshots
\* and whatever keys are pressed, the index selected is one of the list on the screen.
THEOREM SelectionStays == TerminalSpec => []SelectionInBounds
<1>1. SelectionInv => SelectionInBounds
      BY DEF SelectionInv
<1> QED
    BY <1>1, SelectionInitInv, SelectionNextInv, PTL DEF TerminalSpec
=============================================================================
