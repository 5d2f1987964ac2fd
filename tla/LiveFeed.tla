------------------------------- MODULE LiveFeed -------------------------------
(***************************************************************************)
(* The live feed: the engine's broadcast channel, the socket task of       *)
(* crates/backend/src/ws.rs, and a client at the other end of it that      *)
(* presents the daemon's token, as the browser's dashboard does            *)
(* (web/src/api/client.ts).  The terminal dashboard presents none and is   *)
(* never admitted: see TerminalDashboard.                                  *)
(*                                                                         *)
(* The socket task subscribes to the channel as the connection is upgraded *)
(* and forwards one result after another, waiting for the connection to    *)
(* take each; the channel keeps the latest results only and waits for      *)
(* nobody.                                                                 *)
(***************************************************************************)
EXTENDS Naturals, Sequences

CONSTANTS Ring,           \* results_channel_capacity
          Wire,           \* frames a connection holds before a send has to wait
          MaxBroadcast,   \* bound on results
          MaxCuts         \* bound on cut connections and stops of the daemon

ASSUME FeedAssumption ==
    /\ Ring \in Nat \ {0} /\ Wire \in Nat \ {0}
    /\ MaxBroadcast \in Nat /\ MaxCuts \in Nat

VARIABLES
    sent,       \* results broadcast
    server,     \* the daemon's: up, stopping, or down
    socket,     \* what the socket task does
    next,       \* the result it is to receive next
    wire,       \* frames on their way to the client
    connected,  \* the client holds an open socket
    got,        \* history: the last result it has read from this connection
    cuts        \* what may still happen to server and connection

socketVars == <<socket, next, wire>>
feedVars   == <<sent, server, socketVars, connected, got, cuts>>

Frame  == 0..MaxBroadcast
Close  == 0
Socket == {"none", "selecting", "sending", "closing"}

MayCut == cuts > 0 /\ cuts' = cuts - 1

-----------------------------------------------------------------------------
\* results_tx.send: it waits for no receiver.
Broadcast ==
    /\ server # "down"
    /\ sent < MaxBroadcast
    /\ sent' = sent + 1
    /\ UNCHANGED <<server, socketVars, connected, got, cuts>>

\* The connection is cut and what it held is lost; or the daemon is killed.
Fails ==
    /\ server # "down"
    /\ MayCut
    /\ server' \in {server, "down"}
    /\ socket' = "none" /\ wire' = <<>> /\ next' = 1
    /\ UNCHANGED <<sent, connected, got>>

\* A signal reaches the daemon: its server takes no more connections.
ServerStops ==
    /\ server = "up"
    /\ MayCut
    /\ server' = "stopping"
    /\ UNCHANGED <<sent, socketVars, connected, got>>

\* The process exits; it does not wait for the socket task.
Exits ==
    /\ server = "stopping"
    /\ server' = "down"
    /\ socket' = "none" /\ next' = 1
    /\ UNCHANGED <<sent, wire, connected, got, cuts>>

Returns ==
    /\ server = "down"
    /\ server' = "up"
    /\ UNCHANGED <<sent, socketVars, connected, got, cuts>>

-----------------------------------------------------------------------------
\* handle_socket.

ToClient(frame) == wire' = Append(wire, frame)

\* Mutant of Receives: a receiver that lags goes on with the oldest result there is.
ReceivesOn ==
    /\ socket = "selecting"
    /\ next <= sent
    /\ socket' = "sending"
    /\ next' = IF sent - next >= Ring THEN sent - Ring + 1 ELSE next
    /\ UNCHANGED <<sent, server, wire, connected, got, cuts>>

\* rx.recv: a result, or Lagged when the channel no longer has it.
Receives ==
    /\ socket = "selecting"
    /\ next <= sent
    /\ socket' = IF sent - next >= Ring THEN "closing" ELSE "sending"
    /\ UNCHANGED <<sent, server, next, wire, connected, got, cuts>>

\* socket.send(Message::Text) waits until the connection takes the frame.
Sends ==
    /\ socket = "sending"
    /\ Len(wire) < Wire
    /\ ToClient(next)
    /\ next' = next + 1
    /\ socket' = "selecting"
    /\ UNCHANGED <<sent, server, connected, got, cuts>>

\* socket.send(Message::Close), and the task returns.
Closes ==
    /\ socket = "closing"
    /\ Len(wire) < Wire
    /\ ToClient(Close)
    /\ socket' = "none" /\ next' = 1
    /\ UNCHANGED <<sent, server, connected, got, cuts>>

\* shutdown.changed().
IsTold ==
    /\ socket = "selecting"
    /\ server = "stopping"
    /\ socket' = "closing"
    /\ UNCHANGED <<sent, server, next, wire, connected, got, cuts>>

-----------------------------------------------------------------------------
\* The client.

\* An upgrade that carries the token passes require_token_ws, and the handler subscribes
\* as it answers.  An attempt while no server takes it changes nothing: the client makes
\* another (onclose).
Connects ==
    /\ ~connected
    /\ server = "up"
    /\ connected' = TRUE /\ got' = sent
    /\ socket' = "selecting" /\ next' = sent + 1 /\ wire' = <<>>
    /\ UNCHANGED <<sent, server, cuts>>

\* onmessage.
ReadsFrame ==
    /\ connected
    /\ wire # <<>> /\ Head(wire) # Close
    /\ got' = Head(wire) /\ wire' = Tail(wire)
    /\ UNCHANGED <<sent, server, socket, next, connected, cuts>>

\* onclose: a close frame, or the end of the connection.
ReadsEnd ==
    /\ connected
    /\ IF wire = <<>> THEN socket = "none" ELSE Head(wire) = Close
    /\ connected' = FALSE /\ got' = 0
    /\ socket' = "none" /\ wire' = <<>> /\ next' = 1
    /\ UNCHANGED <<sent, server, cuts>>

-----------------------------------------------------------------------------
FeedInit ==
    /\ sent = 0
    /\ server = "up"
    /\ socket = "none" /\ next = 1 /\ wire = <<>>
    /\ connected = FALSE /\ got = 0
    /\ cuts = MaxCuts

SocketStep == Receives \/ Sends \/ Closes \/ IsTold
ClientStep == Connects \/ ReadsFrame \/ ReadsEnd

FeedNext == \/ Broadcast
            \/ Fails \/ ServerStops \/ Exits \/ Returns
            \/ SocketStep
            \/ ClientStep

FeedSpec == FeedInit /\ [][FeedNext]_feedVars

-----------------------------------------------------------------------------
(***************************************************************************)
(* Properties.                                                             *)
(***************************************************************************)
FeedTypeOK ==
    /\ sent \in 0..MaxBroadcast
    /\ server \in {"up", "stopping", "down"}
    /\ socket \in Socket /\ next \in 1..(MaxBroadcast + 1)
    /\ wire \in Seq(Frame) /\ Len(wire) <= Wire
    /\ connected \in BOOLEAN /\ got \in Frame
    /\ cuts \in 0..MaxCuts

\* A client reads results without a gap for as long as its connection lives: one that
\* falls behind is closed instead.
NoSilentGap ==
    connected => \A i \in DOMAIN wire : wire[i] # Close => wire[i] = got + i
=============================================================================
