------------------------------ MODULE MCClients ------------------------------
(***************************************************************************)
(* Six parts on the other side of the backend's routes in one run: the     *)
(* browser's dashboard, its view of one monitor, an agent's push protocol, *)
(* the checks on the agent's host, the live feed, and the terminal         *)
(* dashboard.  As in MCTasks a behaviour is one of one part, while the     *)
(* others keep their initial state.                                        *)
(***************************************************************************)
EXTENDS WebDashboard, MonitorView, AgentPush, HostChecks, LiveFeed, TerminalDashboard

VARIABLE part

clientsVars == <<part, vars, viewVars, pushVars, hostVars, feedVars, terminalVars>>

ASSUME ClientsAssumption == /\ WebDashboardAssumption
                            /\ MonitorViewAssumption
                            /\ AgentAssumption
                            /\ HostChecksAssumption

-----------------------------------------------------------------------------
Part == {"browser", "monitor", "agent", "host", "feed", "terminal"}

\* Where a part keeps still one of its initial states is enough.
ClientsInit ==
    /\ part \in Part
    /\ Init /\ (part # "browser" => ~keeps /\ ~up /\ accepted = 1)
    /\ ViewInit /\ (part # "monitor" => ~open /\ listed = {})
    /\ PushInit
    /\ HostInit /\ (part # "host" => process = [p \in Pid |-> Nothing])
    /\ FeedInit
    /\ TerminalInit

\* All that keeps still while a part moves.
Others(moving) ==
    /\ UNCHANGED part
    /\ moving # "browser" => UNCHANGED vars
    /\ moving # "monitor" => UNCHANGED viewVars
    /\ moving # "agent" => UNCHANGED pushVars
    /\ moving # "host" => UNCHANGED hostVars
    /\ moving # "feed" => UNCHANGED feedVars
    /\ moving # "terminal" => UNCHANGED terminalVars

ClientsNext ==
    \/ part = "browser" /\ Next /\ Others("browser")
    \/ part = "monitor" /\ ViewNext /\ Others("monitor")
    \/ part = "agent" /\ PushNext /\ Others("agent")
    \/ part = "host" /\ HostNext /\ Others("host")
    \/ part = "feed" /\ FeedNext /\ Others("feed")
    \/ part = "terminal" /\ TerminalNext /\ Others("terminal")

\* The fairness of each part, in the behaviours that are its own.  The browser's is
\* about actions that are disabled in the initial state it keeps.
ClientsSpec ==
    /\ ClientsInit /\ [][ClientsNext]_clientsVars
    /\ Fairness
    /\ WF_pushVars(part = "agent" /\ Cycle)
    /\ WF_pushVars(part = "agent" /\ Serve)
    /\ WF_pushVars(part = "agent" /\ (Wake \/ Stop))
    /\ SF_pushVars(part = "agent" /\ Stop)
    /\ WF_terminalVars(part = "terminal" /\ Pass)
    /\ WF_terminalVars(part = "terminal" /\ LoopStep)
    /\ WF_terminalVars(Renders) /\ WF_terminalVars(ComesBack)
=============================================================================
