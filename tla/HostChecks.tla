------------------------------ MODULE HostChecks ------------------------------
(***************************************************************************)
(* The checks an agent runs on its own host (crates/agent/src/checks): is  *)
(* enough of a file system free, is a systemd unit active, does a process  *)
(* of some name run.  Each ends as a success, a failure, or unavailable    *)
(* where the agent itself could not look.                                  *)
(*                                                                         *)
(* The first two ask the system once.  The third walks through /proc while *)
(* processes start, exit, exec and have their pids given out again, and    *)
(* passes over whatever it cannot read.                                    *)
(***************************************************************************)
EXTENDS Naturals, FiniteSets

CONSTANTS Pid,        \* process ids
          Comm,       \* what /proc/<pid>/comm may say: the first 15 bytes of a name
          Wanted,     \* the name the check is configured with, of any length
          Nothing,    \* no process, no scan, nothing to report
          MaxBlocks   \* bound on a file system's blocks

\* What is assumed of the constants.
HostChecksAssumption ==
    /\ Nothing \notin Comm \cup {Wanted, "success", "failure", "unavailable"}
    /\ MaxBlocks \in Nat

VARIABLES process,   \* the comm of each process that runs
          unread,    \* check_process_in: entries listed and not looked at yet
          steady,    \* history: pids that have borne the name since the scan began
          borne,     \* history: has any process borne it since?
          missed,    \* history: pids passed over since while they bore it
          outcome    \* what the last step reported

hostVars == <<process, unread, steady, borne, missed, outcome>>

Bearing(procs) == {p \in Pid : procs[p] = Wanted}
Running(procs) == {p \in Pid : procs[p] # Nothing}
Scanning       == unread # Nothing

-----------------------------------------------------------------------------
\* A process starts, calls exec, or exits.  One that starts may still be listed.
ProcessChanges(p) ==
    /\ \E comm \in Comm \cup {Nothing} : process' = [process EXCEPT ![p] = comm]
    /\ unread' \in IF Scanning /\ process[p] = Nothing
                   THEN {unread, unread \cup (Running(process') \cap {p})} ELSE {unread}
    /\ steady' = steady \cap Bearing(process')
    /\ borne' = (borne \/ (Scanning /\ Bearing(process') # {}))
    /\ outcome' = Nothing
    /\ UNCHANGED missed

\* check_process: read_dir fails, or lists the processes there are.
BeginScan ==
    /\ ~Scanning
    /\ unread' = Running(process)
    /\ steady' = Bearing(process)
    /\ borne' = (Bearing(process) # {})
    /\ outcome' = Nothing
    /\ UNCHANGED <<process, missed>>

EndScan(result) ==
    /\ unread' = Nothing
    /\ steady' = {} /\ borne' = FALSE /\ missed' = {}
    /\ outcome' = result
    /\ UNCHANGED process

PassOver(p) == /\ unread' = unread \ {p}
               /\ missed' = missed \cup ({p} \cap Bearing(process))
               /\ outcome' = Nothing
               /\ UNCHANGED <<process, steady, borne>>

\* Mutant of ReadEntry: an entry that has gone ends the scan.
ReadEntryOrFail(p) ==
    /\ Scanning /\ p \in unread
    /\ \/ process[p] = Wanted /\ EndScan("success")
       \/ process[p] = Nothing /\ EndScan("failure")
       \/ process[p] # Nothing /\ PassOver(p)

\* The next entry.  It bears the name; or it is passed over, since it bears another or
\* has exited since it was listed, or because the entry or its comm cannot be read,
\* whatever it bears: the code takes every error for a process that has exited.
ReadEntry(p) ==
    /\ Scanning /\ p \in unread
    /\ \/ process[p] = Wanted /\ EndScan("success")
       \/ PassOver(p)

NoneLeft == unread = {} /\ EndScan("failure")

-----------------------------------------------------------------------------
\* check_disk: statvfs fails or knows no blocks, or the share that is free is compared
\* with min_free_pct.
DiskOutcome(free, blocks, percent) ==
    IF blocks = 0 THEN "unavailable"
    ELSE IF 100 * free < percent * blocks THEN "failure" ELSE "success"

\* check_systemd: what `systemctl is-active` prints; a word it does not know, or no
\* systemctl, is no claim about the unit.
DownStates == {"inactive", "failed", "activating", "deactivating", "reloading"}

SystemdOutcome(said) ==
    IF said = "active" THEN "success" ELSE IF said \in DownStates THEN "failure"
    ELSE "unavailable"

\* run_check, for the checks that take one step, and for a /proc that cannot be read.
CheckAtOnce ==
    /\ ~Scanning
    /\ outcome' \in
          {DiskOutcome(free, blocks, percent) :
              free \in 0..MaxBlocks, blocks \in 0..MaxBlocks, percent \in {0, 50, 100}}
          \cup {SystemdOutcome(said) : said \in DownStates \cup {"active", "unknown", "none"}}
          \cup {"unavailable"}
    /\ UNCHANGED <<process, unread, steady, borne, missed>>

-----------------------------------------------------------------------------
HostInit ==
    /\ process \in [Pid -> Comm \cup {Nothing}]
    /\ unread = Nothing /\ steady = {} /\ borne = FALSE /\ missed = {}
    /\ outcome = Nothing

HostNext ==
    \/ \E p \in Pid : ProcessChanges(p) \/ ReadEntry(p)
    \/ BeginScan \/ NoneLeft \/ CheckAtOnce

HostSpec == HostInit /\ [][HostNext]_hostVars

-----------------------------------------------------------------------------
(***************************************************************************)
(* Properties.                                                             *)
(***************************************************************************)
HostTypeOK ==
    /\ process \in [Pid -> Comm \cup {Nothing}]
    /\ Scanning => unread \subseteq Pid
    /\ steady \subseteq Bearing(process)
    /\ borne \in BOOLEAN
    /\ missed \subseteq Pid
    /\ outcome \in {"success", "failure", "unavailable", Nothing}

\* A scan of /proc claims no more than it has read: it calls a process missing only if
\* none whose comm it could read bore the name from the scan's beginning to its end, and
\* running only if one bore it at some time in between, whatever exits, starts, execs
\* and reuses pids meanwhile.  One that cannot be read is missing as far as the scan
\* goes, even if it bears the name throughout; and to bear the name is to have it for
\* the whole comm, which no process has for a name of more than 15 bytes.
ScanIsTrue ==
    [][Scanning => /\ outcome' = "failure" => steady \subseteq missed
                   /\ outcome' = "success" => borne]_hostVars
=============================================================================
