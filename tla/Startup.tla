------------------------------- MODULE Startup -------------------------------
(***************************************************************************)
(* The processes that share one user's configuration file and database:    *)
(* commands that edit the file, one-shot commands on the store, and        *)
(* daemons until they run (src/main.rs; opening the database is in         *)
(* crates/storage/src/migrations.rs).  No lock is held on the file: each   *)
(* command loads it, changes its copy and writes the copy back, and        *)
(* fs::write empties the file before it fills it.  A migration is looked   *)
(* up outside the transaction that applies it.                             *)
(***************************************************************************)
EXTENDS Configuration, FiniteSets

CONSTANTS Proc,
          InitialFiles,    \* contents of the user's file at first
          Outside,         \* project file, environment and flags of a start
          Migrations,      \* length of the list of migrations
          MaxCommands,     \* bound on commands begun
          MaxCrashes       \* bound on processes killed

ASSUME StartupAssumption ==
    /\ InitialFiles \subseteq ConfigFile
    /\ Migrations \in Nat /\ MaxCommands \in Nat /\ MaxCrashes \in Nat

VARIABLES file,       \* what the user's file parses to
          schema,     \* versions whose SQL has been executed
          recorded,   \* versions in schema_migrations
          at,         \* where each process stands
          command,    \* the command that it will have carried out
          copy,       \* its copy of the file
          outside,    \* what a start is given from outside the file
          resolved,   \* token and notifier of a start, each with its layer
          version,    \* the migration a process stands at
          made,       \* tokens generated
          budget,
          serial,     \* history: the file, had each command written at once
          stale,      \* history: processes that act on a file written since
          beaten,     \* history: processes beside whose open another migrated
          clobbered,  \* history: a process has written on stale knowledge
          torn        \* history: a process was killed while it wrote

vars == <<file, schema, recorded, at, command, copy, outside, resolved, version,
          made, budget, serial, stale, beaten, clobbered, torn>>

histories == <<serial, stale, beaten, clobbered, torn>>
database == <<schema, recorded>>

Idle == [op |-> "none"]
Nothing == [value |-> None, source |-> "Default"]
Unresolved == [api_token |-> Nothing, notifier |-> Nothing]

\* What a process holds is gone when it ends.
Ends(p) ==
    /\ at' = [at EXCEPT ![p] = "idle"]
    /\ command' = [command EXCEPT ![p] = Idle]
    /\ copy' = [copy EXCEPT ![p] = None]
    /\ outside' = [outside EXCEPT ![p] = None]
    /\ resolved' = [resolved EXCEPT ![p] = Unresolved]
    /\ version' = [version EXCEPT ![p] = 0]
    /\ beaten' = beaten \ {p}

Begins(p) ==
    /\ at[p] = "idle"
    /\ budget.commands > 0
    /\ budget' = [budget EXCEPT !.commands = @ - 1]

-----------------------------------------------------------------------------
(* Commands that edit the file. *)

\* What is read while another writes is out of date from the start.
Reads(p) ==
    stale' = IF \E q \in Proc \ {p} : at[q] = "fill" THEN stale \cup {p} ELSE stale \ {p}

\* The file is loaded before anything else is done; `setup' then waits for an answer.
Edit(p, c) ==
    /\ Begins(p)
    /\ ~ NothingToDo(file, c)
    /\ at' = [at EXCEPT ![p] = IF c.op = "setup" THEN "prompt" ELSE "save"]
    /\ command' = [command EXCEPT ![p] = c]
    /\ copy' = [copy EXCEPT ![p] = file]
    /\ Reads(p)
    /\ UNCHANGED <<file, database, outside, resolved, version, made,
                   serial, beaten, clobbered, torn>>

Answer(p) ==
    /\ at[p] = "prompt"
    /\ \E url \in NotifierUrl \cup {None} :
           command' = [command EXCEPT ![p] = [op |-> "setup", url |-> url]]
    /\ at' = [at EXCEPT ![p] = "save"]
    /\ UNCHANGED <<file, database, copy, outside, resolved, version, made, budget, histories>>

\* Whoever else has loaded the file and is not done with it now knows a past one.
Outdates(p) ==
    /\ stale' = (stale \ {p}) \cup
           {q \in Proc \ {p} : at[q] \in {"prompt", "save", "fill", "token"}}
    /\ clobbered' = (clobbered \/ p \in stale)

\* write_file, first half: the file is created anew, which empties the old one.
Truncate(p) ==
    /\ at[p] = "save"
    /\ file' = EmptyConfig
    /\ at' = [at EXCEPT ![p] = "fill"]
    /\ Outdates(p)
    /\ UNCHANGED <<database, command, copy, outside, resolved, version, made, budget,
                   serial, beaten, torn>>

\* Second half.  A command is done; a start goes on with the token it has saved.
Fill(p) ==
    /\ at[p] = "fill"
    /\ file' = Edited(copy[p], command[p])
    /\ serial' = Edited(serial, command[p])
    /\ Outdates(p)
    /\ IF command[p].op = "start"
       THEN /\ at' = [at EXCEPT ![p] = "boot"]
            /\ resolved' = [resolved EXCEPT ![p] =
                   [api_token |-> [value |-> command[p].token, source |-> "Generated"],
                    notifier  |-> @.notifier]]
            /\ copy' = [copy EXCEPT ![p] = None]
            /\ UNCHANGED <<command, outside, version, beaten>>
       ELSE Ends(p)
    /\ UNCHANGED <<database, made, budget, torn>>

-----------------------------------------------------------------------------
(* Opening the store, which every command on monitors, agents or alerts    *)
(* and every start begin with.                                             *)

\* open_store refuses a configured store, and has then changed nothing.
Open(p, op, given) ==
    /\ Begins(p)
    /\ Resolved(file, given, "store").value = None
    /\ at' = [at EXCEPT ![p] = "lookup"]
    /\ command' = [command EXCEPT ![p] = [op |-> op]]
    /\ outside' = [outside EXCEPT ![p] = given]
    /\ version' = [version EXCEPT ![p] = 1]
    /\ UNCHANGED <<file, database, copy, resolved, made, histories>>

\* The loop of migrations::run: a recorded migration is passed over.
LookUp(p) ==
    /\ at[p] = "lookup"
    /\ version[p] <= Migrations
    /\ IF version[p] \in recorded
       THEN version' = [version EXCEPT ![p] = @ + 1] /\ UNCHANGED at
       ELSE at' = [at EXCEPT ![p] = "transaction"] /\ UNCHANGED version
    /\ UNCHANGED <<file, database, command, copy, outside, resolved, made, budget, histories>>

\* mutant: the record is no part of the transaction
CommittedApart(v) ==
    /\ schema' = schema \cup {v}
    /\ recorded' \in {recorded, recorded \cup {v}}

\* What a committed transaction leaves: the migration's SQL, and its record.
Committed(v) ==
    /\ schema' = schema \cup {v}
    /\ recorded' = recorded \cup {v}

Migrate(p) ==
    /\ at[p] = "transaction"
    /\ version[p] \notin schema
    /\ Committed(version[p])
    /\ beaten' = beaten \cup {q \in Proc \ {p} : at[q] \in {"lookup", "transaction"}}
    /\ version' = [version EXCEPT ![p] = @ + 1]
    /\ at' = [at EXCEPT ![p] = "lookup"]
    /\ UNCHANGED <<file, command, copy, outside, resolved, made, budget,
                   serial, stale, clobbered, torn>>

\* CREATE TABLE, CREATE INDEX and ADD COLUMN fail on what is there already.
MigrateFails(p) ==
    /\ at[p] = "transaction"
    /\ version[p] \in schema
    /\ Ends(p)
    /\ UNCHANGED <<file, database, made, budget, serial, stale, clobbered, torn>>

Opened(p) ==
    /\ at[p] = "lookup"
    /\ version[p] > Migrations
    /\ IF command[p].op = "start"
       THEN /\ at' = [at EXCEPT ![p] = "gather"]
            /\ UNCHANGED <<command, copy, outside, resolved, version, beaten>>
       ELSE Ends(p)
    /\ UNCHANGED <<file, database, made, budget, serial, stale, clobbered, torn>>

-----------------------------------------------------------------------------
(* The rest of boot_daemon. *)

\* The sources are gathered a second time.  Retention and cache are judged before
\* the token is looked for, the notifier after.
Gather(p) ==
    LET Value(field) == Resolved(file, outside[p], field).value IN
    /\ at[p] = "gather"
    /\ IF RetentionAccepted(Value("retention_days")) /\ Value("cache") = None
       THEN /\ at' = [at EXCEPT ![p] =
                           IF Value("api_token") = None THEN "token" ELSE "boot"]
            /\ resolved' = [resolved EXCEPT ![p] =
                   [api_token |-> Resolved(file, outside[p], "api_token"),
                    notifier  |-> Resolved(file, outside[p], "notifier")]]
            /\ UNCHANGED <<command, copy, outside, version, beaten>>
       ELSE Ends(p)
    /\ Reads(p)
    /\ UNCHANGED <<file, database, made, budget, serial, clobbered, torn>>

\* mutant: the generated token is saved in a file of its own
LoadForTokenAlone(p) ==
    /\ at[p] = "token"
    /\ made' = made + 1
    /\ command' = [command EXCEPT ![p] = [op |-> "start", token |-> made']]
    /\ copy' = [copy EXCEPT ![p] = EmptyConfig]
    /\ at' = [at EXCEPT ![p] = "save"]
    /\ UNCHANGED <<file, database, outside, resolved, version, budget, histories>>

\* mutant: the generated token is used and not saved
LoadForTokenUnsaved(p) ==
    /\ at[p] = "token"
    /\ made' = made + 1
    /\ resolved' = [resolved EXCEPT ![p].api_token =
                        [value |-> made', source |-> "Generated"]]
    /\ at' = [at EXCEPT ![p] = "boot"]
    /\ UNCHANGED <<file, database, command, copy, outside, version, budget, histories>>

\* resolve_or_generate_token, when no layer gave one: the file is loaded a third
\* time, and a token that has come into it meanwhile is replaced.
LoadForToken(p) ==
    /\ at[p] = "token"
    /\ made' = made + 1
    /\ command' = [command EXCEPT ![p] = [op |-> "start", token |-> made']]
    /\ copy' = [copy EXCEPT ![p] = file]
    /\ at' = [at EXCEPT ![p] = "save"]
    /\ UNCHANGED <<file, database, outside, resolved, version, budget, histories>>

\* build_notifier and the store's health check stand between a start and a daemon.
Boot(p) ==
    /\ at[p] = "boot"
    /\ \/ /\ resolved[p].notifier.value \in Recognized \cup {None}
          /\ at' = [at EXCEPT ![p] = "running"]
          /\ UNCHANGED <<command, copy, outside, resolved, version, beaten>>
       \/ Ends(p)
    /\ UNCHANGED <<file, database, made, budget, serial, stale, clobbered, torn>>

\* A daemon is stopped; Engine has what happens until then.
Stop(p) ==
    /\ at[p] = "running"
    /\ Ends(p)
    /\ UNCHANGED <<file, database, made, budget, serial, stale, clobbered, torn>>

\* A process is killed, or what it does with file or database fails: an open
\* transaction is rolled back, the file stays as it is.
Crash(p) ==
    /\ at[p] # "idle"
    /\ budget.crashes > 0
    /\ budget' = [budget EXCEPT !.crashes = @ - 1]
    /\ Ends(p)
    /\ torn' = (torn \/ at[p] = "fill")
    /\ UNCHANGED <<file, database, made, serial, stale, clobbered>>

-----------------------------------------------------------------------------
Init ==
    /\ file \in InitialFiles
    /\ \E v \in 0..Migrations : schema = 1..v
    /\ recorded = schema
    /\ at = [p \in Proc |-> "idle"]
    /\ command = [p \in Proc |-> Idle]
    /\ copy = [p \in Proc |-> None]
    /\ outside = [p \in Proc |-> None]
    /\ resolved = [p \in Proc |-> Unresolved]
    /\ version = [p \in Proc |-> 0]
    /\ made = 0
    /\ budget = [commands |-> MaxCommands, crashes |-> MaxCrashes]
    /\ serial = file
    /\ stale = {}
    /\ beaten = {}
    /\ clobbered = FALSE
    /\ torn = FALSE

Next ==
    \E p \in Proc :
        \/ \E c \in Request : Edit(p, c)
        \/ Answer(p)
        \/ Truncate(p)
        \/ Fill(p)
        \/ \E op \in {"start", "one-shot"}, given \in Outside : Open(p, op, given)
        \/ LookUp(p)
        \/ Migrate(p)
        \/ MigrateFails(p)
        \/ Opened(p)
        \/ Gather(p)
        \/ LoadForToken(p)
        \/ Boot(p)
        \/ Stop(p)
        \/ Crash(p)

Spec == Init /\ [][Next]_vars

-----------------------------------------------------------------------------
(* Properties. *)

\* As long as nobody has written what he loaded before another wrote (main.rs loads
\* and saves without a lock), and nobody was killed between the two halves of a
\* write, the file is what its commands would have made one after the other.
SerialUnlessStale ==
    ~ clobbered /\ ~ torn /\ (\A p \in Proc : at[p] # "fill") => file = serial

\* Under the same reserve there is one token: every daemon that has its token from
\* the file, or has generated it, answers to the one the file holds, whatever was
\* attached, detached, refused or killed in between (resolve_or_generate_token).
OneToken ==
    ~ clobbered /\ ~ torn =>
        \A p \in Proc :
            at[p] = "running" /\ resolved[p].api_token.source \in {"Xdg", "Generated"}
                => resolved[p].api_token.value = serial.api_token

\* Opening the database fails on a migration only where another process migrated at
\* the same time: one alone gets through from wherever a killed one has left the
\* schema (migrations::run commits a migration and its record together).
OpenFailsOnlyBesideAnother ==
    \A p \in Proc : at[p] = "transaction" /\ version[p] \in schema => p \in beaten
=============================================================================
