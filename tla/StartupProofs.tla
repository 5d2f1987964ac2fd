---------------------------- MODULE StartupProofs ----------------------------
(***************************************************************************)
(* Theorems about Startup, for any number of processes and migrations, any *)
(* first file and whatever starts are given from outside.                  *)
(***************************************************************************)
EXTENDS Startup, TLAPS

-----------------------------------------------------------------------------
(* Precedence. *)

\* The layer that is highest among those that give a field gives its value, and the
\* value says which layer that was: flags over the environment over the project
\* file over the user's (provider::config::resolve).
THEOREM Precedence ==
    ASSUME NEW xdg, NEW given, NEW field
    PROVE  LET r == Resolved(xdg, given, field) IN
           /\ given.flags[field] # None
                => r = [value |-> given.flags[field], source |-> "Flag"]
           /\ given.flags[field] = None /\ given.env[field] # None
                => r = [value |-> given.env[field], source |-> "Env"]
           /\ given.flags[field] = None /\ given.env[field] = None
              /\ given.project[field] # None
                => r = [value |-> given.project[field], source |-> "Project"]
           /\ given.flags[field] = None /\ given.env[field] = None
              /\ given.project[field] = None /\ xdg[field] # None
                => r = [value |-> xdg[field], source |-> "Xdg"]
           /\ given.flags[field] = None /\ given.env[field] = None
              /\ given.project[field] = None /\ xdg[field] = None
                => r = [value |-> None, source |-> "Default"]
BY DEF Resolved, Layer

\* What Gather needs of it: no value means that the user's file has none, and a value
\* said to be the file's is.
LEMMA FromTheFile ==
    ASSUME NEW xdg, NEW given, NEW field
    PROVE  LET r == Resolved(xdg, given, field) IN
           /\ r.value = None => xdg[field] = None
           /\ r.source = "Xdg" => r.value = xdg[field] /\ r.value # None
           /\ r.source # "Generated"
BY DEF Resolved, Layer

-----------------------------------------------------------------------------
(* Shape of the state. *)

Place == {"idle", "prompt", "save", "fill", "lookup", "transaction", "gather",
          "token", "boot", "running"}

Shape ==
    /\ at \in [Proc -> Place]
    /\ version \in [Proc -> Nat]
    /\ DOMAIN copy = Proc
    /\ DOMAIN command = Proc
    /\ DOMAIN outside = Proc
    /\ DOMAIN resolved = Proc

LEMMA ShapeHolds == Spec => []Shape
<1>1. Init => Shape
  BY DEF Init, Shape, Place
<1>2. Shape /\ [Next]_vars => Shape'
  <2> SUFFICES ASSUME Shape, [Next]_vars PROVE Shape'
    OBVIOUS
  <2>0. CASE UNCHANGED vars
    BY <2>0 DEF Shape, vars
  <2>1. ASSUME NEW p \in Proc, NEW c \in Request, Edit(p, c) PROVE Shape'
    BY <2>1 DEF Shape, Place, Edit
  <2>2. ASSUME NEW p \in Proc, Answer(p) PROVE Shape'
    BY <2>2 DEF Shape, Place, Answer
  <2>3. ASSUME NEW p \in Proc, Truncate(p) PROVE Shape'
    BY <2>3 DEF Shape, Place, Truncate
  <2>4. ASSUME NEW p \in Proc, Fill(p) PROVE Shape'
    BY <2>4 DEF Shape, Place, Fill, Ends
  <2>5. ASSUME NEW p \in Proc, NEW op, NEW given \in Outside, Open(p, op, given)
        PROVE Shape'
    BY <2>5 DEF Shape, Place, Open
  <2>6. ASSUME NEW p \in Proc, LookUp(p) PROVE Shape'
    BY <2>6 DEF Shape, Place, LookUp
  <2>7. ASSUME NEW p \in Proc, Migrate(p) PROVE Shape'
    BY <2>7 DEF Shape, Place, Migrate
  <2>8. ASSUME NEW p \in Proc, MigrateFails(p) PROVE Shape'
    BY <2>8 DEF Shape, Place, MigrateFails, Ends
  <2>9. ASSUME NEW p \in Proc, Opened(p) PROVE Shape'
    BY <2>9 DEF Shape, Place, Opened, Ends
  <2>10. ASSUME NEW p \in Proc, Gather(p) PROVE Shape'
    BY <2>10 DEF Shape, Place, Gather, Ends
  <2>11. ASSUME NEW p \in Proc, LoadForToken(p) PROVE Shape'
    BY <2>11 DEF Shape, Place, LoadForToken
  <2>12. ASSUME NEW p \in Proc, Boot(p) PROVE Shape'
    BY <2>12 DEF Shape, Place, Boot, Ends
  <2>13. ASSUME NEW p \in Proc, Stop(p) PROVE Shape'
    BY <2>13 DEF Shape, Place, Stop, Ends
  <2>14. ASSUME NEW p \in Proc, Crash(p) PROVE Shape'
    BY <2>14 DEF Shape, Place, Crash, Ends
  <2>15. QED
    BY <2>0, <2>1, <2>2, <2>3, <2>4, <2>5, <2>6, <2>7, <2>8, <2>9, <2>10, <2>11,
       <2>12, <2>13, <2>14 DEF Next
<1>3. QED
  BY <1>1, <1>2, PTL DEF Spec

-----------------------------------------------------------------------------
(* Migrations. *)

\* A version is recorded exactly if it has been executed, and who is about to execute
\* one that has been is beside someone who did.
MigrationInv == schema = recorded /\ OpenFailsOnlyBesideAnother

\* Opening the database fails on a migration only where another process migrated at
\* the same time, however many migrations there are and wherever a kill left them.
THEOREM OpenFailureIsOverlap == Spec => []OpenFailsOnlyBesideAnother
<1>1. Init => MigrationInv
  BY DEF Init, MigrationInv, OpenFailsOnlyBesideAnother
<1>2. Shape /\ MigrationInv /\ [Next]_vars => MigrationInv'
  <2> SUFFICES ASSUME Shape, MigrationInv, [Next]_vars PROVE MigrationInv'
    OBVIOUS
  <2> USE DEF MigrationInv, OpenFailsOnlyBesideAnother, Shape, Place
  <2>0. CASE UNCHANGED vars
    BY <2>0 DEF vars
  <2>1. ASSUME NEW p \in Proc, NEW c \in Request, Edit(p, c) PROVE MigrationInv'
    BY <2>1 DEF Edit, database
  <2>2. ASSUME NEW p \in Proc, Answer(p) PROVE MigrationInv'
    BY <2>2 DEF Answer, database, histories
  <2>3. ASSUME NEW p \in Proc, Truncate(p) PROVE MigrationInv'
    BY <2>3 DEF Truncate, database
  <2>4. ASSUME NEW p \in Proc, Fill(p) PROVE MigrationInv'
    BY <2>4 DEF Fill, Ends, database
  <2>5. ASSUME NEW p \in Proc, NEW op, NEW given \in Outside, Open(p, op, given)
        PROVE MigrationInv'
    BY <2>5 DEF Open, database, histories
  <2>6. ASSUME NEW p \in Proc, LookUp(p) PROVE MigrationInv'
    BY <2>6 DEF LookUp, database, histories
  <2>7. ASSUME NEW p \in Proc, Migrate(p) PROVE MigrationInv'
    <3>1. schema' = recorded'
      BY <2>7 DEF Migrate, Committed
    <3>2. ASSUME NEW q \in Proc, at'[q] = "transaction", version'[q] \in schema'
          PROVE  q \in beaten'
      <4>1. q # p /\ at[q] = "transaction"
        BY <2>7, <3>2 DEF Migrate
      <4>2. QED
        BY <2>7, <4>1 DEF Migrate
    <3>3. QED
      BY <3>1, <3>2
  <2>8. ASSUME NEW p \in Proc, MigrateFails(p) PROVE MigrationInv'
    BY <2>8 DEF MigrateFails, Ends, database
  <2>9. ASSUME NEW p \in Proc, Opened(p) PROVE MigrationInv'
    BY <2>9 DEF Opened, Ends, database
  <2>10. ASSUME NEW p \in Proc, Gather(p) PROVE MigrationInv'
    BY <2>10 DEF Gather, Ends, database
  <2>11. ASSUME NEW p \in Proc, LoadForToken(p) PROVE MigrationInv'
    BY <2>11 DEF LoadForToken, database, histories
  <2>12. ASSUME NEW p \in Proc, Boot(p) PROVE MigrationInv'
    BY <2>12 DEF Boot, Ends, database
  <2>13. ASSUME NEW p \in Proc, Stop(p) PROVE MigrationInv'
    BY <2>13 DEF Stop, Ends, database
  <2>14. ASSUME NEW p \in Proc, Crash(p) PROVE MigrationInv'
    BY <2>14 DEF Crash, Ends, database
  <2>15. QED
    BY <2>0, <2>1, <2>2, <2>3, <2>4, <2>5, <2>6, <2>7, <2>8, <2>9, <2>10, <2>11,
       <2>12, <2>13, <2>14 DEF Next
<1>3. MigrationInv => OpenFailsOnlyBesideAnother
  BY DEF MigrationInv
<1>4. QED
  BY <1>1, <1>2, <1>3, ShapeHolds, PTL DEF Spec

-----------------------------------------------------------------------------
(* The file. *)

\* Who has loaded the file, or decided on what it holds, and is not done with it.
Using == {"prompt", "save", "fill", "token"}

Undisturbed == ~ clobbered /\ ~ torn

\* While nobody has written on stale knowledge: outside of a write the file is the
\* serial one, and within one it is empty; a copy that is not stale is a copy of the
\* serial file; beside a write everybody's knowledge is stale.
FileInv ==
    Undisturbed =>
        /\ (\A p \in Proc : at[p] # "fill") => file = serial
        /\ (\E p \in Proc : at[p] = "fill") => file = EmptyConfig
        /\ \A p \in Proc : at[p] \in {"prompt", "save", "fill"} /\ p \notin stale
                              => copy[p] = serial
        /\ \A p, q \in Proc : at[p] = "fill" /\ q # p /\ at[q] \in Using => q \in stale

LEMMA FileInvHolds == Spec => []FileInv
<1>1. Init => FileInv
  BY DEF Init, FileInv
<1>2. Shape /\ FileInv /\ [Next]_vars => FileInv'
  <2> SUFFICES ASSUME Shape, FileInv, [Next]_vars PROVE FileInv'
    OBVIOUS
  <2> USE DEF FileInv, Undisturbed, Using, Shape, Place
  <2>0. CASE UNCHANGED vars
    BY <2>0 DEF vars
  <2>1. ASSUME NEW p \in Proc, NEW c \in Request, Edit(p, c) PROVE FileInv'
    <3>1. at[p] = "idle" /\ at'[p] \in {"prompt", "save"} /\ copy'[p] = file
      BY <2>1 DEF Edit, Begins
    <3>2. \A q \in Proc \ {p} : at'[q] = at[q] /\ copy'[q] = copy[q]
                                /\ (q \in stale' <=> q \in stale)
      BY <2>1 DEF Edit, Reads
    <3>3. p \notin stale' => \A q \in Proc : at[q] # "fill"
      BY <2>1, <3>1 DEF Edit, Reads
    <3>4. file' = file /\ serial' = serial /\ clobbered' = clobbered /\ torn' = torn
      BY <2>1 DEF Edit
    <3>5. QED
      BY <3>1, <3>2, <3>3, <3>4
  <2>2. ASSUME NEW p \in Proc, Answer(p) PROVE FileInv'
    BY <2>2 DEF Answer, histories
  <2>3. ASSUME NEW p \in Proc, Truncate(p) PROVE FileInv'
    BY <2>3 DEF Truncate, Outdates
  <2>4. ASSUME NEW p \in Proc, Fill(p) PROVE FileInv'
    <3> SUFFICES ASSUME Undisturbed' PROVE FileInv'
      OBVIOUS
    <3>1. Undisturbed /\ p \notin stale
      BY <2>4 DEF Fill, Outdates
    <3>2. file' = serial'
      BY <2>4, <3>1 DEF Fill
    <3>3. \A q \in Proc \ {p} : at'[q] = at[q] /\ at[q] # "fill"
                                /\ (at[q] \in Using => q \in stale')
      BY <2>4, <3>1 DEF Fill, Outdates, Ends
    <3>4. at'[p] \in {"boot", "idle"}
      BY <2>4 DEF Fill, Ends
    <3>5. QED
      BY <3>2, <3>3, <3>4
  <2>5. ASSUME NEW p \in Proc, NEW op, NEW given \in Outside, Open(p, op, given)
        PROVE FileInv'
    BY <2>5 DEF Open, Begins, histories
  <2>6. ASSUME NEW p \in Proc, LookUp(p) PROVE FileInv'
    BY <2>6 DEF LookUp, histories
  <2>7. ASSUME NEW p \in Proc, Migrate(p) PROVE FileInv'
    BY <2>7 DEF Migrate
  <2>8. ASSUME NEW p \in Proc, MigrateFails(p) PROVE FileInv'
    BY <2>8 DEF MigrateFails, Ends
  <2>9. ASSUME NEW p \in Proc, Opened(p) PROVE FileInv'
    BY <2>9 DEF Opened, Ends
  <2>10. ASSUME NEW p \in Proc, Gather(p) PROVE FileInv'
    <3>1. at[p] = "gather" /\ at'[p] \in {"token", "boot", "idle"}
      BY <2>10 DEF Gather, Ends
    <3>2. \A q \in Proc \ {p} : at'[q] = at[q] /\ copy'[q] = copy[q]
                                /\ (q \in stale' <=> q \in stale)
      BY <2>10 DEF Gather, Reads, Ends
    <3>3. p \notin stale' => \A q \in Proc : at[q] # "fill"
      BY <2>10, <3>1 DEF Gather, Reads
    <3>4. file' = file /\ serial' = serial /\ clobbered' = clobbered /\ torn' = torn
      BY <2>10 DEF Gather
    <3>5. QED
      BY <3>1, <3>2, <3>3, <3>4
  <2>11. ASSUME NEW p \in Proc, LoadForToken(p) PROVE FileInv'
    BY <2>11 DEF LoadForToken, histories
  <2>12. ASSUME NEW p \in Proc, Boot(p) PROVE FileInv'
    BY <2>12 DEF Boot, Ends
  <2>13. ASSUME NEW p \in Proc, Stop(p) PROVE FileInv'
    BY <2>13 DEF Stop, Ends
  <2>14. ASSUME NEW p \in Proc, Crash(p) PROVE FileInv'
    BY <2>14 DEF Crash, Ends
  <2>15. QED
    BY <2>0, <2>1, <2>2, <2>3, <2>4, <2>5, <2>6, <2>7, <2>8, <2>9, <2>10, <2>11,
       <2>12, <2>13, <2>14 DEF Next
<1>3. QED
  BY <1>1, <1>2, ShapeHolds, PTL DEF Spec

\* Commands that load and save the file without a lock leave what they would have left
\* one after the other, unless one writes after another what it loaded before it, or
\* is killed between the halves of its write.
THEOREM FileIsSerial == Spec => []SerialUnlessStale
<1>1. FileInv => SerialUnlessStale
  BY DEF FileInv, Undisturbed, SerialUnlessStale
<1>2. QED
  BY <1>1, FileInvHolds, PTL

-----------------------------------------------------------------------------
(* The token. *)

Writes == Request \cup [op : {"setup"}, url : NotifierUrl \cup {None}]
                  \cup [op : {"start"}, token : Nat]

\* Only a start's own change touches the token, and no change loses a field.
LEMMA EditedToken ==
    ASSUME NEW config, "api_token" \in DOMAIN config, NEW c \in Writes
    PROVE  /\ "api_token" \in DOMAIN Edited(config, c)
           /\ c.op # "start" => Edited(config, c)["api_token"] = config["api_token"]
           /\ c.op = "start" => /\ Edited(config, c)["api_token"] = c.token
                               /\ c.token \in Nat
<1>1. CASE c.op = "attach"
  BY <1>1 DEF Edited
<1>2. CASE c.op = "detach"
  <2>1. c.category \in Category
    BY <1>2 DEF Writes, Request
  <2>2. QED
    BY <1>2, <2>1 DEF Edited, Category
<1>3. CASE c.op = "k8s attach"
  BY <1>3 DEF Edited
<1>4. CASE c.op = "k8s detach"
  BY <1>4 DEF Edited
<1>5. CASE c.op = "setup"
  BY <1>5 DEF Edited
<1>6. CASE c.op = "start"
  <2>1. c.token \in Nat
    BY <1>6 DEF Writes, Request
  <2>2. QED
    BY <1>6, <2>1 DEF Edited
<1>7. QED
  BY <1>1, <1>2, <1>3, <1>4, <1>5, <1>6 DEF Writes, Request

\* Every process that writes knows what, and the serial file has a place for the token.
CommandInv ==
    /\ made \in Nat
    /\ "api_token" \in DOMAIN serial
    /\ \A p \in Proc : at[p] \in {"prompt", "save", "fill"} => command[p] \in Writes

LEMMA CommandInvHolds == Spec => []CommandInv
<1>1. Init => CommandInv
  BY StartupAssumption DEF Init, CommandInv, ConfigFile
<1>2. Shape /\ CommandInv /\ [Next]_vars => CommandInv'
  <2> SUFFICES ASSUME Shape, CommandInv, [Next]_vars PROVE CommandInv'
    OBVIOUS
  <2> USE DEF CommandInv, Shape, Place
  <2>0. CASE UNCHANGED vars
    BY <2>0 DEF vars
  <2>1. ASSUME NEW p \in Proc, NEW c \in Request, Edit(p, c) PROVE CommandInv'
    BY <2>1 DEF Edit, Writes
  <2>2. ASSUME NEW p \in Proc, Answer(p) PROVE CommandInv'
    BY <2>2 DEF Answer, histories, Writes
  <2>3. ASSUME NEW p \in Proc, Truncate(p) PROVE CommandInv'
    BY <2>3 DEF Truncate
  <2>4. ASSUME NEW p \in Proc, Fill(p) PROVE CommandInv'
    <3>1. command[p] \in Writes
      BY <2>4 DEF Fill
    <3>2. "api_token" \in DOMAIN serial'
      BY <2>4, <3>1, EditedToken DEF Fill
    <3>3. QED
      BY <2>4, <3>2 DEF Fill, Ends
  <2>5. ASSUME NEW p \in Proc, NEW op, NEW given \in Outside, Open(p, op, given)
        PROVE CommandInv'
    BY <2>5 DEF Open, histories
  <2>6. ASSUME NEW p \in Proc, LookUp(p) PROVE CommandInv'
    BY <2>6 DEF LookUp, histories
  <2>7. ASSUME NEW p \in Proc, Migrate(p) PROVE CommandInv'
    BY <2>7 DEF Migrate
  <2>8. ASSUME NEW p \in Proc, MigrateFails(p) PROVE CommandInv'
    BY <2>8 DEF MigrateFails, Ends
  <2>9. ASSUME NEW p \in Proc, Opened(p) PROVE CommandInv'
    BY <2>9 DEF Opened, Ends
  <2>10. ASSUME NEW p \in Proc, Gather(p) PROVE CommandInv'
    BY <2>10 DEF Gather, Ends
  <2>11. ASSUME NEW p \in Proc, LoadForToken(p) PROVE CommandInv'
    BY <2>11 DEF LoadForToken, histories, Writes
  <2>12. ASSUME NEW p \in Proc, Boot(p) PROVE CommandInv'
    BY <2>12 DEF Boot, Ends
  <2>13. ASSUME NEW p \in Proc, Stop(p) PROVE CommandInv'
    BY <2>13 DEF Stop, Ends
  <2>14. ASSUME NEW p \in Proc, Crash(p) PROVE CommandInv'
    BY <2>14 DEF Crash, Ends
  <2>15. QED
    BY <2>0, <2>1, <2>2, <2>3, <2>4, <2>5, <2>6, <2>7, <2>8, <2>9, <2>10, <2>11,
       <2>12, <2>13, <2>14 DEF Next
<1>3. QED
  BY <1>1, <1>2, ShapeHolds, PTL DEF Spec

FromFile == {"Xdg", "Generated"}

\* While nobody has written on stale knowledge: who has a token from the file has the
\* one the serial file holds, and who is on the way to put one there does so because,
\* unless he is stale, the serial file has none.
TokenInv ==
    Undisturbed =>
        \A p \in Proc :
            /\ at[p] \in {"boot", "running"} /\ resolved[p].api_token.source \in FromFile
                  => /\ resolved[p].api_token.value = serial["api_token"]
                     /\ resolved[p].api_token.value # None
            /\ at[p] = "token" /\ p \notin stale => serial["api_token"] = None
            /\ at[p] \in {"save", "fill"} /\ command[p].op = "start" /\ p \notin stale
                  => serial["api_token"] = None

LEMMA TokenInvHolds == Spec => []TokenInv
<1>1. Init => TokenInv
  BY DEF Init, TokenInv
<1>2. Shape /\ FileInv /\ CommandInv /\ TokenInv /\ [Next]_vars => TokenInv'
  <2> SUFFICES ASSUME Shape, FileInv, CommandInv, TokenInv, [Next]_vars PROVE TokenInv'
    OBVIOUS
  <2> USE DEF TokenInv, Undisturbed, FromFile, Shape, Place
  <2>0. CASE UNCHANGED vars
    BY <2>0 DEF vars
  <2>1. ASSUME NEW p \in Proc, NEW c \in Request, Edit(p, c) PROVE TokenInv'
    <3>1. c.op # "start"
      BY DEF Request
    <3>2. \A q \in Proc \ {p} : q \in stale' <=> q \in stale
      BY <2>1 DEF Edit, Reads
    <3>3. QED
      BY <2>1, <3>1, <3>2 DEF Edit, Begins
  <2>2. ASSUME NEW p \in Proc, Answer(p) PROVE TokenInv'
    BY <2>2 DEF Answer, histories
  <2>3. ASSUME NEW p \in Proc, Truncate(p) PROVE TokenInv'
    <3> SUFFICES ASSUME Undisturbed' PROVE TokenInv'
      OBVIOUS
    <3>1. Undisturbed /\ p \notin stale /\ stale \subseteq stale'
      BY <2>3 DEF Truncate, Outdates
    <3>2. QED
      BY <2>3, <3>1 DEF Truncate
  <2>4. ASSUME NEW p \in Proc, Fill(p) PROVE TokenInv'
    <3> SUFFICES ASSUME Undisturbed' PROVE TokenInv'
      OBVIOUS
    <3>1. Undisturbed /\ p \notin stale /\ command[p] \in Writes
          /\ "api_token" \in DOMAIN serial
      BY <2>4 DEF Fill, Outdates, CommandInv
    <3>2. \A q \in Proc \ {p} : at'[q] = at[q] /\ resolved'[q] = resolved[q]
                                /\ (at[q] \in Using => q \in stale')
      BY <2>4 DEF Fill, Outdates, Ends, Using
    <3>3. CASE command[p].op = "start"
      <4>1. serial["api_token"] = None
        BY <2>4, <3>1, <3>3 DEF Fill
      <4>2. serial'["api_token"] = command[p].token /\ command[p].token # None
        BY <2>4, <3>1, <3>3, EditedToken, ConfigurationAssumption DEF Fill
      <4>3. at'[p] = "boot" /\ resolved'[p].api_token.value = command[p].token
        BY <2>4, <3>3 DEF Fill
      <4>4. \A q \in Proc \ {p} : at[q] \in {"boot", "running"}
                                  => resolved[q].api_token.source \notin FromFile
        BY <3>1, <4>1
      <4>5. QED
        BY <3>2, <4>2, <4>3, <4>4 DEF Using
    <3>4. CASE command[p].op # "start"
      <4>1. serial'["api_token"] = serial["api_token"]
        BY <2>4, <3>1, <3>4, EditedToken DEF Fill
      <4>2. at'[p] = "idle"
        BY <2>4, <3>4 DEF Fill, Ends
      <4>3. QED
        BY <3>1, <3>2, <4>1, <4>2 DEF Using
    <3>5. QED
      BY <3>3, <3>4
  <2>5. ASSUME NEW p \in Proc, NEW op, NEW given \in Outside, Open(p, op, given)
        PROVE TokenInv'
    BY <2>5 DEF Open, histories
  <2>6. ASSUME NEW p \in Proc, LookUp(p) PROVE TokenInv'
    BY <2>6 DEF LookUp, histories
  <2>7. ASSUME NEW p \in Proc, Migrate(p) PROVE TokenInv'
    BY <2>7 DEF Migrate
  <2>8. ASSUME NEW p \in Proc, MigrateFails(p) PROVE TokenInv'
    BY <2>8 DEF MigrateFails, Ends
  <2>9. ASSUME NEW p \in Proc, Opened(p) PROVE TokenInv'
    BY <2>9 DEF Opened, Ends
  <2>10. ASSUME NEW p \in Proc, Gather(p) PROVE TokenInv'
    <3> SUFFICES ASSUME Undisturbed' PROVE TokenInv'
      OBVIOUS
    <3> DEFINE r == Resolved(file, outside[p], "api_token")
    <3>1. Undisturbed /\ serial' = serial
      BY <2>10 DEF Gather
    <3>2. \A q \in Proc \ {p} : /\ at'[q] = at[q] /\ resolved'[q] = resolved[q]
                                /\ command'[q] = command[q]
                                /\ (q \in stale' <=> q \in stale)
      BY <2>10 DEF Gather, Reads, Ends
    <3>3. p \notin stale' => file = serial
      BY <2>10, <3>1 DEF Gather, Reads, FileInv
    <3>4. file["api_token"] # None => file = serial
      BY <3>1 DEF FileInv, EmptyConfig, Field
    <3>5. CASE at'[p] = "token"
      <4>1. file["api_token"] = None
        BY <2>10, <3>5, FromTheFile DEF Gather, Ends
      <4>2. p \notin stale' => serial["api_token"] = None
        BY <3>3, <4>1
      <4>3. QED
        BY <3>1, <3>2, <3>5, <4>2
    <3>6. CASE at'[p] = "boot"
      <4>1. resolved'[p].api_token = r
        BY <2>10, <3>6 DEF Gather, Ends
      <4>2. r.source \in FromFile => r.value = file["api_token"] /\ r.value # None
        BY FromTheFile
      <4>3. QED
        BY <3>1, <3>2, <3>4, <3>6, <4>1, <4>2
    <3>7. CASE at'[p] = "idle"
      BY <3>1, <3>2, <3>7
    <3>8. QED
      BY <2>10, <3>5, <3>6, <3>7 DEF Gather, Ends
  <2>11. ASSUME NEW p \in Proc, LoadForToken(p) PROVE TokenInv'
    BY <2>11 DEF LoadForToken, histories
  <2>12. ASSUME NEW p \in Proc, Boot(p) PROVE TokenInv'
    BY <2>12 DEF Boot, Ends
  <2>13. ASSUME NEW p \in Proc, Stop(p) PROVE TokenInv'
    BY <2>13 DEF Stop, Ends
  <2>14. ASSUME NEW p \in Proc, Crash(p) PROVE TokenInv'
    BY <2>14 DEF Crash, Ends
  <2>15. QED
    BY <2>0, <2>1, <2>2, <2>3, <2>4, <2>5, <2>6, <2>7, <2>8, <2>9, <2>10, <2>11,
       <2>12, <2>13, <2>14 DEF Next
<1>3. QED
  BY <1>1, <1>2, ShapeHolds, FileInvHolds, CommandInvHolds, PTL DEF Spec

\* Unless a command writes on stale knowledge or dies in a write, all daemons that run
\* on a generated token answer to the same one, and it is the one in the file.
THEOREM TokenIsOne == Spec => []OneToken
<1>1. TokenInv => OneToken
  BY DEF TokenInv, OneToken, Undisturbed, FromFile
<1>2. QED
  BY <1>1, TokenInvHolds, PTL
=============================================================================
