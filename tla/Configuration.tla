---------------------------- MODULE Configuration ----------------------------
(***************************************************************************)
(* The configuration as data: the file the commands edit, what each        *)
(* command makes of it, and how `resolve' layers file, project file,       *)
(* environment and flags (crates/provider/src/config.rs; the commands are  *)
(* in src/main.rs).  A URL is a model value; what a value is good for is a *)
(* matter of the sets below.                                               *)
(***************************************************************************)
EXTENDS Naturals, Sequences

CONSTANTS NotifierUrl,   \* what an operator may give as a notifier
          Attachable,    \* those category_for_scheme accepts
          Recognized,    \* those build_notifier accepts
          Cluster,       \* [name, kubeconfig] records for `k8s attach'
          None

ASSUME ConfigurationAssumption ==
    /\ Attachable \cup Recognized \subseteq NotifierUrl
    /\ None \notin NotifierUrl \cup Nat \cup {"external"}

\* The scheme lookup knows no store and no cache any more: a value of these two is
\* one an older version or an editor wrote, and only its presence matters.
Category == {"store", "cache", "notifier"}
Field == Category \cup {"api_token", "retention_days"}

\* A ConfigFile: a token is the number of the call of generate_api_token that made
\* it, retention_days 0 a value outside 1..=3650 or no number at all.
ConfigFile == [store : {"external", None}, cache : {"external", None},
               notifier : NotifierUrl \cup {None}, api_token : Nat \cup {None},
               retention_days : Nat \cup {None}, k8s : Seq(Cluster)]

\* A file that is not there is one with nothing in it (load_writable_config takes the
\* default for it, `layer' leaves things as they are), and so is a file of no bytes,
\* which TOML reads as an empty table.
EmptyConfig == [f \in Field \cup {"k8s"} |-> IF f = "k8s" THEN <<>> ELSE None]

-----------------------------------------------------------------------------
(* Precedence. *)

Layer(current, given, source) ==
    IF given = None THEN current ELSE [value |-> given, source |-> source]

\* `resolve', for one field: what is given from outside the user's file is a record of
\* a project file, the environment and the flags.
Resolved(xdg, outside, field) ==
    LET embedded    == [value |-> None, source |-> "Default"]
        withXdg     == Layer(embedded, xdg[field], "Xdg")
        withProject == Layer(withXdg, outside.project[field], "Project")
        withEnv     == Layer(withProject, outside.env[field], "Env")
    IN  Layer(withEnv, outside.flags[field], "Flag")

RetentionAccepted(days) == days = None \/ days \in 1..3650

-----------------------------------------------------------------------------
(* Commands that edit the user's file. *)

\* What an operator may ask for; `setup' learns the notifier when it is answered.  A
\* start edits the file too, when it has generated a token.
Request ==
         [op : {"attach"}, url : Attachable]
    \cup [op : {"detach"}, category : Category]
    \cup [op : {"k8s attach"}, cluster : Cluster]
    \cup [op : {"k8s detach"}, name : {c.name : c \in Cluster}]
    \cup [op : {"setup"}, url : {None}]

Without(clusters, name) ==
    LET Others(c) == c.name # name IN SelectSeq(clusters, Others)

\* The command's change to the copy of the file it has loaded.
Edited(config, c) ==
    CASE c.op = "attach"     -> [config EXCEPT !.notifier = c.url]
      [] c.op = "detach"     -> [config EXCEPT ![c.category] = None]
      [] c.op = "k8s attach" ->
             [config EXCEPT !.k8s = Append(Without(@, c.cluster.name), c.cluster)]
      [] c.op = "k8s detach" -> [config EXCEPT !.k8s = Without(@, c.name)]
      [] c.op = "setup"      ->
             [config EXCEPT !.notifier = IF c.url = None THEN @ ELSE c.url]
      [] c.op = "start"      -> [config EXCEPT !.api_token = c.token]

\* `detach' and `k8s detach' report that there is nothing to do, and write nothing.
NothingToDo(config, c) ==
    c.op \in {"detach", "k8s detach"} /\ Edited(config, c) = config
=============================================================================
