------------------------------ MODULE MCStartup ------------------------------
(***************************************************************************)
(* Values of Startup's constants for TLC.                                  *)
(***************************************************************************)
EXTENDS Startup, TLC

CONSTANTS slack, bare

MCCluster == {[name |-> "k", kubeconfig |-> "a"], [name |-> "k", kubeconfig |-> "b"]}

\* No file yet, and one kept from a version that could attach a store and a cache.
MCInitialFiles ==
    {EmptyConfig, [EmptyConfig EXCEPT !.store = "external", !.cache = "external",
                               !.retention_days = 30]}

NoneOf == [f \in Field |-> None]
Usual == [project |-> EmptyConfig, env |-> NoneOf, flags |-> NoneOf]

\* The usual start, one with a token in the environment, and one beside a project file
\* with a retention that only the flag makes good.
MCOutside ==
    {Usual,
     [Usual EXCEPT !.env.api_token = 0],
     [Usual EXCEPT !.project = [EmptyConfig EXCEPT !.retention_days = 0],
                   !.flags.retention_days = 7]}

\* The processes differ in nothing but their names, and no property names one.
MCSymmetry == Permutations(Proc)
=============================================================================
