SPECIFICATION Spec
CONSTANTS
    None = None
    slack = slack
    bare = bare
    NotifierUrl = {slack, bare}
    Attachable = {slack, bare}
    Recognized = {slack}
    Cluster <- MCCluster
    Proc = {p1, p2}
    InitialFiles <- MCInitialFiles
    Outside <- MCOutside
    Migrations = 2
    MaxCommands = 4
    MaxCrashes = 1
SYMMETRY MCSymmetry
CHECK_DEADLOCK FALSE
INVARIANTS
    SerialUnlessStale
    OneToken
    OpenFailsOnlyBesideAnother
