\* Three updates, each a plan for one of two projects or a command, one fault of
\* every kind, and one runner started by hand.
SPECIFICATION FairSpec
CONSTANTS
    Procs = {0, 1, 2}
    Projects = {A, B}
    Nobody = Nobody
    Mixed = Mixed
    Manual = 0
    MaxUpdates = 3
    MaxRunners = 2
    MaxFaults = 1
    Commands = {"/pause", "/resume", "/stop"}
    FaultKinds = {"crash", "save", "handler", "download", "init", "spawn", "runner"}
INVARIANTS
    TypeOK
    LockIsExclusive
    NoProjectTwice
    NotOvertaken
    NothingVanishes
PROPERTIES PlansAreStarted
