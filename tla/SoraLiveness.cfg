\* Coming to rest: a coach that adds slices whenever it runs, commands, and a
\* shutdown signal at any moment; the ladder of escalation to its end.
SPECIFICATION FairSpec
CONSTANTS
    S1 = S1
    S2 = S2
    S3 = S3
    P1 = P1
    P2 = P2
    NoSlice = NoSlice
    NoPlan = NoPlan
    Slices <- TwoSlices
    Plans = {P1}
    StuckRetries = 2
    StepLimit = 1
    RepeatLimit = 2
    DivLimit = 1
    Backtrack = TRUE
    MaxSteps = 2
    StepCap = 1
    First = S1
    Extra <- ThenS2
    NumTasks = 1
    MaxCycles = 3
    MaxSlices = 2
    Roles = {"coach"}
    HasQueue = TRUE
    CliPlans = {P1}
    Commands <-  StopPauseNew
    Overrides = {"PAUSE"}
    HumanSteers = FALSE
    CoachQueues <-  CoachMayAdd
    MaxSent = 2
    FaultKinds = {"signal"}
    MaxFaults = 1
INVARIANTS
    ClaimedSlicesAreExecuted
PROPERTIES
    Settles
    ShutdownHeeded
    CommandsAreTaken
