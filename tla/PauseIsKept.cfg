\* A human pauses the run with OVERRIDE.md.
SPECIFICATION Spec
CONSTANTS
    S1 = S1
    S2 = S2
    S3 = S3
    P1 = P1
    P2 = P2
    NoSlice = NoSlice
    NoPlan = NoPlan
    Slices <- TwoSlices
    Plans = {P1}
    StuckRetries = 3
    StepLimit = 1
    RepeatLimit = 2
    DivLimit = 1
    Backtrack = TRUE
    MaxSteps = 1
    StepCap = 1
    First = S1
    Extra <- ThenS2
    NumTasks = 1
    MaxCycles = 0
    MaxSlices = 2
    Roles = {"verifier"}
    HasQueue = FALSE
    CliPlans = {P1}
    Commands <-  NoCommands
    Overrides = {"PAUSE"}
    HumanSteers = FALSE
    CoachQueues <-  CoachMayAdd
    MaxSent = 1
    FaultKinds = {"signal", "crash", "error", "disk"}
    MaxFaults = 0
PROPERTIES
    PauseIsKept
