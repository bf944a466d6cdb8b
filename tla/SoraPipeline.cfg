\* The whole pipeline: two slices of one task, every role and every command of
\* the TUI, two commands or edits by a human, and one fault of any kind.
SPECIFICATION Spec
CONSTANTS
    S1 = S1
    S2 = S2
    S3 = S3
    P1 = P1
    P2 = P2
    NoSlice = NoSlice
    NoPlan = NoPlan
    Slices <- TwoSlices
    Plans = {P1}
    StuckRetries = 3
    StepLimit = 1
    RepeatLimit = 2
    DivLimit = 1
    Backtrack = TRUE
    MaxSteps = 1
    StepCap = 1
    First = S1
    Extra <- ThenS2
    NumTasks = 1
    MaxCycles = 0
    MaxSlices = 2
    Roles = {"reviewer", "scout", "coach", "verifier"}
    HasQueue = TRUE
    CliPlans = {NoPlan, P1}
    Commands <- EveryCommand
    Overrides = {"STOP", "PAUSE"}
    HumanSteers = TRUE
    CoachQueues <- CoachMayAddOrDrop
    MaxSent = 2
    FaultKinds = {"signal", "crash", "error", "disk"}
    MaxFaults = 1
INVARIANTS
    TypeOK
    TransitionsNeverRaise
    StateIsOnDisk
    LeftSlicesAreSummarised
    CompletedLeavesNoneUnclaimed
    IndexBehindWork
PROPERTIES
    LifecycleSpec
