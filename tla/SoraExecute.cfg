\* Escalation in both runners: the execute phase on one slice of two tasks with
\* four attempts at each, and the legacy loop with four attempts on its plan; all
\* levels of the ladder, three commands, and a crash.
SPECIFICATION DispatchSpec
CONSTANTS
    S1 = S1
    S2 = S2
    S3 = S3
    P1 = P1
    P2 = P2
    NoSlice = NoSlice
    NoPlan = NoPlan
    Slices <- TwoSlices
    Plans = {P1}
    StuckRetries = 2
    StepLimit = 2
    RepeatLimit = 1
    DivLimit = 1
    Backtrack = TRUE
    MaxSteps = 3
    StepCap = 2
    First = S1
    Extra <- ThenS2
    NumTasks = 2
    MaxCycles = 3
    MaxRetries = 4
    MaxSlices = 1
    Roles = {"verifier"}
    HasQueue = TRUE
    CliPlans = {P1}
    Commands <-  StopPauseSkip
    Overrides = {}
    HumanSteers = FALSE
    CoachQueues = {}
    MaxSent = 3
    FaultKinds = {"crash"}
    MaxFaults = 1
INVARIANTS
    IInv
    NoAgentAfterHuman
    DiversificationsAreBounded
    LegacyAgentIsOnDisk
PROPERTIES
    ExecuteKeepsCommands
