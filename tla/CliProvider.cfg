\* A prompt of three pieces, pipes that hold one piece or line, up to three lines of every kind,
\* two writes to stderr, and a cancellation at any moment.  An attempt ends, and a
\* child that was left behind may be blocked for good: no deadlock is looked for.
SPECIFICATION FairSpec
CONSTANTS
    Prompt = 3
    InRoom = 1
    OutRoom = 1
    ErrRoom = 1
    LineKinds = {"event", "blank", "bad", "long"}
    MaxLines = 3
    MaxErrs = 2
INVARIANTS
    TypeOK
    NothingLeftBehind
PROPERTIES
    AttemptSpec
    AttemptEnds
CHECK_DEADLOCK FALSE
