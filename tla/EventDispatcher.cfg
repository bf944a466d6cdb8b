\* Queues of two, an overflow of one, and enough events to use both up.
SPECIFICATION Spec
CONSTANTS
    Tui = Tui
    Monitor = Monitor
    Subscribers <- Consumers
    Capacity = 2
    Overflow = 1
    MaxEvents = 6
SYMMETRY Symmetry
INVARIANTS
    TypeOK
    InOrder
    MemoryBounded
    PriorityIsKept
    OldestGoFirst
    CountIsKept
