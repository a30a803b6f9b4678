SPECIFICATION LiveSpec
CONSTANTS
    o1 = o1
    o2 = o2
    Ops = {o1, o2}
    NoOp = NoOp
    Deadline = 2
INVARIANTS
    ShutdownIsProved
PROPERTIES
    ImplementsBarrier
    RestartEndsCold
