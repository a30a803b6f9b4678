SPECIFICATION LiveSpec
CONSTANTS
    MaxEpoch = 2
    MaxSequence = 2
    MaxGeneration = 2
    ControlQueueMax = 2
    None = None
INVARIANTS
    WriterIsSound
PROPERTY PictureLeavesTheQueue
CHECK_DEADLOCK FALSE
