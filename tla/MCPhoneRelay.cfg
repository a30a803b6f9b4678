SPECIFICATION LiveSpec
CONSTANTS
    Loops = {l1, l2, l3}
    Backends = {b1, b2}
    MaxViewers = 2
    MaxStops = 1
    NoViewerStopDelay = 1
    None = None
INVARIANTS
    RelayIsSound
PROPERTIES
    ViewerGetsConnection
