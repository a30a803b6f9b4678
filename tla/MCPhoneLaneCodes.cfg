\* A control code, an activation and its expiry reset compete for the lane.
SPECIFICATION LiveSpec
CONSTANTS
    Actions = {a1, s1}
    Activations = {a1}
    Redetects = {}
    Refreshes = {s1}
    Codes = {c1}
    Reauths = {}
    NoId = NoId
    MaxRevision = 0
    CodeTTL = 1
    ResultTTL = 1
    KeepTTL = 1
    ReauthTTL = 1
    RequestTTL = 2
    ActionTTL = 2
INVARIANTS
    LedgerIsSound
PROPERTIES
    WorkEndsOnce
