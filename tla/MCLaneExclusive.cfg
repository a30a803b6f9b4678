\* The lane rule as the README states it, with the activation-expiry reset.
SPECIFICATION Spec
CONSTANTS
    Actions = {a1, a2, s1}
    Activations = {a1}
    Redetects = {}
    Refreshes = {s1}
    Codes = {}
    Reauths = {}
    NoId = NoId
    MaxRevision = 1
    CodeTTL = 1
    ResultTTL = 1
    KeepTTL = 1
    ReauthTTL = 1
    RequestTTL = 2
    ActionTTL = 2
INVARIANT LaneExclusive
