\* Two re-authentications and a scheduled re-detection compete for the lane
\* while the owner role, the credential and the barrier change.
SPECIFICATION LiveSpec
CONSTANTS
    Actions = {s1}
    Activations = {}
    Redetects = {s1}
    Refreshes = {}
    Codes = {}
    Reauths = {r1, r2}
    NoId = NoId
    MaxRevision = 2
    CodeTTL = 1
    ResultTTL = 1
    KeepTTL = 1
    ReauthTTL = 1
    RequestTTL = 2
    ActionTTL = 2
INVARIANTS
    LaneIsSafe
    ReauthIsFenced
PROPERTIES
    EveryRequestEnds
