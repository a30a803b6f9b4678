\* One request of each kind: an activation, a control code, a re-authentication.
SPECIFICATION Spec
CONSTANTS
    Actions = {a1}
    Activations = {a1}
    Redetects = {}
    Refreshes = {}
    Codes = {c1}
    Reauths = {r1}
    NoId = NoId
    MaxRevision = 1
    CodeTTL = 1
    ResultTTL = 1
    KeepTTL = 1
    ReauthTTL = 1
    RequestTTL = 2
    ActionTTL = 1
INVARIANTS
    QueueIsSound
PROPERTIES
    SoleAdmission
