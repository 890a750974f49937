SPECIFICATION FairSpec
CONSTANTS
    None = None
    k1 = k1
    k2 = k2
    e1 = e1
    e2 = e2
    Keys = {k1, k2}
    Endpoints = {e1, e2}
    Plans <- ThreePlans
    MaxRejections = 1
    ThreadsMayFail = TRUE
    MaxBuilt = 2
INVARIANTS TypeOK OneWatcher AppliedWhole NoLostRejection
PROPERTY RejectionIsRead
