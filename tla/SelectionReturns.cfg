SPECIFICATION FairSpec
CONSTANTS
    None = None
    Grants <- FewGrants
    Candidates <- TwoCandidates
    Wishes <- SomeWishes
    MaxFailures = 2
    Redetects = TRUE
    GrantsDiffer = FALSE
    MaxRotations = 1
    MaxFaults = 1
INVARIANTS TypeOK OneFaultIsNoOutage
PROPERTIES ReachesAgain SettlesOnWorking
