SPECIFICATION FairSpec
CONSTANTS
    s1 = s1
    s2 = s2
    r1 = r1
    r2 = r2
    None = None
    Names = {s1}
    Rules = {r1, r2}
    Plans <- ReplacedPlans
    Annotated = {}
    Relabels = FALSE
    Rejects = FALSE
    MaxChanges = 1
    MaxReloads = 1
PROPERTY RotationArrives
