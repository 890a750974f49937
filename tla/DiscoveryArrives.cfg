SPECIFICATION FairSpec
CONSTANTS
    s1 = s1
    s2 = s2
    r1 = r1
    r2 = r2
    None = None
    Names = {s1, s2}
    Rules = {r1, r2}
    Plans <- EditedPlans
    Annotated = {"broken"}
    Relabels = TRUE
    Rejects = TRUE
    MaxChanges = 1
    MaxReloads = 1
PROPERTY RotationArrives
