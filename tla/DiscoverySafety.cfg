SPECIFICATION Spec
CONSTANTS
    s1 = s1
    s2 = s2
    r1 = r1
    r2 = r2
    None = None
    Names = {s1, s2}
    Rules = {r1, r2}
    Plans <- EditedPlans
    Annotated = {"other", "broken"}
    Relabels = TRUE
    Rejects = FALSE
    MaxChanges = 2
    MaxReloads = 1
INVARIANTS TypeOK FleetFollows RotationTakenNow
PROPERTY OutageDropsNothing
