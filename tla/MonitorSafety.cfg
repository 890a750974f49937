SPECIFICATION Spec
CONSTANTS
    refresher = refresher
    discoverer = discoverer
    photos = photos
    backups = backups
    None = None
    Readers = {refresher, discoverer}
    Buckets = {photos, backups}
    MaxVersion = 2
    MaxViews = 2
    MaxFaults = 1
    MaxGaps = 0
    MaxFailures = 1
    Collects = TRUE
    Probed = TRUE
    ThreadsMayFail = FALSE
    StorageMayFail = TRUE
SYMMETRY Symmetry
INVARIANTS TypeOK FiguresAreOfTheBucket ViewIsWhole OneProbe
PROPERTY StoppedForGood
