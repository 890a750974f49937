SPECIFICATION Spec
CONSTANTS
    refresher = refresher
    discoverer = discoverer
    photos = photos
    backups = backups
    None = None
    Readers = {refresher, discoverer}
    Buckets = {photos}
    MaxVersion = 2
    MaxViews = 1
    MaxFaults = 0
    MaxGaps = 0
    MaxFailures = 1
    Collects = FALSE
    Probed = TRUE
    ThreadsMayFail = FALSE
    StorageMayFail = TRUE
PROPERTY KeyNeverRollsBack
