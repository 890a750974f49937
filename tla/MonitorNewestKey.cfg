SPECIFICATION FairSpec
CONSTANTS
    refresher = refresher
    discoverer = discoverer
    photos = photos
    backups = backups
    None = None
    Readers = {refresher, discoverer}
    Buckets = {photos, backups}
    MaxVersion = 2
    MaxViews = 4
    MaxFaults = 0
    MaxGaps = 1
    MaxFailures = 1
    Collects = FALSE
    Probed = TRUE
    ThreadsMayFail = TRUE
    StorageMayFail = TRUE
PROPERTY NewestKeyIsUsed
