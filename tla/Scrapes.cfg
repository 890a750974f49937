SPECIFICATION ScrapesSpec
CONSTANTS
    MaxChecks = 3
    Schemes = {"http", "https"}
    Order <- TwoNames
    Values = {"x", "y"}
    Malformed = Malformed
    Absent = Absent
    PageSize = 1
    MaxEdits = 2
    Missing = Missing
    Text = Text
    NotFinite = NotFinite
    NoError = NoError
    Cases <- SomeCases
    Failures <- SomeFailures
    MaxViews = 2
    MaxCollections = 2
    MaxProbes = 2
    Keys = {"k", "l"}
    MaxGiven = 2
    MaxUpdates = 4
INVARIANTS ScrapesTypeOK DownIsCounted PhaseKeepsItsFigure ListingIsWhole FiguresAreTold OutageIsCounted ReadyIsTrue
CHECK_DEADLOCK FALSE
