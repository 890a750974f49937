SPECIFICATION FairSpec
CONSTANTS
    None = None
    Missing = Missing
    Unreadable = Unreadable
    Unwritten = Unwritten
    Null = Null
    Bad = Bad
    NaN = NaN
    Rejected = Rejected
    Text = Text
    ValidNamespaces = {"own", "other"}
    ValidSecretNames = {"s"}
    KnownSources = {"auto", "list", "minio"}
    Contents <- AllContents
    Documents <- EditedDocuments
    Env <- PodEnv
    Kube <- Pod
    StartFiles <- GoodStarts
    EditsDuringStart = FALSE
    Regimes <- TwoRegimes
INVARIANTS TypeOK SuccessIsInForce RestartIsTold EveryEntryIsWatched
PROPERTIES RejectionKeepsPlan FileIsDealtWith SighupIsHonoured
