SPECIFICATION FairSpec
CONSTANTS
    Keys <- MCKeys
    Descs <- MCDescs
    Ends <- MCEnds
    NoDesc = NoDesc
    TxMax = 3
    Endpoints <- MCEndpoints
    ConfigValues <- MCConfigValues
    EpsOf <- MCEpsOf
    Misfits <- MCMisfits
    Requests <- MCRequests
    NotSet = NotSet
    NoLang = NoLang
    MaxResets = 1
    dev = dev
    short = short
INVARIANT DeviceTypeOK
INVARIANT ConfigurationAgreed
INVARIANT ActiveIsConfigured
INVARIANT ToggleAgreed
INVARIANT HaltAgreed
PROPERTY AnswersAreTrue
PROPERTY ConfigurationReached
