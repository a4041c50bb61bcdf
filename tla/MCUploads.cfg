SPECIFICATION FairSpec
CONSTANTS
    u1 = u1
    u2 = u2
    h1 = h1
    h2 = h2
    r1 = r1
    d1 = d1
    None = None
    Uploads <- TwoUploads
    Hooks <- TwoHooks
    Registrars <- OneRegistrar
    Deleters <- OneDeleter
    AssetLimit = 2
    StorageLimit = 2
INVARIANTS
    TypeOK
    AssetLimitHolds
    NeverOvercharged
    IdempotentUntilFailure
    OutcomeIsReported
PROPERTIES
    SessionsEnd
\* Every session serves one request, then the instance stops.
CHECK_DEADLOCK FALSE
