SPECIFICATION FairSpec
CONSTANTS
    api = api
    poll = poll
    reconciler = reconciler
    Runner = Runner
    Api <- OneRequest
    Polls <- Nobody
    Reconcilers <- OneReconciler
    Burst = 1
INVARIANTS
    TypeOK
    StaleMeansCrash
PROPERTIES
    DownIsReported
    LiveIsConfirmed
