SPECIFICATION FairSpec
CONSTANTS
    api = api
    poll = poll
    reconciler = reconciler
    Runner = Runner
    Api <- OneRequest
    Polls <- OnePoll
    Reconcilers <- Nobody
    Burst = 1
PROPERTIES
    LiveIsReported
