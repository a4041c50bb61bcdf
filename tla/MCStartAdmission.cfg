SPECIFICATION FairSpec
CONSTANTS
    s1 = s1
    s2 = s2
    r1 = r1
    r2 = r2
    k1 = k1
    None = None
    Streams <- TwoStreams
    Requests <- TwoRequests
    Schedulers <- OneScheduler
    Limit = 1
INVARIANTS
    TypeOK
    WithinLimit
PROPERTIES
    AdmissionIsAtomic
    SessionsFinish
