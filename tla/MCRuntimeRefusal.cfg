SPECIFICATION BarredSpec
CONSTANTS
    api = api
    Runner = Runner
    Api <- OneRequest
    Polls <- Nobody
    Reconcilers <- Nobody
    Burst = 2
INVARIANTS
    RefusesTerminal
PROPERTIES
    RefusalEndsLoop
