\* Both databases, starts of the backend between runs, two runs killed or failing anywhere.
SPECIFICATION FairSpec
CONSTANTS
    BootPatches = TRUE
    MaxFaults = 2
INVARIANTS
    TypeOK
    VerifiedIsApplied
    InterruptionIsMadeGood
PROPERTIES
    CounterSurvivesFirstRun
    FailedProbeHeals
