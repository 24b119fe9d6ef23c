\* Polling and file sources, every fault.
SPECIFICATION FairSpec
CONSTANTS
    Checks <- Services
    Outcomes <- CheckOutcomes
    Configs <- ServiceConfigs
    MaxTime = 2
    MaxExec = 3
    Faults = {"sameSecond", "noTime", "badPerf", "collectErr", "restart"}
INVARIANTS
    TypeOK
    NeverTwice
    AllReported
    OneExecution
PROPERTIES
    LatestIsReported
