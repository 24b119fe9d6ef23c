\* A check whose perfdata does not parse.
SPECIFICATION Spec
CONSTANTS
    Checks <- Services
    Outcomes <- CheckOutcomes
    Configs <- ApiConfigs
    MaxTime = 1
    MaxExec = 2
    Faults = {"badPerf"}
INVARIANT
    LastSeenWasEmitted
