\* A host and its service "Host Check".
SPECIFICATION Spec
CONSTANTS
    Checks <- HostAndService
    Outcomes <- CheckOutcomes
    Configs <- FileConfigs
    MaxTime = 1
    MaxExec = 2
    Faults = {}
PROPERTY
    SkipsOnlyUnchanged
