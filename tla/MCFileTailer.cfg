\* Either file may fail to open, at start and after a rotation.
\* The system stops after shutdown.
SPECIFICATION FairSpec
CONSTANTS
    Words <- Strings
    HostConfigured = TRUE
    Formats = {"", "pnp4nagios"}
    Checks <- BothChecks
    NoCheck = NoCheck
    Others <- Fragments
    MaxLine <- PerFile
    OpenErrs = {"service", "host"}
    StatErrs = {"host"}
INVARIANTS
    TypeOK
    NothingDropped
    ResultsAreOfTheirLines
    ReturnedInOrder
    NoDescriptorLeak
PROPERTIES
    ServiceLinesReturned
CHECK_DEADLOCK FALSE
