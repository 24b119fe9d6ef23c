\* A check without perfdata, in the default format.
SPECIFICATION Spec
CONSTANTS
    Words <- Strings
    HostConfigured = FALSE
    Formats = {"default"}
    Checks <- WithoutPerf
    NoCheck = NoCheck
    Others = {}
    MaxLine <- PerFile
    OpenErrs = {}
    StatErrs = {}
INVARIANT
    FormatIsParsed
CHECK_DEADLOCK FALSE
