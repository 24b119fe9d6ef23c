\* The rotated service file does not open.
SPECIFICATION Spec
CONSTANTS
    Words <- Strings
    HostConfigured = TRUE
    Formats = {"default"}
    Checks <- WithPerf
    NoCheck = NoCheck
    Others = {}
    MaxLine <- PerFile
    OpenErrs = {"service"}
    StatErrs = {}
INVARIANT
    RotationSurfacesOldLines
CHECK_DEADLOCK FALSE
