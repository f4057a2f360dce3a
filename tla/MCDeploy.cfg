SPECIFICATION Spec
CONSTANTS
    TRACEPOINTS <- Hooks
    MaxPinCalls = 2
    Installs <- MCInstalls
    MaxStarts = 2
    DAY = 1
    NOT_BEFORE_BACKDATE = 1
    MAX_SERVING_CERT_DAYS = 3
    SERVING_CERT_WARN_DAYS = 1
    PkiArgs <- MCPkiArgs
    Dirs = {d1, d2}
    MaxToday = 1
    MaxKeys = 6
SYMMETRY SameDirs
INVARIANTS
    LintedPodStarts
    LintedPodEnforces
    AttachIsTrue
    IssuedPairIsTrusted
CHECK_DEADLOCK FALSE
