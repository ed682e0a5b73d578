SPECIFICATION Spec
CONSTANTS
    None = None
    Calls <- TwoCalls
    Requests <- AllRequests
    Targets = {"file"}
    Executor = "exec"
    Recorder = "recorder"
INVARIANTS
    TypeOK
    EffectsAreAllowed
    RefusalsAreClean
    ResultIsOnDisk
    RecordVerifies
    ContentIsBound
    NoTransplant
PROPERTIES
    ImplementsGovernance
CHECK_DEADLOCK FALSE
