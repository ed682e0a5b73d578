SPECIFICATION Spec
CONSTANTS
    None = None
    Calls <- TwoCalls
    Requests <- AllRequests
    Targets = {"file"}
    Executor = "exec"
    Recorder = "recorder"
INVARIANTS
    EffectsAreReported
CHECK_DEADLOCK FALSE
