SPECIFICATION Spec
CONSTANTS
    None = None
    Calls <- TwoCalls
    Requests <- AllRequests
    Targets = {"file"}
    Executor = "exec"
    Recorder = "recorder"
INVARIANTS
    RefusalsVerify
CHECK_DEADLOCK FALSE
