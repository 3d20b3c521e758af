CONSTANTS
    Client = client
    Workers = {w1, w2}
    MaxCalls = 1
    PatchSolution = FALSE
    NPatches = 1
    InferReqNum = 1
    Apis = {"ivsr_process"}
    Buffers = {"valid"}
    Failures = {"infer"}
    WaitsForCallbacks = TRUE
SPECIFICATION FairSpec
PROPERTY CallReturns
CHECK_DEADLOCK FALSE
