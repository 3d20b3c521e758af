\* A lost inference leaves wait_all, and the thread in it, waiting for ever.
CHECK_DEADLOCK FALSE
CONSTANTS
    Client = client
    Workers = {w1, w2}
    MaxCalls = 2
    PatchSolution = TRUE
    NPatches = 3
    InferReqNum = 1
    Apis = {"ivsr_process", "ivsr_process_async"}
    Buffers = {"valid", "null_output"}
    Failures = {"create", "start", "infer"}
    WaitsForCallbacks = TRUE
SPECIFICATION FairSpec
INVARIANTS
    SdkInv
    EachRequestOwnedOnce
    PatchesDoneAtRestore
    NoTaskOutlivesItsCall
    GrowthIsExclusive
    NoLostNotification
PROPERTIES
    ImplementsApi
    CallSettles
    DeinitReturns
