\* A lost inference leaves wait_all, and the thread in it, waiting for ever.
CHECK_DEADLOCK FALSE
CONSTANTS
    Client = client
    Workers = {w1, w2}
    MaxCalls = 3
    PatchSolution = FALSE
    NPatches = 1
    InferReqNum = 2
    Apis = {"ivsr_process", "ivsr_process_async"}
    Buffers = {"valid", "null_input", "null_output"}
    Failures = {"start", "infer"}
    WaitsForCallbacks = FALSE
SPECIFICATION FairSpec
INVARIANTS
    TypeOK
    EachRequestOwnedOnce
    CounterCountsThisCall
    DeletedEngineIsQuiescent
    NoSleepBesideIdle
PROPERTIES
    ImplementsApi
    CallSettles
    AsyncNotified
