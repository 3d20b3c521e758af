CONSTANTS
    Client = client
    Workers = {w1, w2}
    MaxCalls = 3
    PatchSolution = FALSE
    NPatches = 1
    InferReqNum = 2
    Apis = {"ivsr_process", "ivsr_process_async"}
    Buffers = {"valid"}
    Failures = {"start", "infer"}
    WaitsForCallbacks = FALSE
    FileCounts = {1, 3}
    Nifs = {1, 2}
    Nigs = {3}
SPECIFICATION SampleSpec
INVARIANTS
    OutputsDoneAtSave
    CallbackArgumentsLive
    DeletedEngineIsQuiescent
PROPERTIES
    SampleEnds
