SPECIFICATION Spec
CONSTANTS
    Models <- MCModels
    Devices <- MCDevices
    Precisions = {"f32", "f16", "bf16", "i8"}
    Resolutions <- MCResolutions
    Shapes <- MCShapes
    Numbers = {2, 3}
    Descriptors = {"good", "unknown_format"}
    Garbage <- MCGarbage
    MaxEntries = 7
    LegacyOpenVino = FALSE
    Failures = {"extension", "property", "reshape", "compile", "create"}
INVARIANTS
    TypeOK
    PoolAsLargeAsAsked
    PatchesFitTheRequests
    HardwareIsConfigured
    ErrorLeavesNoThread
