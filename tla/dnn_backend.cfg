SPECIFICATION FairSpec
CONSTANTS
    Kinds = {"single", "tsenet", "basicvsr"}
    MaxFrames = 5
    Items = {i1, i2, i3}
    Nif = 2
    FirstStream = {TRUE, FALSE}
    Failures = {"start", "infer"}
INVARIANTS
    TypeOK
    ItemsOwnedOnce
    TasksInFlightAreHeld
    FlushedBeforeFree
    FlushLeavesNoTask
PROPERTIES
    ImplementsStream
    FilterReturns
