\* Two batches of BasicVSR, and two request items.
SPECIFICATION FairSpec
CONSTANTS
    Kinds = {"basicvsr"}
    MaxFrames = 4
    Items = {i1, i2}
    Nif = 2
    FirstStream = {TRUE}
    Failures = {}
INVARIANT
    BatchShowsItsOwnFrames
