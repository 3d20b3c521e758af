\* A second stream of TSENet in the process, with three frames.
SPECIFICATION FairSpec
CONSTANTS
    Kinds = {"tsenet"}
    MaxFrames = 3
    Items = {i1, i2}
    Nif = 2
    FirstStream = {FALSE}
    Failures = {}
INVARIANT
    FirstPictureRepeated
