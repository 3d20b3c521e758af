CONSTANTS
    Frames <- SplitFrames
    ShapeDims = {2, 5}
SPECIFICATION Spec
INVARIANTS
    PatchesInsideFrame
    PatchesFitTheirBuffers
    RestoredExactly
