CONSTANTS
    Frames <- EvenFrames
    ShapeDims = {2}
SPECIFICATION Spec
INVARIANT EveryFrameIsSplit
