CONSTANTS
    Frames <- UnevenFrames
    ShapeDims = {5}
SPECIFICATION Spec
INVARIANT PatchesInsideFrame
