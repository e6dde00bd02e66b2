SPECIFICATION Spec
CONSTANTS
    BlockSize = 4
    Frames <- MCFrames
    NumThreads = 2
    None = None
INVARIANT ColoursAsLabelled
