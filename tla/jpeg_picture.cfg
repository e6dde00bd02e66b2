SPECIFICATION FairSpec
CONSTANTS
    BlockSize = 4
    Frames <- MCFrames
    NumThreads = 2
    None = None
INVARIANTS TypeOK PictureRight StaysInMemory
PROPERTIES PixelsStay PictureShown
