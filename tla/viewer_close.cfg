SPECIFICATION Spec
CONSTANTS
    NumImages = 2
    Heights = {1, 2}
    ImageCounts = {2}
    Sizes = {1, 3}
    AtomSize = 2
    StagingSize = 6
    MaxInputs = 3
INVARIANTS
    ClosesCleanly
