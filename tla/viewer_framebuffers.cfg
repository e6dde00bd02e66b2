SPECIFICATION Spec
CONSTANTS
    NumImages = 1
    Heights = {1, 2}
    ImageCounts = {2, 3}
    Sizes = {1}
    AtomSize = 2
    StagingSize = 6
    MaxInputs = 1
INVARIANTS
    FramebuffersRecreated
