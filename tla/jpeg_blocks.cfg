\* The tokens of a damaged scan may end at any point, where the model stops.
SPECIFICATION Spec
CONSTANTS
    LastCoeff = 4
    MaxRun = 2
    Files <- MCFiles
    Streams <- MCStreams
INVARIANTS
    TypeOK
    InSync
    Approximation
PROPERTIES
    KeepsOtherBands
CHECK_DEADLOCK FALSE
