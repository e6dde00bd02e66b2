SPECIFICATION Spec
CONSTANTS
    McuRows = 3
    LastCoeff = 1
    MaxAl = 1
    NumThreads = 2
    MaxDqt = 0
    Liberties <- OddFiles
INVARIANTS
    TypeOK
    NoRowRace
    NoStaleRow
    NoPixelRace
    CrashExplained
    PictureComplete
PROPERTY
    StepsAsDecode
