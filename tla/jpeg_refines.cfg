SPECIFICATION FairSpec
CONSTANTS
    McuRows = 2
    LastCoeff = 1
    MaxAl = 0
    NumThreads = 2
    MaxDqt = 1
    Liberties <- LateTables
INVARIANT
    NoStaleTable
PROPERTIES
    DecodeEnds
    ImplementsDecode
