SPECIFICATION Spec
CONSTANTS
    McuRows = 1
    LastCoeff = 1
    MaxAl = 1
    NumThreads = 2
    MaxDqt = 0
    Liberties <- UnfinishedFiles
INVARIANT
    NoCrash
