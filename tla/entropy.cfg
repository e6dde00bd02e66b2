\* Bytes of two bits, a buffer of four bytes, codes of two bytes at most.
SPECIFICATION Spec
CONSTANTS
    ByteBits = 2
    BufferBytes = 4
    MaxLength = 4
    PeekBits = 3
    Files <- EntropyFiles
INVARIANTS
    TypeOK
    ReadsWhatWasWritten
    NeverOutOfData
    ResumesAtMarker
