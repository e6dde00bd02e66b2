SPECIFICATION FairSpec
CONSTANTS
    Bytes = 8
    LengthBase <- MCLengthBase
    LengthValues <- MCLengthValues
    DistanceBase <- MCDistanceBase
    DistanceValues <- MCDistanceValues
    RepeatBase <- MCRepeatBase
    RepeatValues <- MCRepeatValues
    Codes <- MCCodes
    Files <- MCFiles
    Word = 64
    MAX_CHUNK_SIZE = 8
    MaxBlocks = 2
    None = None
INVARIANTS TypeOK OwnAlphabets InflatesWhatWasDeflated StaysInBuffers PictureRecovered
PROPERTY Loads
