SPECIFICATION RebuildSpec
CONSTANTS
    MaxDepth = 1
    Byte <- MCByte
    Documents <- MCDocuments
    NewTexts <- MCNewTexts
INVARIANTS
    GuardBoundsReader
    RebuildReplaces
CHECK_DEADLOCK FALSE
