\* A tree of two files, one of which grows; one fault.
SPECIFICATION Spec
CONSTANTS
    f1 = f1  f2 = f2  NoFile = NoFile
    Files <- MCFiles
    Versions = {1, 2}
    Text <- MCText
    CharsPerToken = 4  TargetTokens = 3  MinTokens = 2  MaxTokens = 4
    LineLengths = {1, 3, 7, 8, 12, 15, 19, 33}
    MaxLines = 4
    Pieces = 2
    BatchSize = 3
    MaxRings = 4
    MaxEdits = 1
    MaxFaults = 1
INVARIANTS HeadTellsAll SkippedIsWhole EmbeddedWhole TextsAreWellCut
PROPERTIES SemanticStoreKept
CHECK_DEADLOCK FALSE
