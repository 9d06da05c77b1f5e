\* Four directories packed in turn, three runs, two of which die.
SPECIFICATION PackerSpec
CONSTANTS
    Inputs <- MCInputs
    FirstFiles <- MCFirstFiles
    TextureCount = 2
    MaxId = 3
    MaxRuns = 3
    MaxCrashes = 2
    Torn = Torn
    ByteSize = 4
    LetterG = 1
    LetterK = 2
    LetterR = 3
    LetterM = 0
    Throws = Throws
CHECK_DEADLOCK FALSE
INVARIANTS
    LoadsWhatWasSaved
    NoPartIsShown
    ModelsOpen
    EverythingPacked
PROPERTIES
    ModelKeepsMeaning
