SPECIFICATION NodeSpec
CONSTANTS
    Ids <- MCIds
    Inputs <- MCInputs
    NoRef <- None
    NumOutputs = 1
    NumPins = 1
    MaxChannels = 2
    MaxLinks = 1
    StorageSize = 2
    SizeOf <- MCSizeOf
    ClockMod = 3
    MaxDelay = 2
    Blobs <- MCBlobs
    Stubs <- MCStubs
    Nothing = Nothing
    WordsOf <- MCWordsOf
INVARIANTS
    NodeAgrees
PROPERTIES
    ImplementsSaved
    PulseEnds
