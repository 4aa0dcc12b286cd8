SPECIFICATION ExecSpec
CONSTANTS
    Ids <- MCIds
    Inputs <- MCInputs
    NoRef <- None
    NumOutputs = 2
    NumPins = 1
    MaxChannels = 2
    MaxLinks = 1
    StorageSize = 4
    SizeOf <- MCSizeOf
    ClockMod = 4
    MaxDelay = 2
    Blobs <- MCBlobs
INVARIANTS
    TablesSound
PROPERTIES
    TimersInTime
    OthersUntouched
    LostOnlyWhenFull
