SPECIFICATION Spec
CONSTANTS
    Channels <- MCChannels
    MaxStackSize = 2
    MaxGroup = 2
INVARIANTS StacksSound OnlyMergedStick
PROPERTY HistoryIsLinear
