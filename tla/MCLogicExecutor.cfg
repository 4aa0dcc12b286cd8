CONSTANTS
    IntMax = 7
    FilterMax = 16
    AlphaScale = 256
    Scale = 1000
    Configs <- MCConfigs
SPECIFICATION Spec
INVARIANTS FiltersFaithful TimerKeepsTime EdgesTakenOnce ValuesInBounds
CHECK_DEADLOCK FALSE
