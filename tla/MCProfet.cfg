SPECIFICATION FairSpec
CONSTANTS
    NumOutputs = 1
    Readings <- MCReadings
    Temps <- MCTemps
    Duties <- MCDuties
    PwmResolution = 2
    FaultThreshold = 3
    OvercurrentMa = 3
    ShortCircuitMa = 8
    OpenLoadMa = 1
    OvertempC = 145
    OpenLoadDuty = 1
    GraceMs = 1
    DiagPeriod = 2
    CurrentMod = 7
    MaxFaultCount = 6
    Sources <- MCSources
    QueueSize = 1
INVARIANTS
    OutputAgrees
    FaultsExplained
PROPERTIES
    LockoutHolds
    ImplementsFuse
    OvercurrentTrips
