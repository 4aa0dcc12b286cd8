SPECIFICATION Spec
CONSTANTS
    NumOutputs = 3
    Sources <- MCSources
    Readings <- MCReadings
    Temps <- MCTemps
    Duties <- MCDuties
    PwmResolution = 2
    FaultThreshold = 3
    OvercurrentMa = 9
    ShortCircuitMa = 9
    OpenLoadMa = 0
    OvertempC = 145
    OpenLoadDuty = 1
    GraceMs = 0
    DiagPeriod = 1
    CurrentMod = 10
    MaxFaultCount = 5
    QueueSize = 0
    Voltages <- MCVoltages
    BoardTemps <- MCBoardTemps
    VoltageMin = 6
    VoltageWarnLow = 10
    VoltageWarnHigh = 15
    VoltageMax = 22
    TempWarning = 100
    TempCritical = 125
    TotalCurrentMax = 1
    TotalPowerMax = 100
    PowerUnit = 1
    MonitorThreshold = 3
    RecoveryDelay = 1
    CounterMod = 4
    Priority <- MCPriority
    Enabled <- MCEnabled
INVARIANTS
    ShedListSound
    ShedInPriorityOrder
PROPERTIES
    PassReachesGoal
    SheddingHolds
