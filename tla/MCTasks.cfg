SPECIFICATION TasksSpec
CONSTANTS
    NumOutputs = 1
    Sources <- OneSource
    Readings <- MCReadings
    Temps <- HotOrCold
    Duties <- MCDuties
    PwmResolution = 2
    FaultThreshold = 3
    OvercurrentMa = 0
    ShortCircuitMa = 9
    OpenLoadMa = 0
    OvertempC = 145
    OpenLoadDuty = 1
    GraceMs = 0
    DiagPeriod = 1
    CurrentMod = 10
    MaxFaultCount = 5
    QueueSize = 0
    Voltages <- SomeVoltages
    BoardTemps <- SomeBoardTemps
    VoltageMin = 6
    VoltageWarnLow = 10
    VoltageWarnHigh = 15
    VoltageMax = 22
    TempWarning = 100
    TempCritical = 125
    TotalCurrentMax = 0
    TotalPowerMax = 14
    PowerUnit = 1
    MonitorThreshold = 3
    RecoveryDelay = 1
    CounterMod = 4
    Priority <- OnePriority
    Enabled <- OneEnabled
PROPERTIES
    LockoutLostToStaleWrite
    UndervoltageRaisesCritical
    HealthyRecovers
