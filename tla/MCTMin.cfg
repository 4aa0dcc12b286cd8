CONSTANTS
    SeqCount = 4
    Window = 2
    RxWindow = 2
    FifoSize = 2
    MaxFrames = 2
    MaxSession = 2
    LinkCap = 2
    MaxFaults = 1
    StartSeqs = {3}
SPECIFICATION Spec
INVARIANTS EndsAgree NackIsAnswerable DeliveredOnce AckedWasAccepted
PROPERTIES QueuedIsAcked
CHECK_DEADLOCK FALSE
