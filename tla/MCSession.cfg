CONSTANTS
    PacketLimit = 250
    NameLength = 4
    UI = ui
    Workers = {w1, w2}
    t1 = t1
    t2 = t2
    Transports <- MCTransports
    None = none
    MaxActs = 2
CHECK_DEADLOCK FALSE
SPECIFICATION Spec
INVARIANTS LinkedIsOpen  NothingLostOnTheWay
