CONSTANTS
    UART_FIFO_LENGTH = 2
    Thresholds = {0, 1}
    RingEvents = 4
    MaxLag = 1
    MaxBytes = 4
    MaxRestarts = 1
    Sessions <- MCSessions
SPECIFICATION Spec
INVARIANTS
    TypeOK
    BytesKept
    LevelArrives
PROPERTY
    Transmits
CHECK_DEADLOCK FALSE
