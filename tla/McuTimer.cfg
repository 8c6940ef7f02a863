\* A two-bit counter, ticks of two instructions, time for two or three periods.
CONSTANTS
    Prescale = 2
    MaxCount = 3
    NoEvent = NoEvent
    MaxTime = 14
    MaxSlips = 2
    Firmwares <- SoundFirmwares
SPECIFICATION Spec
INVARIANTS
    TypeOK
    OnTime
PROPERTY NoMatchMissed
CHECK_DEADLOCK FALSE
