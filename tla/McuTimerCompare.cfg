\* As McuTimer.cfg, with the one combination of habits.
CONSTANTS
    Prescale = 2
    MaxCount = 2
    NoEvent = NoEvent
    MaxTime = 12
    MaxSlips = 2
    Firmwares <- CompareInTick
SPECIFICATION Spec
INVARIANT MatchAhead
CHECK_DEADLOCK FALSE
