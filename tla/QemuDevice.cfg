\* Two values of a register, two requests at one moment, two pulses of the reset
\* pin before the GUI thread gets to them.
CONSTANTS
    Values = {1, 2}
    NoRequest = NoRequest
    MaxNoProgress = 2
    MaxCalls = 4
    Sessions <- AllSessions
SPECIFICATION Spec
INVARIANT TypeOK
PROPERTIES
    Implements
    RunEventReturns
    Answered
CHECK_DEADLOCK FALSE
