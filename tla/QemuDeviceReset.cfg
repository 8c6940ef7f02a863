\* A reset pulse.
CONSTANTS
    Values = {1}
    NoRequest = NoRequest
    MaxNoProgress = 2
    MaxCalls = 4
    Sessions <- ResetSession
SPECIFICATION Spec
INVARIANT Rescheduled
CHECK_DEADLOCK FALSE
