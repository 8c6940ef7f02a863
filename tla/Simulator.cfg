\* Two delays: one within a frame and one beyond its end.
CONSTANTS
    Usages <- SoundUsages
    Delays = {1, 3}
    m_psPF = 2
    MaxLate = 1
SPECIFICATION Spec
INVARIANTS
    TypeOK
    GuiExclusive
    StopClean
    NothingOvertaken
    EventsOnSolved
    DebuggerCanContinue
PROPERTIES
    GuiComesBack
    FramesGoOn
