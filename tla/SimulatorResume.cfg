\* A property is edited while the circuit thread runs a frame.
CONSTANTS
    Usages <- Editing
    Delays = {1, 3}
    m_psPF = 2
    MaxLate = 1
SPECIFICATION Spec
PROPERTY AllEventsDone
