\* Three elements are the least that can be linked in at the head, in the
\* middle and at the end.  Delay 0 is an event in the running time step, 1 an
\* event within the frame, 2 one at its end, 3 one beyond it.
CONSTANTS
    Elements = {e1, e2, e3}
    Sleepers = {e1}
    null = null
    m_psPF = 2
    Delays = {0, 1, 3}
    MaxTime = 5
SYMMETRY Symmetry
SPECIFICATION Spec
INVARIANTS
    TypeOK
    ListIntact
PROPERTY
    Implements
CHECK_DEADLOCK FALSE
