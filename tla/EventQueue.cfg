\* Three elements: two with one time and one with another.  Times 1 to 4: an
\* event before, at and after another, and room for the clock to move.
CONSTANTS
    Elements = {e1, e2, e3}
    Time = {1, 2, 3, 4}
SPECIFICATION Spec
INVARIANTS
    TypeOK
    ExactlyOnce
    InOrderOfTime
PROPERTY
    ClockForward
