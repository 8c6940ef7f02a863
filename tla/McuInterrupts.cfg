\* Three priorities, for routines nested to depth three, and three interrupts,
\* for a list with a head, a middle and an end.
CONSTANTS
    Ints = {i1, i2, i3}
    null = null
    Priorities = {1, 2, 3}
    Modes <- AvrModes
    Masks <- AvrMasks
    Firmwares <- SoundFirmwares
SYMMETRY Symmetry
SPECIFICATION Spec
INVARIANTS
    TypeOK
    ListsSeparate
    PendingIffDue
    ServedByPriority
    SleepsOnlyIdle
PROPERTY
    ServiceIsAStack
