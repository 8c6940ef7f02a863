\* A ring of three holds two frames: one that the host has not read and one behind
\* it.  Queues are as small as they can be with the code's margin of four above
\* RELIABLE_DATA_EVENT_MAX.  Two credits are one more than fit the queue.
CONSTANTS
    central = central
    peripheral = peripheral
    NoOne = NoOne
    Controllers <- MCControllers
    RING_FRAMES = 3
    BEST_EFFORT_EVENT_MAX = 1
    RELIABLE_DATA_EVENT_MAX = 1
    PENDING_EVENT_MAX = 5
    MAX_HANDLE = 6
    Flow <- MCFlow
    AclPackets = 2
    Programs <- MCPrograms
    Removable <- MCRemovable
    MaxAcl <- MCMaxAcl
SPECIFICATION Spec
INVARIANTS TypeOK Mutual HostKnowsLink ReliableKept AclInOrder CreditsAccounted
PROPERTY NoMissed
CHECK_DEADLOCK FALSE
