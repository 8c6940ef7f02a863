\* Rings of one frame and one credit: everything waits for something.
CONSTANTS
    central = central
    peripheral = peripheral
    NoOne = NoOne
    Controllers <- MCControllers
    RING_FRAMES = 2
    BEST_EFFORT_EVENT_MAX = 1
    RELIABLE_DATA_EVENT_MAX = 1
    PENDING_EVENT_MAX = 5
    MAX_HANDLE = 6
    Flow <- MCLiveFlow
    AclPackets = 1
    Programs <- MCLivePrograms
    Removable <- MCLiveRemovable
    MaxAcl <- MCLiveMaxAcl
SPECIFICATION FairSpec
PROPERTY HostsServed
CHECK_DEADLOCK FALSE
