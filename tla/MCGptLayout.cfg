SPECIFICATION Spec
CONSTANTS
    Disks <- MCDisks
    Requests <- MCRequests
    MaxRequests = 3
    AlignLba = 32
    SectorSize = 512
    EntrySize = 128
    MinLba = 128
INVARIANTS
    NothingOverlaps
    FreeIsComplement
    HeaderCoversPartitions
    RoomMeansPlaced
    DropsAreUnderspecified
CHECK_DEADLOCK FALSE
