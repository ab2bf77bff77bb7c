SPECIFICATION Spec
CONSTANTS
    t1 = t1
    t2 = t2
    Threads <- TwoThreads
    Requests <- SomeRequests
    SectorSize = 2
    BlockSize = 4
    Capacity = 6
    Mbr <- Table
    MinCapacity = 6
INVARIANTS
    TypeOK
    BlocksFit
PROPERTIES
    ImplementsDisk
