SPECIFICATION Spec
CONSTANTS
    b1 = b1
    b2 = b2
    v1 = v1
    Blocks <- MCBlocks
    Values <- MCOneValue
    NoVal = NoVal
    NoRec = NoRec
    Torn = Torn
    MaxLog = 3
    MaxTxn = 2
    MaxGen = 3
    FlagBound = 2
    Ops <- AllOps
    Faults <- CrashFaults
SYMMETRY Symmetry
INVARIANTS
    AcknowledgedIsDurable
    FlagIsDurable
PROPERTIES
    ImplementsCrashStore
