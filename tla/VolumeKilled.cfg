SPECIFICATION Spec
CONSTANTS
    b1 = b1
    b2 = b2
    v1 = v1
    Blocks <- MCBlocks
    Values <- MCOneValue
    NoVal = NoVal
    NoRec = NoRec
    Torn = Torn
    MaxLog = 2
    MaxTxn = 2
    MaxGen = 4
    FlagBound = 4
    Ops <- WriteAndFlag
    Faults <- KillFaults
SYMMETRY Symmetry
INVARIANT AlwaysRecoverable
