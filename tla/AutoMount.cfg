SPECIFICATION Spec
CONSTANTS
    FaultSets <- FaultCases
    Neighbours <- AllNeighbours
    MaxPasswords = 2
INVARIANTS
    TypeOK
    AutomaticWorks
    ConnectHasPair
    PromptsAtSignIn
PROPERTIES
    OneShot
    DisabledRemovesSecret
