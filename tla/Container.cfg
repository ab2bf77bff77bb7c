SPECIFICATION Spec
CONSTANTS
    Texts <- SomeTexts
    ChunkSize = 2
    MaxRecords = 3
    MaxEdits = 2
INVARIANTS
    RoundTrip
    DetectsDamage
    TempIsPrefix
