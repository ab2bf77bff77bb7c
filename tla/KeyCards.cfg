SPECIFICATION FairSpec
CONSTANTS
    a = a
    b = b
    pdf = pdf
    NoCode = NoCode
    Error = Error
    Capsules <- AllCapsules
    PickPaths <- BAndPdf
    FirstPaths <- OnlyA
    OutsidePaths <- OnlyA
    Paths <- ThreePaths
    PdfPaths <- OnePdf
    MaxCards = 2
    MaxOutside = 1
INVARIANTS
    TypeOK
    UnlockedIsSelected
    ReadyCardsOpen
    MarkingKeepsCapsule
PROPERTIES
    BackupsKeepCards
    BackupsAreFaithful
    TaskEnds
