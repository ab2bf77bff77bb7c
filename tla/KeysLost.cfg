SPECIFICATION Spec
CONSTANTS
    a = a
    b = b
    pdf = pdf
    NoCode = NoCode
    Error = Error
    Capsules <- AllCapsules
    PickPaths <- TwoPaths
    FirstPaths <- OnlyA
    OutsidePaths <- OnlyA
    Paths <- TwoPaths
    PdfPaths <- NoPaths
    MaxCards = 2
    MaxOutside = 0
INVARIANT NoCardIsLost
