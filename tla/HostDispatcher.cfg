SPECIFICATION Spec
CONSTANTS
    h1 = h1
    h2 = h2
    Letters <- TwoLetters
    Preferred = 1
    Hosts <- OneHost
    ConsoleSets <- NoConsole
    FaultSets <- OneFaults
INVARIANT CleanOnlyAfterSafePath
