SPECIFICATION FairSpec
CONSTANTS
    h1 = h1
    h2 = h2
    Letters <- TwoLetters
    Preferred = 1
    Hosts <- TwoHosts
    ConsoleSets <- SomeConsole
    FaultSets <- HostFaults
INVARIANTS
    TypeOK
    CleanMeansDismounted
    SessionIsShown
PROPERTIES
    StopDetaches
    OthersUntouched
    ShowsLiveHost
