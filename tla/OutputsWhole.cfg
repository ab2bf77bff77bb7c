SPECIFICATION Spec
CONSTANTS
    j1 = j1
    j2 = j2
    j3 = j3
    Jobs <- ThreeJobs
    Names = 2
    Parts = 1
    FolderFiles = 2
    Forced = TRUE
SYMMETRY Interchangeable
INVARIANTS
    TypeOK
    WholeOutputs
PROPERTIES
    KeepsWhatItFound
