CONSTANTS
    Base = 5
    MaxNumber = 4
    MAX_MC_IMAGES = 4
    CountWidth = 256
    MC_SLOT_COUNT = 2
    FilesAtFirst <- MCTwoFiles
    LongNames = TRUE
    Garbage <- MCClean
    PCNumbers = {0, 1, 2, 3}
    Interrupted = TRUE
SPECIFICATION Spec
INVARIANTS
    TypeOK
    CurrentWhole
PROPERTIES
    CreateKeepsSaves
    BootReloadsLast
    NextIsNextNumber
