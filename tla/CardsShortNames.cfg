CONSTANTS
    Base = 5
    MaxNumber = 4
    MAX_MC_IMAGES = 4
    CountWidth = 256
    MC_SLOT_COUNT = 2
    FilesAtFirst <- MCTwoFiles
    LongNames = FALSE
    Garbage <- MCClean
    PCNumbers = {}
    Interrupted = FALSE
SPECIFICATION Spec
PROPERTIES
    BootReloadsLast
