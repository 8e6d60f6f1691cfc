\* The flash build at a PC: power cuts and errors of littlefs.
SPECIFICATION Spec
CONSTANTS
    MAX_MC_IMAGES = 2
    MaxName = 3
    MaxFiles = 2
    PCFiles <- MCPCFiles
    Blank = "blank"
    Torn = "torn"
    StoredAtFirst <- MCStoredAtFirst
    PowerCuts = TRUE
    LfsErrors = TRUE
INVARIANTS
    TypeOK
    Untouched
PROPERTIES
    UploadsArrive
    
