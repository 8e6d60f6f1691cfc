CONSTANTS
    MC_SEC_COUNT = 2
    MC_SEC_SIZE = 1
    MC_TEST_SEC = 2
    MC_SLOT_SEC_COUNT = 1
    Byte = {0, 1}
    Address = {0, 1, 2}
    Images = {1, 2}
    CardsAtBoot = {1, 2}
    BlankCard <- MCBlankCard
    StoreAtBoot <- MCStoreAtBoot
    MULTICORE = FALSE
    USE_SDCARD = FALSE
    StatusGarbage = {"FR_OK", "other"}
    IOErrors = TRUE
    MaxBurst = 1
SPECIFICATION FairSpec
INVARIANTS
    TypeOK
    Accounted
PROPERTIES
    ImplementsCache
    SavedWhenQuiet
    FreshCardUnchanged
CHECK_DEADLOCK FALSE
