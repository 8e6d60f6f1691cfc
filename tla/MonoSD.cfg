CONSTANTS
    MC_SEC_COUNT = 2
    MC_SEC_SIZE = 1
    MC_TEST_SEC = 0
    MC_SLOT_SEC_COUNT = 2
    Byte = {0, 1}
    Address = {0, 1, 2}
    Images = {1, 2}
    CardsAtBoot = {1, 2}
    BlankCard <- MCBlankCard
    StoreAtBoot <- MCStoreAtBoot
    MULTICORE = FALSE
    USE_SDCARD = TRUE
    StatusGarbage = {"other"}
    IOErrors = TRUE
    MaxBurst = 2
SPECIFICATION FairSpec
INVARIANTS
    Accounted
    QueueNeverBlocks
PROPERTIES
    ImplementsCache
    EventuallySaved
CHECK_DEADLOCK FALSE
