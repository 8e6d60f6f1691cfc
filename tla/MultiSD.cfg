CONSTANTS
    MC_SEC_COUNT = 2
    MC_SEC_SIZE = 2
    MC_TEST_SEC = 2
    MC_SLOT_SEC_COUNT = 2
    Byte = {0, 1}
    Address = {0, 2}
    Images = {1, 2}
    CardsAtBoot = {1, 2}
    BlankCard <- MCBlankCard
    StoreAtBoot <- MCStoreAtBoot
    MULTICORE = TRUE
    USE_SDCARD = TRUE
    StatusGarbage = {"other"}
    IOErrors = FALSE
    MaxBurst = 2
SPECIFICATION Spec
INVARIANTS
    IInv
    WriteOrChange
    QueueNeverBlocks
PROPERTIES
    ImplementsCache
    SwitchAfterSync
CHECK_DEADLOCK FALSE
