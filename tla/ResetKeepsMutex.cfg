CONSTANTS
    MC_SEC_COUNT = 2
    MC_SEC_SIZE = 1
    MC_TEST_SEC = 2
    MC_SLOT_SEC_COUNT = 2
    Byte = {0, 1}
    Address = {0, 1}
    Images = {1}
    CardsAtBoot = {1}
    BlankCard <- MCBlankCard
    StoreAtBoot <- MCStoreAtBoot
    MULTICORE = TRUE
    USE_SDCARD = TRUE
    StatusGarbage = {"other"}
    IOErrors = FALSE
    MaxBurst = 2
SPECIFICATION Spec
INVARIANTS
    TransactionReleased
CHECK_DEADLOCK FALSE
