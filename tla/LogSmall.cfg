CONSTANTS
    LOG_BUFFER_SIZE = 4
    MaxMessage = 3
    NewlineLen = 1
    MaxRoom = 3
    MaxPrinted = 9
SPECIFICATION Spec
INVARIANTS
    TypeOK
    SentInOrder
CHECK_DEADLOCK FALSE
