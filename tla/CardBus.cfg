CONSTANTS
    MC_SEC_SIZE = 2
    GameIdLen = 1
    FifoDepth = 3
    Builds = {TRUE, FALSE}
    Commands = {"read", "write", "id", "pad"}
    MaxAborts = 1
    MaxEdges = 2
    MaxCards = 2
SPECIFICATION FairSpec
INVARIANTS
    TypeOK
    SectorFromWrite
    WriteToAnnouncedCard
    BusInv
PROPERTIES
    Recovers
    AcceptedRead
    AcceptedWrite
