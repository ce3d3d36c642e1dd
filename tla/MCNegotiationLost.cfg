SPECIFICATION FairNegotiationSpec
CONSTANTS
    Track = {t1, t2}
    OfferedLines = 2
    MaxSpawned = 2
    MaxLeftover = 1
    AfterMishap = FALSE
PROPERTY EveryTrackIsNegotiated
CHECK_DEADLOCK FALSE
