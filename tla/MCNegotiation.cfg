SPECIFICATION FairNegotiationSpec
CONSTANTS
    Track = {t1, t2}
    OfferedLines = 1
    MaxSpawned = 1
    MaxLeftover = 1
    AfterMishap = FALSE
INVARIANTS
    NegotiationTypeOK
    OneOfferInFlight
    SettledIsStable
    ChangesAreNoted
PROPERTY RequestIsServed
CHECK_DEADLOCK FALSE
