SPECIFICATION FairPublicationsSpec
CONSTANTS
    ParticipantID = {p1}
    Peer = {x1, x2}
    Pub = {b1, b2}
    Closer = {k1}
    Muter = {m1}
    Nobody = Nobody
    NoPeer = NoPeer
    NoPub = NoPub
INVARIANT MuteEnforcedUnlessRaced
PROPERTIES
    DeadTracksUnlisted
    OwnerCommandLands
CHECK_DEADLOCK FALSE
