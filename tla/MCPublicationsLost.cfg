SPECIFICATION PublicationsSpec
CONSTANTS
    ParticipantID = {p1, p2}
    Peer = {x1, x2, x3}
    Pub = {b1, b2}
    Closer = {k1}
    Muter = {}
    Nobody = Nobody
    NoPeer = NoPeer
    NoPub = NoPub
SYMMETRY Symmetry
INVARIANT LiveTrackIsPublished
CHECK_DEADLOCK FALSE
