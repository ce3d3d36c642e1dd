SPECIFICATION PublicationsSpec
CONSTANTS
    ParticipantID = {p1, p2}
    Peer = {x1, x2, x3}
    Pub = {b1, b2}
    Closer = {k1}
    Muter = {m1}
    Nobody = Nobody
    NoPeer = NoPeer
    NoPub = NoPub
SYMMETRY Symmetry
INVARIANT OwnerMuteIsEnforced
CHECK_DEADLOCK FALSE
