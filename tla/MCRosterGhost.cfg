SPECIFICATION RosterSpec
CONSTANTS
    RoomID = {r1}
    ParticipantID = {v, p1, p2}
    NoRoom = NoRoom
    Nobody = Nobody
    TheRoom = r1
    Viewer = v
    QueueSize = 3
SYMMETRY Symmetry
INVARIANT NoGhosts
CHECK_DEADLOCK FALSE
