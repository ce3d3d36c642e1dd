SPECIFICATION FairRosterSpec
CONSTANTS
    RoomID = {r1}
    ParticipantID = {v, p1}
    NoRoom = NoRoom
    Nobody = Nobody
    TheRoom = r1
    Viewer = v
    QueueSize = 2
INVARIANTS
    RosterTypeOK
    EverybodyShown
PROPERTIES
    LaterArrivalsShown
    DeparturesShown
    SuccessionShown
CHECK_DEADLOCK FALSE
